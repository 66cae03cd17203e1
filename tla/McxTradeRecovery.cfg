SPECIFICATION FairSpec
CONSTANTS
  Part = 1
  Rewind = 1
  MaxTrades = 2
  MaxMade = 3
  MaxSessions = 2
  Garbage = {1}
INVARIANTS
  RecoveryTypeOK
  Partition1BeforeDeletion
PROPERTIES
  ImplementsTradeFeed
  RecoveryStarts
  EveryTradeTold
  RecoveryEnds
  DeletionTold
CHECK_DEADLOCK FALSE
