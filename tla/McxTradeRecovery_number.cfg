SPECIFICATION FairSpec
CONSTANTS
  Part = 1
  Rewind = 1
  MaxTrades = 1
  MaxMade = 0
  MaxSessions = 1
  Garbage = {1}
PROPERTY
  EveryDeletionTold
CHECK_DEADLOCK FALSE
