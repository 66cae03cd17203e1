SPECIFICATION Spec
CONSTANTS
  Part = 1
  Rewind = 1
  MaxTrades = 2
  MaxMade = 3
  MaxSessions = 1
  Garbage = {1}
INVARIANT
  RecoveredBeforeDeletion
CHECK_DEADLOCK FALSE
