SPECIFICATION Spec
CONSTANTS
  MsgLimit = 2
  TimeLimit = 2
  MaxClock = 8
  MaxSent = 6
INVARIANTS WindowBound
CHECK_DEADLOCK FALSE
