\* The NSE and IIBX throttle, under a clock that may be set back.
SPECIFICATION Spec
CONSTANTS
  MsgLimit = 2
  Slack = 0
  TimeLimit = 2
  ClockMaySet = TRUE
  MaxClock = 6
  MaxSent = 6
  MaxEpoch = 3
INVARIANTS TypeOK RingIsExact WindowBound NoBurst
PROPERTIES ImplementsRateLimit
CHECK_DEADLOCK FALSE
