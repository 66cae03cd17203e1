SPECIFICATION FairSpec
CONSTANTS
  Orders = {o1, o2, o3}
  MaxSession = 3
INVARIANTS
  BseTypeOK
  NoOrderIgnored
  FirstSessionRead
PROPERTY LogsIn
CHECK_DEADLOCK FALSE
