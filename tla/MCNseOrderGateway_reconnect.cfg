\* One reconnection.
SPECIFICATION FairSpec
CONSTANTS
  Ids = {id1}
  NoId = NoId
  oms = oms
  exch = exch
  Threads = {oms, exch}
  Capacity = 2
  Streams = 1
  MaxSessions = 2
PROPERTIES Reconnects
CHECK_DEADLOCK FALSE
