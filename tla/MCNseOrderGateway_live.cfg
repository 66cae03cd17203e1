\* Fair threads, a history with room for every order.
SPECIFICATION FairSpec
CONSTANTS
  Ids = {id1, id2}
  NoId = NoId
  oms = oms
  exch = exch
  Threads = {oms, exch}
  Capacity = 2
  Streams = 2
  MaxSessions = 2
PROPERTIES DownloadEnds DrainEnds
CHECK_DEADLOCK FALSE
