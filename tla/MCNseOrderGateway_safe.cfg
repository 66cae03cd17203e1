\* Orders may come at any time, also during a download.
SPECIFICATION Spec
CONSTANTS
  Ids = {id1, id2, id3}
  NoId = NoId
  oms = oms
  exch = exch
  Threads = {oms, exch}
  Capacity = 2
  Streams = 2
  MaxSessions = 3
SYMMETRY IdSymmetry
INVARIANTS GatewayTypeOK Accounted HeldOnce RefusedIsFinal
PROPERTIES UsesOrderHistory DownloadSettles UnknownAtExchange
CHECK_DEADLOCK FALSE
