SPECIFICATION Spec
CONSTANTS
  Ids = {id1, id2, id3}
  NoId = NoId
  Threads = {oms, exch}
  oms = oms
  Capacity = 3
INVARIANTS Accounted
CHECK_DEADLOCK FALSE
