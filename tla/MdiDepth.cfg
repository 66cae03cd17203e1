SPECIFICATION FairSpec
CONSTANTS
  DEPTH_SIZE = 2
  MaxPrice = 3
  MaxQty = 2
  MaxSeq = 3
  MaxWire = 2
  MaxFaults = 1
INVARIANTS
  DepthTypeOK
  LaddersCorrect
  DepthIsBook
  PublishedIsCurrent
PROPERTY Heals
