SPECIFICATION ListsSpec
CONSTANTS
  Fd = {5, 6}
  Group = {"g1", "g2"}
  Silent = {"g2"}
  Own = "own"
  MaxPeers = 2
  MaxList = 2
  MaxGlue = 1
INVARIANTS
  ListsTypeOK
  StoredOnce
  
  OwnListReadsBack
