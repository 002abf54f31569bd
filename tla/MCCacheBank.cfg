SPECIFICATION OrderSpec
CONSTANTS
  Configs <- MCConfigs
  NumSets = 1
  Tags = {"a", "b"}
  NumSectors = 2
  Bytes = {1, 2}
  Harts = {1, 2}
  MshrSize = 2
  AmoCap = 1
  MaxReqs = 4
  ChanCap = 2
  RspCap = 1
  None = None
INVARIANTS ResponseCurrent AssertsHold FlushWritesBack
PROPERTIES PerformedInOrder MemoryNeverRegresses LrScAtomic Drains
CHECK_DEADLOCK FALSE
