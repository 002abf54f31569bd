SPECIFICATION OrderSpec
CONSTANTS
  Configs <- MCFlushConfigs
  NumSets = 1
  Tags = {"a", "b"}
  NumSectors = 2
  Bytes = {1, 2}
  Harts = {1, 2}
  MshrSize = 2
  AmoCap = 1
  MaxReqs = 4
  ChanCap = 2
  RspCap = 1
  None = None
INVARIANT FlushedMemory
CHECK_DEADLOCK FALSE
