CONSTANTS
  nBanks = 1
  nRows = 2
  nCols = 1
  LineBytes = 2
  tACT = 1
  tPRE = 1
  tREF = 2
  Line <- MCLine
  ZeroLine <- MCZero
  Addr <- MCAddr
  Id = {0, 1}
  WriteAddr = {0}
  ReadAddr <- MCAddr
  Beats <- MCBeats
  OtherReqs <- MCOtherReqs
  PowerUp <- MCPowerUp
  LaneModes <- MCModes
  nClusters = 2
  ClusterReqs <- MCClusterReqs
SPECIFICATION LaneSpec
PROPERTIES AxiLaneAtomic GpuLaneAtomic
