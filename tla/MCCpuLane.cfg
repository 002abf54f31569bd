CONSTANTS
  nBanks = 1
  nRows = 2
  nCols = 1
  LineBytes = 5
  tACT = 1
  tPRE = 1
  tREF = 2
  Line <- MCLine
  ZeroLine <- MCZero
  Addr <- MCAddr
  LaneModes = {1, 2}
  PowerUp <- MCPowerUp
  ByteBits = 2
  ImmShift = 4
  nRegs = 4
  nWords = 32
  Programs <- MCPrograms
SPECIFICATION LaneSpec
INVARIANTS FetchedLineCurrent
PROPERTIES CoreImplementsIsa ProgramHalts
