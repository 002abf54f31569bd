CONSTANTS
  x = x
  zero = zero
  nBanks = 2
  nRows = 2
  nCols = 2
  LineBytes = 2
  tACT = 1
  tPRE = 2
  tREF = 3
  Line <- MCLine
  ZeroLine = zero
  Addr <- MCAddr
  Bits <- MCBits
SPECIFICATION MCSpec
INVARIANTS RoundRobinFair WaitBound RefreshInterval
PROPERTIES ImplementsLineMemory ColumnNeedsOpenRow
