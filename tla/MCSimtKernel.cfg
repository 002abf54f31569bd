SPECIFICATION KernelSpec
CONSTANTS
  nLanes = 2
  ElemMod = 2
  LineMod = 4
  MemLines = 3
  Counts = {0, 1, 2}
  Launches <- MCLaunches
INVARIANTS KernelResult
PROPERTIES KernelFinishes
