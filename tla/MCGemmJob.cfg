SPECIFICATION JobSpec
CONSTANTS
  tile = 2
  elemsPerLine = 2
  HalfMod = 4
  MemLines = 9
  Operands = {1, 3}
  Memories <- MCMemories
  Bases = {0, 1, 5}
  Noise <- MCNoise
  MaxJobs = 2
INVARIANTS FirstProduct OnlyCTileWritten
PROPERTIES JobFinishes
