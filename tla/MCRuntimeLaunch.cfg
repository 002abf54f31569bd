SPECIFICATION Spec
CONSTANTS
  None = None
  RingLines = 4
  Workers = {"q1", "q2"}
  Slots = {"s1", "s2", "s3", "s4", "s5", "s6"}
  Near <- MCNear
  CoutRing = 8
  Buffers = {"b1", "b2", "h1", "h2", "h3"}
  Kernels = {"k1", "k2"}
  Commands = {"c1", "c2", "c3", "c4", "c5", "c6", "c7"}
  UserEvents = {"u"}
  MemBase = 0
  MemSize = 20
  PinnedSize = 8
  PageAlign = 4
  BlockAlign = 2
  Sizes = {1, 3, 6}
  Places <- MCPlaces
  Addrs <- MCAddrs
  Programs <- MCLaunches
INVARIANTS LaunchSeesItsArgs
CHECK_DEADLOCK FALSE
