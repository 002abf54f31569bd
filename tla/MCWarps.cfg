SPECIFICATION Spec
CONSTANTS
  Cores <- MCCores
  NumWarps = 3
  NumThreads = 4
  NumBarriers = 2
  LmemCapacity = 2
  None = None
  Pick <- MCPick
  Trips <- MCTrips
  Launches <- MCLaunches
INVARIANTS BarrierHolds CopyArrived EveryThreadRan SlotPlacement AssertsHold
PROPERTIES Completes
CHECK_DEADLOCK FALSE
