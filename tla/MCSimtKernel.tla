---------------------------- MODULE MCSimtKernel ----------------------------
(* SimtKernel with every base address of a small memory, so that X, Z and  *)
(* Y are disjoint, overlap, and wrap around the end.                       *)
EXTENDS SimtKernel

CONSTANTS Counts

MCLaunches ==
  [baseX : 0 .. MemLines - 1, baseZ : 0 .. MemLines - 1,
   baseY : 0 .. MemLines - 1, nLines : Counts]
=============================================================================
