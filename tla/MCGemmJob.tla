----------------------------- MODULE MCGemmJob ------------------------------
(* GemmJob on 2 x 2 tiles, two halfwords a line; the operands range over   *)
(* Operands, the C tile starts as zeros.                                   *)
EXTENDS GemmJob

CONSTANTS Operands

MCLine == [0 .. elemsPerLine - 1 -> Operands]
MCZero == [e \in 0 .. elemsPerLine - 1 |-> 0]
MCMemories ==
  {[l \in 0 .. MemLines - 1 |-> IF l < 2 * linesOperand THEN f[l] ELSE MCZero] :
     f \in [0 .. 2 * linesOperand - 1 -> MCLine]}
MCNoise == {[e \in 0 .. elemsPerLine - 1 |-> HalfMod - 1]}
=============================================================================
