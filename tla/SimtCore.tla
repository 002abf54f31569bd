------------------------------ MODULE SimtCore ------------------------------
(***************************************************************************)
(* gpu/SimtCore.scala: the vector core that streams lines of X and Z out   *)
(* of memory, adds them lane by lane and stores Y.  A line is a function   *)
(* from lanes to elements; addresses count lines.  `start' is the launch   *)
(* on the start pins in this cycle, or {}: it clears doneReg in every      *)
(* state and is latched only in s_idle.                                    *)
(***************************************************************************)
EXTENDS Integers

CONSTANTS
  nLanes, ElemMod,        \* lanes of a line, 2^elemBits
  LineMod                 \* 2^16: nReg and line are 16-bit registers

VARIABLES state, xBase, zBase, yBase, nReg, line, xLine, zLine, doneReg

simtVars == <<state, xBase, zBase, yBase, nReg, line, xLine, zLine, doneReg>>

Lane == 0 .. nLanes - 1
Elem == 0 .. ElemMod - 1

AddLines(x, z) == [l \in Lane |-> (x[l] + z[l]) % ElemMod]

yLine == AddLines(xLine, zLine)

(* Outputs of the memory port. *)
reqValid  == state \in {"s_rdX", "s_rdZ", "s_wrY"}
respReady == state \in {"s_rdXr", "s_rdZr", "s_wrYr"}
req == [line |-> line + CASE state = "s_rdX" -> xBase
                          [] state = "s_rdZ" -> zBase
                          [] state = "s_wrY" -> yBase,
        data |-> yLine, isWrite |-> state = "s_wrY"]

Init ==
  /\ state = "s_idle"
  /\ xBase = 0 /\ zBase = 0 /\ yBase = 0 /\ nReg = 0 /\ line = 0
  /\ xLine = [l \in Lane |-> 0] /\ zLine = [l \in Lane |-> 0]
  /\ doneReg = FALSE

Cleared(start) == doneReg' = (doneReg /\ start = {})

Idle(start) ==
  /\ state = "s_idle" /\ start = {}
  /\ UNCHANGED simtVars

Launch(start) ==
  /\ state = "s_idle"
  /\ \E p \in start :
       xBase' = p.baseX /\ zBase' = p.baseZ /\ yBase' = p.baseY /\ nReg' = p.nLines
  /\ line' = 0
  /\ state' = "s_rdX"
  /\ Cleared(start)
  /\ UNCHANGED <<xLine, zLine>>

(* A request is taken, or waits for the memory. *)
Request(ready, start) ==
  /\ reqValid
  /\ state' = IF ready THEN CASE state = "s_rdX" -> "s_rdXr"
                              [] state = "s_rdZ" -> "s_rdZr"
                              [] state = "s_wrY" -> "s_wrYr"
                       ELSE state
  /\ Cleared(start)
  /\ UNCHANGED <<xBase, zBase, yBase, nReg, line, xLine, zLine>>

AwaitResp(start) ==
  /\ respReady
  /\ Cleared(start)
  /\ UNCHANGED <<state, xBase, zBase, yBase, nReg, line, xLine, zLine>>

TakeX(bits, start) ==
  /\ state = "s_rdXr"
  /\ xLine' = bits
  /\ state' = "s_rdZ"
  /\ Cleared(start)
  /\ UNCHANGED <<xBase, zBase, yBase, nReg, line, zLine>>

TakeZ(bits, start) ==
  /\ state = "s_rdZr"
  /\ zLine' = bits
  /\ state' = "s_calc"
  /\ Cleared(start)
  /\ UNCHANGED <<xBase, zBase, yBase, nReg, line, xLine>>

Calc(start) ==
  /\ state = "s_calc"
  /\ state' = "s_wrY"
  /\ Cleared(start)
  /\ UNCHANGED <<xBase, zBase, yBase, nReg, line, xLine, zLine>>

(* Mutant: the last-line test is one line late. *)
lastLineLate == line = nReg % LineMod

lastLine == line = (nReg - 1) % LineMod

(* Mutant: the line counter does not move on. *)
TakeYSameLine(start) ==
  /\ state = "s_wrYr"
  /\ IF lastLine
     THEN nReg' = 0 /\ doneReg' = TRUE /\ state' = "s_idle"
     ELSE state' = "s_rdX" /\ Cleared(start) /\ UNCHANGED nReg
  /\ UNCHANGED <<xBase, zBase, yBase, line, xLine, zLine>>

(* The assignment of doneReg in the FSM comes after the one on start, and  *)
(* wins when both happen in one cycle.                                     *)
TakeY(start) ==
  /\ state = "s_wrYr"
  /\ line' = (line + 1) % LineMod
  /\ IF lastLine
     THEN nReg' = 0 /\ doneReg' = TRUE /\ state' = "s_idle"
     ELSE state' = "s_rdX" /\ Cleared(start) /\ UNCHANGED nReg
  /\ UNCHANGED <<xBase, zBase, yBase, xLine, zLine>>
=============================================================================
