----------------------------- MODULE MCAxiLane ------------------------------
(***************************************************************************)
(* Two lines of two bytes in two rows of a bank.  Vortex stores to line 0, *)
(* in part or in full, and loads both, while the other ports write line 1. *)
(* The two clusters present requests that differ in every field, while the *)
(* other ports overwrite line 0.                                           *)
(***************************************************************************)
EXTENDS AxiLane

MCLine == [0 .. 1 -> {0, 1}]
MCZero == [b \in 0 .. 1 |-> 0]
MCOnes == [b \in 0 .. 1 |-> 1]
MCAddr == {0, LineBytes}
MCPowerUp == [addr : {LineBytes}, id : {0}, data : {MCOnes}, strb : {{0}}]

MCRead(a)     == [addr |-> a, data |-> MCZero, isWrite |-> FALSE]
MCWrite(a, d) == [addr |-> a, data |-> d, isWrite |-> TRUE]

MCModes == [p \in {GPU, ACC} |-> IF p = GPU THEN Mode ELSE {0, 2}]
MCOtherReqs ==
  [p \in {GPU, ACC} |->
     IF p = GPU THEN {MCWrite(0, MCOnes), MCRead(0)}
     ELSE {MCWrite(LineBytes, MCZero), MCWrite(LineBytes, MCOnes), MCRead(0)}]
MCBeats == [data : {MCOnes}, strb : {{0}, {0, 1}}] \cup [data : {MCZero}, strb : {{1}}]
MCClusterReqs ==
  {[c \in 0 .. 1 |-> IF c = one THEN MCRead(0) ELSE MCWrite(LineBytes, MCOnes)] :
     one \in 0 .. 1}
    \cup {[c \in 0 .. 1 |-> IF c = one THEN MCRead(LineBytes)
                                       ELSE MCWrite(0, MCZero)] : one \in 0 .. 1}
=============================================================================
