------------------------------ MODULE MCSpine -------------------------------
(***************************************************************************)
(* The arbiter and its stack for TLC, on two banks of two rows of two      *)
(* columns, looked at in one of two ways.  For "data" the addresses are a  *)
(* line, its neighbour in the row, its row conflict and its alias past the *)
(* capacity; one port presents any request and the others one that differs *)
(* from it in every field, so that a wrong selection shows.  For "service" *)
(* data plays no part: two rows of one bank, one value, and the refresh    *)
(* clock of RefreshTiming beside the observers of the watched port.        *)
(***************************************************************************)
EXTENDS MemFabric, ArbiterQoS, RefreshTiming

CONSTANTS x, zero

VARIABLE view     \* "data" or "service"

MCLine == {x, zero}
MCAddr == {LineBytes * l : l \in {0, 1, 4, 8}}

Useful == {q \in MemReq : q.isWrite \/ q.data = ZeroLine}
Decoy(q) == [addr |-> IF q.addr = 0 THEN LineBytes ELSE 0,
             data |-> IF q.data = x THEN zero ELSE x,
             isWrite |-> ~ q.isWrite]
MCBits == {[p \in Port |-> IF p = one THEN q ELSE Decoy(q)] :
             one \in Port, q \in Useful}

Rows == rData = ZeroLine /\ lineOf(rAddr) \in {0, 4}

MCInit ==
  /\ FabricInit /\ QoSInit /\ keepOpen = open_page /\ age = 0
  /\ \/ view = "data" /\ watched = CPU
     \/ view = "service" /\ Rows

DataNext == view = "data" /\ FabricNext /\ UNCHANGED <<history, keepOpen, age>>
ServiceNext == view = "service" /\ QoSNext /\ Ageing /\ Rows' /\ UNCHANGED <<pending, reply>>

MCNext == (DataNext \/ ServiceNext) /\ UNCHANGED view
MCSpec == MCInit /\ [][MCNext]_<<allVars, pending, reply, keepOpen, age, view>>
=============================================================================
