----------------------------- MODULE MemFabric ------------------------------
(***************************************************************************)
(* SplitPrioritizer with its HBM3Stack, under arbitrary inputs on all      *)
(* three ports, seen from the ports: `pending' is the request whose        *)
(* handshake fired and is not answered, `reply' the last response taken.   *)
(* Both are history variables; the theorem is that what the ports see is   *)
(* LineMemory.                                                             *)
(***************************************************************************)
EXTENDS SplitPrioritizer

CONSTANT Bits     \* requests the three ports may present in a cycle

ASSUME BitsAssumption == Bits \subseteq [Port -> MemReq]

VARIABLES pending, reply

fabricVars == <<splitVars, pending, reply>>

(* io.soc.<port>_req.ready, and the request of a port as it leaves it. *)
portReady(p, avail) == reqReady /\ avail # {} /\ sel(avail) = p

Sent(p, bits) ==
  [port |-> p, line |-> lineOf(bits[p].addr) % Capacity,
   data |-> bits[p].data, isWrite |-> bits[p].isWrite]

FabricInit == SplitInit /\ pending = {} /\ reply = {}

FabricGrant(avail, bits) ==
  /\ Grant(avail, bits)
  /\ pending' = pending \cup
                {Sent(p, bits) : p \in {q \in avail : portReady(q, avail)}}
  /\ UNCHANGED reply

(* The tagged port takes the response in the cycle its ready is high. *)
FabricRespond(ready) ==
  /\ Respond(ready)
  /\ IF respPort \in ready
     THEN /\ reply' = {[port |-> respPort, data |-> respBits]}
          /\ pending' = {}
     ELSE UNCHANGED <<pending, reply>>

FabricNext ==
  \/ \E avail \in SUBSET Port, bits \in Bits : FabricGrant(avail, bits)
  \/ \E ready \in SUBSET Port : FabricRespond(ready)
  \/ (NoRequest({}) \/ Busy) /\ UNCHANGED <<pending, reply>>

FabricSpec == FabricInit /\ [][FabricNext]_fabricVars

(* The inductive invariant behind it: a request is pending exactly while   *)
(* the stack works on it, and the captured registers and the tag are it.   *)
Captured == [port |-> respPort, line |-> lineOf(rAddr) % Capacity,
             data |-> rData, isWrite |-> rW]

FabricInv ==
  /\ HBMTypeOK
  /\ rr \in Port /\ src_cpu \in BOOLEAN /\ src_gpu \in BOOLEAN
  /\ mode \in Mode
  /\ pending = IF state \in {"s_prech", "s_act", "s_cmd"} THEN {Captured}
                                                        ELSE {}

----------------------------------------------------------------------------
LM == INSTANCE LineMemory
        WITH Requester <- Port,
             mem <- memView

(* Whatever the ports do, what they see is LineMemory: each response is    *)
(* routed to the port that issued the request it answers, each read        *)
(* returns the line as the last write to it (by any port) left it, and     *)
(* paging, refresh and a stalled response neither lose, duplicate nor      *)
(* invent a write.                                                         *)
ImplementsLineMemory == LM!Spec
=============================================================================
