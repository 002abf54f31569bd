-------------------------- MODULE SplitPrioritizer --------------------------
(***************************************************************************)
(* memory/SplitPrioritizer.scala: the arbiter that shares the one          *)
(* HBM3Stack it instantiates between the CPU, GPU and accelerator ports.   *)
(* A cycle's inputs are parameters: `avail', the set of ports whose        *)
(* request is valid; `bits', the request each port presents; `ready', the  *)
(* set of ports whose response channel is ready.  `mode' is the QoS pin,   *)
(* which Top straps to a literal: it keeps its initial value.              *)
(***************************************************************************)
EXTENDS HBM3Stack, RoundRobin

VARIABLES
  rr,                     \* port served last
  src_cpu, src_gpu,       \* tag of the request in service
  mode

splitVars == <<hbmVars, rr, src_cpu, src_gpu, mode>>

CPU  == 0
GPU  == 1
ACC  == 2
Port == {CPU, GPU, ACC}

(* SplitMode; the pin has two bits and 3 behaves as 0. *)
Fair   == 0
Gaming == 1
AI     == 2
Mode   == 0 .. 3

cpu_priority == mode \in {Gaming, AI}
open_page    == mode = AI

(* Mutant: the priority pin is ignored. *)
selAlwaysFair(avail) == fairSel(avail, rr)

sel(avail) == IF cpu_priority /\ CPU \in avail THEN CPU ELSE fairSel(avail, rr)

(* The port that sees the response and whose ready the stack sees. *)
respPort == IF src_cpu THEN CPU ELSE IF src_gpu THEN GPU ELSE ACC

----------------------------------------------------------------------------
SplitInit ==
  /\ HBMInit
  /\ rr = 0
  /\ src_cpu = TRUE /\ src_gpu = FALSE
  /\ mode \in Mode

(* Mutants: the pointer is not advanced; the tag follows the request lines *)
(* instead of the grant.                                                   *)
GrantKeepsPointer(avail, bits) ==
  /\ avail # {}
  /\ Accept(bits[sel(avail)])
  /\ src_cpu' = (sel(avail) = CPU) /\ src_gpu' = (sel(avail) = GPU)
  /\ UNCHANGED <<rr, mode>>

GrantTagsRequester(avail, bits) ==
  /\ avail # {}
  /\ Accept(bits[sel(avail)])
  /\ src_cpu' = (CPU \in avail) /\ src_gpu' = (GPU \in avail)
  /\ rr' = sel(avail)
  /\ UNCHANGED mode

(* hbm.io.req.fire: the selected port's request enters the stack. *)
Grant(avail, bits) ==
  /\ avail # {}
  /\ Accept(bits[sel(avail)])
  /\ src_cpu' = (sel(avail) = CPU)
  /\ src_gpu' = (sel(avail) = GPU)
  /\ rr' = sel(avail)
  /\ UNCHANGED mode

(* The stack could take a request and no port has one. *)
NoRequest(avail) ==
  /\ avail = {}
  /\ IdleCycle
  /\ UNCHANGED <<rr, src_cpu, src_gpu, mode>>

(* The column command, its response offered to the tagged port. *)
Respond(ready) ==
  /\ Command(open_page, respPort \in ready)
  /\ UNCHANGED <<rr, src_cpu, src_gpu, mode>>

(* The stack is precharging, activating or refreshing. *)
Busy ==
  /\ Internal
  /\ UNCHANGED <<rr, src_cpu, src_gpu, mode>>

Step(avail, bits, ready) ==
  \/ Grant(avail, bits)
  \/ NoRequest(avail)
  \/ Respond(ready)
  \/ Busy
=============================================================================
