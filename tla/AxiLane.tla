------------------------------ MODULE AxiLane -------------------------------
(***************************************************************************)
(* The two lanes of Top that reach the memory through AXIToMemReq.  On the *)
(* GPU port its AXI4 master is GPUL2Cache, with the clusters behind it; on *)
(* the accelerator port, as VortexAccelerator wires it, the Vortex RTL,    *)
(* which presents any of its address writes, data beats and address reads  *)
(* in any cycle.  Clusters and Vortex take a response when they like.  One *)
(* lane is modelled at a time: lane is its port, and the other two ports   *)
(* present any request of OtherReqs[lane].                                 *)
(***************************************************************************)
EXTENDS SplitPrioritizer

CONSTANTS
  LaneModes,              \* [{GPU, ACC} -> sets of QoS modes]
  OtherReqs,              \* [{GPU, ACC} -> line requests of the other ports]
  Id,                     \* transaction ids of Vortex
  WriteAddr, ReadAddr,    \* addresses of Vortex
  Beats,                  \* [data, strb] beats of Vortex
  nClusters,              \* two in Top
  ClusterReqs,            \* [Cluster -> MemReq]: what the clusters present
  PowerUp                 \* initial contents of the adapter's registers

ASSUME AxiLaneAssumption ==
  /\ nClusters \in Nat \ {0}
  /\ LaneModes \in [{GPU, ACC} -> SUBSET Mode]
  /\ OtherReqs \in [{GPU, ACC} -> SUBSET MemReq]
  /\ ClusterReqs \subseteq [0 .. nClusters - 1 -> MemReq]
  /\ WriteAddr \subseteq Addr /\ ReadAddr \subseteq Addr
  /\ Beats \subseteq [data : Line, strb : SUBSET (0 .. LineBytes - 1)]
  /\ \A a \in Line : a = [b \in 0 .. LineBytes - 1 |-> a[b]]     \* made of bytes
  /\ \A a, c \in Line, S \in SUBSET (0 .. LineBytes - 1) :
       [b \in 0 .. LineBytes - 1 |-> IF b \in S THEN a[b] ELSE c[b]] \in Line

VARIABLES
  lane,                   \* the port the adapter is on: GPU or ACC
  xState, addr, wdata, wmask, rdata, awid, arid,    \* gpuAdp, or vx.adp
  lState, last, sel_r, addr_r, wdata_r, rdata_r,    \* l2
  awAsked,                \* history: the address write accepted last
  asked,                  \* history: the AXI transaction not yet answered
  clusterAsked            \* history: the cluster request not yet answered

Axi == INSTANCE AXIToMemReq WITH state <- xState
L2  == INSTANCE GPUL2Cache WITH state <- lState, Strb <- Axi!allOnes

laneVars == <<splitVars, lane, Axi!axiVars, L2!l2Vars, awAsked, asked, clusterAsked>>

LaneInit ==
  /\ SplitInit /\ lane \in {GPU, ACC} /\ mode \in LaneModes[lane]
  /\ Axi!Init /\ L2!Init
  /\ awAsked = {} /\ asked = {} /\ clusterAsked = {}

----------------------------------------------------------------------------
(* The adapter on its port of the fabric. *)
laneAvail == IF Axi!memReqValid THEN {lane} ELSE {}
Bits(other) == [p \in Port |-> IF p = lane THEN Axi!memReq ELSE other]
laneResp == IF respPort = lane THEN {respBits} ELSE {}
respReady == Port \ (IF Axi!memRespReady THEN {} ELSE {lane})

MemCycle(aw, w, ar, bready, rready) ==
  \/ \E S \in SUBSET (Port \ {lane}), other \in OtherReqs[lane] :
       LET avail == laneAvail \cup S
       IN  /\ Grant(avail, Bits(other))
           /\ Axi!Cycle(aw, w, ar, bready, rready, sel(avail) = lane, {})
  \/ /\ NoRequest(laneAvail) \/ Busy
     /\ Axi!Cycle(aw, w, ar, bready, rready, FALSE, {})
  \/ /\ Respond(respReady)
     /\ Axi!Cycle(aw, w, ar, bready, rready, FALSE, laneResp)

(* What the handshakes of the cycle tell the AXI master it has asked for:  *)
(* a store once its beat is taken, a load once its address is.             *)
Asks(aw, w, ar, bready, rready) ==
  /\ awAsked' = IF Axi!AWREADY(aw # {}) THEN aw ELSE awAsked
  /\ asked' =
       CASE Axi!ARREADY(aw # {}, ar # {}) ->
              {[id |-> x.id, line |-> lineOf(x.addr) % Capacity,
                data |-> ZeroLine, strb |-> {}, isWrite |-> FALSE] : x \in ar}
         [] Axi!WREADY ->
              {[id |-> x.id, line |-> lineOf(x.addr) % Capacity,
                data |-> y.data, strb |-> y.strb, isWrite |-> TRUE] :
                 x \in awAsked, y \in w}
         [] (Axi!BVALID /\ bready) \/ (Axi!RVALID /\ rready) -> {}
         [] OTHER -> asked

AdpCycle(aw, w, ar, bready, rready) ==
  /\ MemCycle(aw, w, ar, bready, rready)
  /\ Asks(aw, w, ar, bready, rready)

(* Vortex as the master.  Nothing, or one element of S, on a channel; one  *)
(* the adapter does not look at is not enumerated.                         *)
Maybe(S) == {{}} \cup {{x} : x \in S}

VortexCycle ==
  /\ lane = ACC
  /\ \E aw \in Maybe(IF xState = "s_idle" THEN [addr : WriteAddr, id : Id] ELSE {}),
        ar \in Maybe(IF xState = "s_idle" THEN [addr : ReadAddr, id : Id] ELSE {}),
        w \in Maybe(IF Axi!WREADY THEN Beats ELSE {}),
        bready \in IF Axi!BVALID THEN BOOLEAN ELSE {FALSE},
        rready \in IF Axi!RVALID THEN BOOLEAN ELSE {FALSE} :
          AdpCycle(aw, w, ar, bready, rready)
  /\ UNCHANGED <<lane, lState, last, sel_r, addr_r, wdata_r, rdata_r, clusterAsked>>

(* l2 as the master: its wires to gpuAdp, and the clusters on the other    *)
(* side; a channel l2 does not look at is not enumerated.                  *)
L2Cycle(valid, bits, takers) ==
  LET awvalid == L2!AW # {}
      arvalid == L2!AR # {}
  IN  L2!Cycle(valid, bits, Axi!AWREADY(awvalid), Axi!WREADY, Axi!BVALID,
               Axi!ARREADY(awvalid, arvalid),
               IF Axi!RVALID THEN {Axi!RDATA} ELSE {}, takers)

(* The cluster that is offered a response. *)
Answered == {c \in L2!Cluster : L2!clusterRespValid(c)}

(* The request of the cluster whose ready is high, if it presents one. *)
Captured(valid, bits) ==
  {[cluster |-> c, line |-> lineOf(bits[c].addr) % Capacity,
    data |-> bits[c].data, isWrite |-> bits[c].isWrite] :
     c \in {i \in valid : L2!clusterReqReady(i, valid)}}

ClusterCycle ==
  /\ lane = GPU
  /\ AdpCycle(L2!AW, L2!W, L2!AR, L2!BREADY, L2!RREADY)
  /\ \E valid \in IF lState = "s_idle" THEN SUBSET L2!Cluster ELSE {{}},
        bits \in IF lState = "s_idle" THEN ClusterReqs
                ELSE {CHOOSE b \in ClusterReqs : TRUE},
        takers \in IF Answered # {} THEN SUBSET L2!Cluster ELSE {{}} :
          /\ L2Cycle(valid, bits, takers)
          /\ clusterAsked' =
               CASE lState = "s_idle" -> Captured(valid, bits)
                 [] Answered \cap takers # {} -> {}
                 [] OTHER -> clusterAsked
  /\ UNCHANGED lane

LaneNext == VortexCycle \/ ClusterCycle

LaneSpec == LaneInit /\ [][LaneNext]_laneVars
----------------------------------------------------------------------------
(* The write in service for a port of S, if any. *)
ServedFor(S) ==
  IF respValid /\ rW /\ respPort \in S
  THEN {[line |-> lineOf(rAddr) % Capacity, data |-> rData]} ELSE {}

(* The lane as its AXI master sees it. *)
AxiOp == [id : Id \cup {0}, line : LineId, data : Line,
          strb : SUBSET Axi!Offset, isWrite : BOOLEAN]

AxiEffect(line, r) ==
  IF r.isWrite
  THEN [b \in Axi!Offset |-> IF b \in r.strb THEN r.data[b] ELSE line[b]]
  ELSE line
AxiResult(line, r) == [id |-> r.id, data |-> IF r.isWrite THEN ZeroLine ELSE line]

AxiPort == INSTANCE AtomicPort
  WITH Op <- AxiOp, Effect <- AxiEffect, Result <- AxiResult,
       mem <- memView,
       op <- asked,
       got <- IF Axi!BVALID THEN {[id |-> Axi!BID, data |-> ZeroLine]}
              ELSE IF Axi!RVALID THEN {[id |-> Axi!RID, data |-> Axi!RDATA]}
              ELSE {},
       others <- ServedFor(Port \ {lane})

(* No other port writes a line that Vortex stores to in part. *)
PartialStoresPrivate ==
  \A beat \in Beats, a \in WriteAddr, r \in OtherReqs[ACC] :
    beat.strb # Axi!allOnes /\ r.isWrite
      => lineOf(r.addr) % Capacity # lineOf(a) % Capacity

(* Each transaction of an AXI master is atomic: a store changes exactly    *)
(* the bytes WSTRB marks, is in memory before BVALID rises, a load returns *)
(* the line, and the response carries the id of its own transaction.  For  *)
(* the full-line stores of GPUL2Cache that is whatever the other ports     *)
(* write, in every mode; for the partial stores of Vortex, while no other  *)
(* port writes the lines it stores to.                                     *)
AxiLaneAtomic == AxiPort!Spec

(* The GPU lane as the clusters see it. *)
ClusterOp == [cluster : L2!Cluster, line : LineId, data : Line, isWrite : BOOLEAN]

ClusterEffect(line, r) == IF r.isWrite THEN r.data ELSE line
ClusterResult(line, r) == [cluster |-> r.cluster,
                           data |-> IF r.isWrite THEN ZeroLine ELSE line]

Writing == lState \in {"s_aw", "s_wd", "s_bwait", "s_wack"}

ClusterPort == INSTANCE AtomicPort
  WITH Op <- ClusterOp, Effect <- ClusterEffect, Result <- ClusterResult,
       mem <- memView,
       op <- clusterAsked,
       got <- CASE lane = ACC -> {}
                [] lane = GPU /\ Axi!BVALID -> {[cluster |-> sel_r, data |-> ZeroLine]}
                [] lane = GPU /\ Axi!RVALID -> {[cluster |-> sel_r, data |-> Axi!RDATA]}
                [] OTHER ->
                   {[cluster |-> c,
                     data |-> IF Writing THEN ZeroLine ELSE L2!clusterRespBits] :
                      c \in Answered},
       others <- ServedFor(Port \ ({lane} \cap {GPU}))

(* In every mode and whatever the other ports write, a cluster's load and  *)
(* store are atomic through the two FSMs and the AXI channels between      *)
(* them: the load returns the line as it is at one instant, the store is   *)
(* in memory before its acknowledgement, and the answer goes to the        *)
(* cluster that asked.                                                     *)
GpuLaneAtomic == ClusterPort!Spec
=============================================================================
