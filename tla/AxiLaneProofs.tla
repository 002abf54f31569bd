--------------------------- MODULE AxiLaneProofs ----------------------------
(***************************************************************************)
(* The AXI lanes are atomic for every geometry, timing and mode, any       *)
(* number of clusters, and whatever Vortex, the clusters and the other     *)
(* ports present.                                                          *)
(***************************************************************************)
EXTENDS AxiLane, MemoryProofs

InService == state \in {"s_prech", "s_act", "s_cmd"}
Offset    == 0 .. LineBytes - 1
LineAt(a) == lineOf(a) % Capacity

(* The states of the adapter. *)
Storing == {"s_wrmw", "s_wldrsp", "s_wreq", "s_wwrsp", "s_wrespo"}
Loading == {"s_areq", "s_aresp", "s_rvalid"}
xStates == {"s_idle", "s_wwait"} \cup Storing \cup Loading

Merged(a, c, S) == [b \in Offset |-> IF b \in S THEN a[b] ELSE c[b]]
StoreData == IF wmask = Offset THEN wdata ELSE Axi!mergedW

(* The adapter waits exactly while the stack serves its port, and the      *)
(* captured registers are then its request.                                *)
Handshake ==
  /\ HBMTypeOK /\ rr \in Port /\ lane \in {GPU, ACC}
  /\ xState \in xStates
  /\ Axi!memRespReady <=> InService /\ respPort = lane
  /\ Axi!memRespReady =>
       /\ rAddr = addr /\ rW = (xState = "s_wwrsp")
       /\ xState = "s_wwrsp" => rData = StoreData
  /\ InService /\ respPort # lane =>
       \E r \in OtherReqs[lane] : rAddr = r.addr /\ rData = r.data /\ rW = r.isWrite

(* A store and a load as AXI transactions. *)
StoreOp(x, a, d, m) ==
  [id |-> x, line |-> LineAt(a), data |-> d, strb |-> m, isWrite |-> TRUE]
LoadOp(x, a) ==
  [id |-> x, line |-> LineAt(a), data |-> ZeroLine, strb |-> {}, isWrite |-> FALSE]

(* The transaction in the adapter's registers is the one asked for. *)
Transaction ==
  CASE xState \in Storing -> {StoreOp(awid, addr, wdata, wmask)}
    [] xState \in Loading -> {LoadOp(arid, addr)}
    [] OTHER -> {}

AdapterInv ==
  /\ asked = Transaction
  /\ xState # "s_idle" => addr \in Addr
  /\ xState = "s_wwait" => awAsked = {[addr |-> addr, id |-> awid]}
  /\ xState \in Storing \cup {"s_wwait"} => awid \in Id \cup {0}
  /\ xState \in Loading => arid \in Id \cup {0}
  /\ xState \in Storing => wdata \in Line /\ wmask \in SUBSET Offset
  /\ xState \in {"s_wreq", "s_wwrsp"} /\ wmask # Offset => rdata \in Line
  /\ lane = ACC /\ xState \in Storing \cup {"s_wwait"} => addr \in WriteAddr
  /\ lane = ACC /\ xState \in Storing => \E beat \in Beats : wmask = beat.strb

(* The line fetched for a partial store is the line in memory. *)
FetchedCurrent ==
  xState \in {"s_wreq", "s_wwrsp"} /\ wmask # Offset => rdata = memView[LineAt(addr)]

(* The two state machines of the GPU lane move together, and the cluster   *)
(* request being served is the one in the registers of both.               *)
ClusterRequest ==
  IF lState = "s_idle" THEN {}
  ELSE {[cluster |-> sel_r, line |-> LineAt(addr_r), data |-> wdata_r,
         isWrite |-> Writing]}

L2Inv ==
  /\ lState \in {"s_idle", "s_aw", "s_wd", "s_bwait", "s_wack", "s_ar", "s_rc", "s_resp"}
  /\ clusterAsked = ClusterRequest
  /\ last \in L2!Cluster /\ sel_r \in L2!Cluster
  /\ lState # "s_idle" => addr_r \in Addr /\ wdata_r \in Line
  /\ lane = ACC => lState = "s_idle"
  /\ lane = GPU =>
       /\ lState = "s_wd" => xState = "s_wwait"
       /\ lState = "s_bwait" => /\ xState \in {"s_wreq", "s_wwrsp", "s_wrespo"}
                                /\ wdata = wdata_r /\ wmask = Offset
       /\ lState = "s_rc" => xState \in Loading
       /\ lState \in {"s_idle", "s_aw", "s_wack", "s_ar", "s_resp"} => xState = "s_idle"
       /\ xState # "s_idle" => addr = addr_r

LaneInv == Handshake /\ AdapterInv /\ L2Inv
PrivateInv == PartialStoresPrivate => FetchedCurrent

----------------------------------------------------------------------------
(* The ways a cycle of the memory looks to the lane: its request is        *)
(* captured, its request is answered, or the adapter is left alone while   *)
(* a write of another port may reach the array.                            *)
LaneGranted == Axi!ReqFire /\ memView' = memView

LaneAnswered ==
  /\ respValid /\ respPort = lane
  /\ \/ /\ Axi!WriteResp
        /\ memView' = [memView EXCEPT ![LineAt(addr)] = StoreData]
     \/ /\ Axi!ReadResp(memView[LineAt(addr)])
        /\ memView' = memView

MemoryOfOthers ==
  \/ memView' = memView
  \/ \E f \in ServedFor(Port \ {lane}) : memView' = [memView EXCEPT ![f.line] = f.data]

LaneAlone(aw, w, ar, bready, rready) ==
  Axi!Cycle(aw, w, ar, bready, rready, FALSE, {}) /\ MemoryOfOthers

(* What a master of the lane may present. *)
Presented(aw, w, ar) ==
  /\ aw \in Maybe([addr : IF lane = ACC THEN WriteAddr ELSE Addr, id : Id \cup {0}])
  /\ ar \in Maybe([addr : Addr, id : Id \cup {0}])
  /\ w \in Maybe(IF lane = ACC THEN Beats ELSE [data : Line, strb : {Offset}])

----------------------------------------------------------------------------
(* The line of an address is a line of the stack. *)
LEMMA LineInRange == ASSUME NEW a \in Addr PROVE LineAt(a) \in LineId
<1>1. lineOf(a) \in Nat
  BY DecodeInRange
<1> QED BY <1>1, DecodeAliases DEF LineAt

(* Lines are closed under the merge of some bytes of one into another,     *)
(* which for all bytes is the first line.                                  *)
LEMMA MergedTyped ==
  ASSUME NEW a \in Line, NEW c \in Line, NEW S \in SUBSET Offset
  PROVE  Merged(a, c, S) \in Line /\ (S = Offset => Merged(a, c, S) = a)
<1>0. \A x, y \in Line : \A T \in SUBSET Offset : Merged(x, y, T) \in Line
  BY AxiLaneAssumption DEF Merged, Offset
<1>1. Merged(a, c, S) \in Line
  BY <1>0
<1>2. a = [b \in Offset |-> a[b]]
  BY AxiLaneAssumption, Zenon DEF Offset
<1>3. S = Offset => Merged(a, c, S) = [b \in Offset |-> a[b]]
  BY DEF Merged
<1> QED BY <1>1, <1>2, <1>3

(* The line a store writes is a line. *)
LEMMA StoreDataTyped ==
  ASSUME AdapterInv, xState \in {"s_wreq", "s_wwrsp"}
  PROVE  StoreData \in Line
<1>1. wdata \in Line /\ wmask \in SUBSET Offset
  BY DEF AdapterInv, Storing
<1>2. CASE wmask = Offset
  BY <1>1, <1>2 DEF StoreData
<1>3. CASE wmask # Offset
  <2>1. rdata \in Line
    BY <1>3 DEF AdapterInv
  <2>2. Axi!mergedW = Merged(wdata, rdata, wmask)
    BY DEF Axi!mergedW, Axi!Offset, Merged, Offset
  <2>3. Axi!mergedW \in Line
    BY <1>1, <2>1, <2>2, MergedTyped
  <2> QED BY <1>3, <2>3 DEF StoreData
<1> QED BY <1>2, <1>3

(* The adapter presents well-formed requests to the fabric. *)
LEMMA RequestTyped ==
  ASSUME AdapterInv, Axi!memReqValid
  PROVE  /\ Axi!memReq \in MemReq
         /\ Axi!memReq.addr = addr
         /\ Axi!memReq.isWrite = (xState = "s_wreq")
         /\ xState = "s_wreq" => Axi!memReq.data = StoreData
<1>1. addr \in Addr
  BY DEF AdapterInv, Axi!memReqValid
<1>2. xState = "s_wreq" => StoreData \in Line
  BY StoreDataTyped
<1>3. Axi!memReq = [addr |-> addr,
                    data |-> IF xState # "s_wreq" THEN ZeroLine ELSE StoreData,
                    isWrite |-> xState = "s_wreq"]
  BY DEF Axi!memReq, StoreData, Axi!allOnes, Axi!Offset, Offset
<1> QED BY <1>1, <1>2, <1>3, HBMAssumption DEF MemReq

(* The cycles of the stack that grant and answer nothing. *)
LEMMA QuietCycle ==
  ASSUME NEW avail, NoRequest(avail) \/ Busy
  PROVE  /\ UNCHANGED <<cells, rAddr, rData, rW, rr, src_cpu, src_gpu, mode>>
         /\ InService' <=> InService
BY DEF NoRequest, Busy, Internal, IdleCycle, reqReady, StartRefresh, Count,
   PrechargeDone, ActivateDone, RefreshDone, InService

(* A cycle that takes neither a request nor a response of the fabric: the  *)
(* adapter waits, or exchanges something with its master.                  *)
LEMMA AdapterAlone ==
  ASSUME NEW aw, NEW w, NEW ar, NEW bready, NEW rready,
         Axi!Cycle(aw, w, ar, bready, rready, FALSE, {})
  PROVE  \/ UNCHANGED Axi!axiVars
         \/ /\ xState = "s_idle" /\ xState' \in {"s_wwait", "s_areq"}
         \/ /\ xState = "s_wwait" /\ xState' \in {"s_wreq", "s_wrmw"}
         \/ /\ xState \in {"s_wrespo", "s_rvalid"} /\ xState' = "s_idle"
BY DEF Axi!Cycle, Axi!TakeAW, Axi!TakeAR, Axi!TakeW, Axi!WREADY, Axi!BTaken,
   Axi!RTaken, Axi!BVALID, Axi!RVALID

(* What the stack is asked to write for the lane depends on registers only.*)
LEMMA StoreDataKept ==
  UNCHANGED <<wdata, wmask, rdata>> => StoreData' = StoreData
BY DEF StoreData, Axi!mergedW

----------------------------------------------------------------------------
(* A cycle of the memory, in which the lane stays on its port, is one of   *)
(* the three and keeps the handshake.                                      *)
MemoryStep(aw, w, ar, bready, rready) ==
  /\ Handshake'
  /\ LaneGranted \/ LaneAnswered \/ LaneAlone(aw, w, ar, bready, rready)

(* A grant: the adapter's request is captured if and only if its port is   *)
(* selected.                                                               *)
LEMMA GrantStep ==
  ASSUME Handshake, AdapterInv, lane' = lane,
         NEW aw, NEW w, NEW ar, NEW bready, NEW rready,
         NEW S \in SUBSET (Port \ {lane}), NEW other \in OtherReqs[lane],
         Grant(laneAvail \cup S, Bits(other)),
         Axi!Cycle(aw, w, ar, bready, rready, sel(laneAvail \cup S) = lane, {})
  PROVE  MemoryStep(aw, w, ar, bready, rready)
<1> DEFINE avail == laneAvail \cup S
<1>0. lane \in Port /\ rr \in Port /\ lane \in {GPU, ACC}
  BY DEF Handshake, Port
<1>1. avail \in SUBSET Port /\ avail # {}
  BY <1>0 DEF Grant, laneAvail
<1>2. PICK g \in Port : g = sel(avail) /\ g \in avail
  BY <1>0, <1>1, Selection
<1>3. /\ Accept(Bits(other)[g])
      /\ src_cpu' = (g = CPU) /\ src_gpu' = (g = GPU) /\ rr' = g
  BY <1>2 DEF Grant
<1>4. /\ rAddr' = Bits(other)[g].addr /\ rData' = Bits(other)[g].data
      /\ rW' = Bits(other)[g].isWrite /\ cells' = cells
      /\ InService' /\ ~ InService
  BY <1>3 DEF Accept, reqReady, InService
<1>5. respPort' = g
  BY <1>2, <1>3 DEF respPort, CPU, GPU, ACC, Port
<1>6. ~ Axi!memRespReady
  BY <1>4 DEF Handshake
<1>7. memView' = memView
  BY <1>4 DEF memView
<1>8. CASE g = lane
  <2>1. Axi!memReqValid
    BY <1>2, <1>8 DEF laneAvail
  <2>2. Axi!ReqFire
    BY <1>2, <1>8, <2>1 DEF Axi!Cycle, Axi!TakeAW, Axi!TakeAR, Axi!TakeW,
       Axi!WREADY, Axi!WriteResp, Axi!ReadResp, Axi!BTaken, Axi!RTaken,
       Axi!BVALID, Axi!RVALID, Axi!memReqValid
  <2>3. Bits(other)[g] = Axi!memReq
    BY <1>8 DEF Bits
  <2>4. HBMTypeOK'
    BY <1>3, <2>1, <2>3, RequestTyped, TypeAccept DEF Handshake
  <2>5. /\ UNCHANGED <<addr, wdata, wmask, rdata>>
        /\ xState' = CASE xState = "s_wreq" -> "s_wwrsp"
                       [] xState = "s_areq" -> "s_aresp"
                       [] xState = "s_wrmw" -> "s_wldrsp"
    BY <2>2 DEF Axi!ReqFire
  <2>6. /\ xState' \in {"s_wwrsp", "s_aresp", "s_wldrsp"}
        /\ xState' = "s_wwrsp" <=> xState = "s_wreq"
    BY <2>1, <2>5 DEF Axi!memReqValid
  <2>7. /\ rAddr' = addr' /\ rW' = (xState' = "s_wwrsp")
        /\ xState' = "s_wwrsp" => rData' = StoreData'
    <3>1. StoreData' = StoreData
      BY <2>5, StoreDataKept
    <3>2. /\ rAddr' = addr /\ rW' = (xState = "s_wreq")
          /\ xState = "s_wreq" => rData' = StoreData
      BY <1>4, <2>1, <2>3, RequestTyped
    <3> QED BY <2>5, <2>6, <3>1, <3>2
  <2>8. Handshake'
    BY <1>3, <1>4, <1>5, <1>8, <1>0, <2>4, <2>6, <2>7
       DEF Handshake, Axi!memRespReady, xStates, Storing, Loading
  <2> QED BY <1>7, <2>2, <2>8 DEF MemoryStep, LaneGranted
<1>9. CASE g # lane
  <2>1. Axi!Cycle(aw, w, ar, bready, rready, FALSE, {})
    BY <1>2, <1>9
  <2>2. Bits(other)[g] = other /\ other \in MemReq
    BY <1>0, <1>9, AxiLaneAssumption DEF Bits
  <2>3. HBMTypeOK'
    BY <1>3, <2>2, TypeAccept DEF Handshake
  <2>4. ~ Axi!memRespReady' /\ xState' \in xStates
    BY <1>6, <2>1, AdapterAlone DEF Axi!memRespReady, Axi!axiVars, Handshake,
       xStates, Storing, Loading
  <2>5. Handshake'
    BY <1>0, <1>3, <1>4, <1>5, <1>9, <2>2, <2>3, <2>4 DEF Handshake
  <2> QED BY <1>7, <2>1, <2>5 DEF MemoryStep, LaneAlone, MemoryOfOthers
<1> QED BY <1>8, <1>9

(* A cycle without grant or response. *)
LEMMA QuietStep ==
  ASSUME Handshake, lane' = lane,
         NEW aw, NEW w, NEW ar, NEW bready, NEW rready,
         NoRequest(laneAvail) \/ Busy,
         Axi!Cycle(aw, w, ar, bready, rready, FALSE, {})
  PROVE  MemoryStep(aw, w, ar, bready, rready)
<1>1. /\ UNCHANGED <<cells, rAddr, rData, rW, rr, src_cpu, src_gpu>>
      /\ InService' <=> InService
  BY QuietCycle
<1>2. HBMTypeOK'
  BY TypeIdle, TypeInternal DEF Handshake, NoRequest, Busy
<1>3. respPort' = respPort /\ memView' = memView
  BY <1>1 DEF respPort, memView
<1>4. Handshake'
  <2>1. CASE UNCHANGED Axi!axiVars
    <3>1. UNCHANGED <<xState, addr, wdata, wmask, rdata>>
      BY <2>1 DEF Axi!axiVars
    <3>2. StoreData' = StoreData
      BY <3>1, StoreDataKept
    <3> QED BY <1>1, <1>2, <1>3, <3>1, <3>2 DEF Handshake, Axi!memRespReady
  <2>2. CASE ~ UNCHANGED Axi!axiVars
    <3>1. ~ Axi!memRespReady /\ ~ Axi!memRespReady' /\ xState' \in xStates
      BY <2>2, AdapterAlone DEF Axi!memRespReady, xStates, Storing, Loading
    <3> QED BY <1>1, <1>2, <1>3, <3>1 DEF Handshake
  <2> QED BY <2>1, <2>2
<1> QED BY <1>3, <1>4 DEF MemoryStep, LaneAlone, MemoryOfOthers

(* A response: the adapter takes its own in the cycle it is offered, with  *)
(* the line as it is in memory, and sees none of the others.               *)
LEMMA ResponseStep ==
  ASSUME Handshake, lane' = lane,
         NEW aw, NEW w, NEW ar, NEW bready, NEW rready,
         Respond(respReady),
         Axi!Cycle(aw, w, ar, bready, rready, FALSE, laneResp)
  PROVE  MemoryStep(aw, w, ar, bready, rready)
<1>1. /\ Command(open_page, respPort \in respReady) /\ InService /\ respValid
      /\ UNCHANGED <<rAddr, rData, rW, rr, src_cpu, src_gpu>>
      /\ state' = IF respPort \in respReady THEN "s_idle" ELSE "s_cmd"
  BY DEF Respond, Command, respValid, InService
<1>2. HBMTypeOK'
  <2>1. open_page \in BOOLEAN /\ (respPort \in respReady) \in BOOLEAN
    BY DEF open_page
  <2> QED BY <1>1, <2>1, TypeCommand DEF Handshake
<1>3. /\ LineAt(rAddr) \in LineId
      /\ memView' = IF rW THEN [memView EXCEPT ![LineAt(rAddr)] = rData] ELSE memView
      /\ respBits = IF rW THEN ZeroLine ELSE memView[LineAt(rAddr)]
  BY <1>1, CommandOnView DEF Handshake, LineAt
<1>4. respPort' = respPort /\ respPort \in Port
  BY <1>1 DEF respPort, Port
<1>5. CASE respPort = lane
  <2>1. Axi!memRespReady /\ laneResp = {respBits}
    BY <1>1, <1>5 DEF Handshake, laneResp
  <2>2. ~ InService'
    BY <1>1, <1>4, <2>1 DEF respReady, InService
  <2>3. rAddr = addr /\ rW = (xState = "s_wwrsp")
        /\ (xState = "s_wwrsp" => rData = StoreData)
    BY <2>1 DEF Handshake
  <2>4. CASE xState = "s_wwrsp"
    <3>1. Axi!WriteResp
      BY <2>1, <2>4 DEF Axi!Cycle, Axi!TakeAW, Axi!TakeAR, Axi!TakeW,
         Axi!WREADY, Axi!ReadResp, Axi!BTaken, Axi!RTaken, Axi!BVALID,
         Axi!RVALID, Axi!memRespReady
    <3>2. memView' = [memView EXCEPT ![LineAt(addr)] = StoreData]
      BY <1>3, <2>3, <2>4
    <3>3. xState' = "s_wrespo"
      BY <3>1 DEF Axi!WriteResp
    <3>4. Handshake'
      BY <1>1, <1>2, <2>2, <3>3 DEF Handshake, Axi!memRespReady, xStates, Storing
    <3> QED BY <1>1, <1>5, <3>1, <3>2, <3>4 DEF MemoryStep, LaneAnswered
  <2>5. CASE xState \in {"s_aresp", "s_wldrsp"}
    <3>1. Axi!ReadResp(respBits)
      BY <2>1, <2>5 DEF Axi!Cycle, Axi!TakeAW, Axi!TakeAR, Axi!TakeW,
         Axi!WREADY, Axi!WriteResp, Axi!BTaken, Axi!RTaken, Axi!BVALID,
         Axi!RVALID, Axi!memRespReady
    <3>2. memView' = memView /\ respBits = memView[LineAt(addr)]
      BY <1>3, <2>3, <2>5
    <3>3. xState' \in {"s_rvalid", "s_wreq"}
      BY <3>1 DEF Axi!ReadResp
    <3>4. Handshake'
      BY <1>1, <1>2, <2>2, <3>3
         DEF Handshake, Axi!memRespReady, xStates, Storing, Loading
    <3> QED BY <1>1, <1>5, <3>1, <3>2, <3>4 DEF MemoryStep, LaneAnswered
  <2> QED BY <2>1, <2>4, <2>5 DEF Axi!memRespReady
<1>6. CASE respPort # lane
  <2>1. ~ Axi!memRespReady /\ laneResp = {}
    BY <1>6 DEF Handshake, laneResp
  <2>2. ~ Axi!memRespReady' /\ xState' \in xStates
    BY <2>1, AdapterAlone DEF Axi!memRespReady, Axi!axiVars, Handshake,
       xStates, Storing, Loading
  <2>3. Handshake'
    BY <1>1, <1>2, <1>4, <1>6, <2>2 DEF Handshake
  <2>4. MemoryOfOthers
    <3>1. CASE rW
      <4>1. [line |-> LineAt(rAddr), data |-> rData] \in ServedFor(Port \ {lane})
        BY <1>1, <1>4, <1>6, <3>1 DEF ServedFor, LineAt
      <4> QED BY <1>3, <3>1, <4>1 DEF MemoryOfOthers
    <3> QED BY <1>3, <3>1 DEF MemoryOfOthers
  <2> QED BY <2>1, <2>3, <2>4 DEF MemoryStep, LaneAlone
<1> QED BY <1>5, <1>6

(* The three together. *)
LEMMA MemCycleStep ==
  ASSUME Handshake, AdapterInv, lane' = lane,
         NEW aw, NEW w, NEW ar, NEW bready, NEW rready,
         MemCycle(aw, w, ar, bready, rready)
  PROVE  MemoryStep(aw, w, ar, bready, rready)
BY GrantStep, QuietStep, ResponseStep DEF MemCycle

----------------------------------------------------------------------------
(* What the adapter does with its master in a cycle, and what that makes   *)
(* of the transaction asked for.                                           *)
Idles(aw, w, ar, bready, rready) ==
  /\ xState = "s_idle" => aw = {} /\ ar = {}
  /\ xState = "s_wwait" => w = {} /\ awAsked' = awAsked
  /\ xState = "s_wrespo" => ~ bready
  /\ xState = "s_rvalid" => ~ rready
  /\ UNCHANGED <<Axi!axiVars, asked>>
TakesAW(aw) ==
  \E x \in aw : Axi!TakeAW(x) /\ awAsked' = {x} /\ asked' = asked
TakesAR(ar) ==
  \E x \in ar : Axi!TakeAR(x) /\ asked' = {LoadOp(x.id, x.addr)}
TakesW(w) ==
  \E y \in w : Axi!TakeW(y) /\ asked' = {StoreOp(awid, addr, y.data, y.strb)}
Replies == (Axi!BTaken \/ Axi!RTaken) /\ asked' = {}

(* While the memory leaves it alone, the adapter does one of these. *)
LEMMA AloneEvents ==
  ASSUME Handshake, AdapterInv, NEW aw, NEW w, NEW ar, NEW bready, NEW rready,
         Presented(aw, w, ar),
         Axi!Cycle(aw, w, ar, bready, rready, FALSE, {}),
         Asks(aw, w, ar, bready, rready)
  PROVE  \/ Idles(aw, w, ar, bready, rready) \/ TakesAW(aw) \/ TakesAR(ar)
         \/ TakesW(w) \/ Replies
<1> USE DEF Asks, Axi!AWREADY, Axi!ARREADY, Axi!WREADY, Axi!BVALID, Axi!RVALID
<1>1. ASSUME NEW x \in aw, Axi!TakeAW(x) PROVE TakesAW(aw)
  <2>1. aw = {x}
    BY <1>1 DEF Presented, Maybe
  <2>2. awAsked' = aw /\ asked' = asked
    BY <1>1, <2>1 DEF Axi!TakeAW
  <2> QED BY <1>1, <2>1, <2>2 DEF TakesAW
<1>2. ASSUME aw = {}, NEW x \in ar, Axi!TakeAR(x) PROVE TakesAR(ar)
  <2>1. ar = {x}
    BY <1>2 DEF Presented, Maybe
  <2>2. asked' = {[id |-> z.id, line |-> lineOf(z.addr) % Capacity,
                   data |-> ZeroLine, strb |-> {}, isWrite |-> FALSE] : z \in ar}
    BY <1>2, <2>1 DEF Axi!TakeAR
  <2>3. asked' = {LoadOp(x.id, x.addr)}
    BY <2>1, <2>2 DEF LoadOp, LineAt
  <2> QED BY <1>2, <2>3 DEF TakesAR
<1>3. ASSUME NEW y \in w, Axi!TakeW(y) PROVE TakesW(w)
  <2>1. w = {y} /\ xState = "s_wwait"
    BY <1>3 DEF Presented, Maybe, Axi!TakeW
  <2>2. awAsked = {[addr |-> addr, id |-> awid]}
    BY <2>1 DEF AdapterInv
  <2>3. asked' = {[id |-> x.id, line |-> lineOf(x.addr) % Capacity,
                   data |-> z.data, strb |-> z.strb, isWrite |-> TRUE] :
                     x \in awAsked, z \in w}
    BY <2>1
  <2>4. asked' = {StoreOp(awid, addr, y.data, y.strb)}
    BY <2>1, <2>2, <2>3 DEF StoreOp, LineAt
  <2> QED BY <1>3, <2>4 DEF TakesW
<1>4. CASE (bready /\ Axi!BTaken) \/ (rready /\ Axi!RTaken)
  BY <1>4 DEF Axi!BTaken, Axi!RTaken, Replies
<1>5. ASSUME xState = "s_idle" => aw = {} /\ ar = {},
             xState = "s_wwait" => w = {},
             Axi!BVALID => ~ bready, Axi!RVALID => ~ rready, UNCHANGED Axi!axiVars
      PROVE  Idles(aw, w, ar, bready, rready)
  <2>1. xState = "s_wwait" => asked' = {} /\ awAsked' = awAsked
    BY <1>5
  <2>2. xState = "s_wwait" => asked = {}
    BY DEF AdapterInv, Transaction, Storing, Loading
  <2>3. xState # "s_wwait" => asked' = asked
    BY <1>5
  <2> QED BY <1>5, <2>1, <2>2, <2>3 DEF Idles
<1> QED BY <1>1, <1>2, <1>3, <1>4, <1>5 DEF Axi!Cycle, Axi!WriteResp, Axi!ReadResp

(* A cycle of the adapter: the memory takes or answers its request, or the *)
(* adapter is alone with its master.                                       *)
AdapterEvent(aw, w, ar, bready, rready) ==
  \/ LaneGranted /\ asked' = asked
  \/ LaneAnswered /\ asked' = asked
  \/ /\ MemoryOfOthers
     /\ Idles(aw, w, ar, bready, rready) \/ TakesAW(aw) \/ TakesAR(ar)
          \/ TakesW(w) \/ Replies

(* Every cycle of the adapter is one of these events. *)
LEMMA AdapterEvents ==
  ASSUME Handshake, AdapterInv, lane' = lane,
         NEW aw, NEW w, NEW ar, NEW bready, NEW rready,
         Presented(aw, w, ar), AdpCycle(aw, w, ar, bready, rready)
  PROVE  Handshake' /\ AdapterEvent(aw, w, ar, bready, rready)
<1>1. MemoryStep(aw, w, ar, bready, rready) /\ Asks(aw, w, ar, bready, rready)
  BY MemCycleStep DEF AdpCycle
<1>2. CASE LaneGranted \/ LaneAnswered
  <2>1. xState \in {"s_wreq", "s_areq", "s_wrmw", "s_wwrsp", "s_aresp", "s_wldrsp"}
    BY <1>2 DEF LaneGranted, LaneAnswered, Axi!ReqFire, Axi!memReqValid,
       Axi!WriteResp, Axi!ReadResp
  <2>2. asked' = asked
    BY <1>1, <2>1 DEF Asks, Axi!ARREADY, Axi!WREADY, Axi!BVALID, Axi!RVALID
  <2> QED BY <1>1, <1>2, <2>2 DEF AdapterEvent, MemoryStep
<1>3. CASE LaneAlone(aw, w, ar, bready, rready)
  BY <1>1, <1>3, AloneEvents DEF AdapterEvent, MemoryStep, LaneAlone
<1> QED BY <1>1, <1>2, <1>3 DEF MemoryStep

(* The array seen by line number holds lines. *)
LEMMA ViewTyped == HBMTypeOK => memView \in [LineId -> Line]
<1>1. \A l \in LineId : cellOf(l) \in Cell
  BY CellInRange, DecodeAliases DEF LineId
<1> QED BY <1>1 DEF memView, HBMTypeOK

(* The registers of the adapter keep the transaction asked for. *)
LEMMA AdapterStep ==
  ASSUME Handshake, AdapterInv, lane' = lane,
         NEW aw, NEW w, NEW ar, NEW bready, NEW rready,
         Presented(aw, w, ar), AdapterEvent(aw, w, ar, bready, rready)
  PROVE  AdapterInv'
<1> USE DEF AdapterInv, Transaction, Storing, Loading
<1>1. CASE LaneGranted /\ asked' = asked
  <2>1. /\ UNCHANGED <<addr, wdata, wmask, rdata, awid, arid, asked>>
        /\ \/ xState = "s_wreq" /\ xState' = "s_wwrsp"
           \/ xState = "s_areq" /\ xState' = "s_aresp"
           \/ xState = "s_wrmw" /\ xState' = "s_wldrsp"
    BY <1>1 DEF LaneGranted, Axi!ReqFire, Axi!memReqValid
  <2> QED BY <2>1
<1>2. CASE LaneAnswered /\ asked' = asked
  <2>1. memView \in [LineId -> Line]
    BY ViewTyped DEF Handshake
  <2>2. /\ UNCHANGED <<addr, wdata, wmask, awid, arid, asked>>
        /\ \/ xState = "s_wwrsp" /\ xState' = "s_wrespo"
           \/ xState = "s_aresp" /\ xState' = "s_rvalid"
           \/ xState = "s_wldrsp" /\ xState' = "s_wreq" /\ rdata' = memView[LineAt(addr)]
    BY <1>2 DEF LaneAnswered, Axi!WriteResp, Axi!ReadResp
  <2>3. xState = "s_wldrsp" => LineAt(addr) \in LineId
    BY LineInRange
  <2> QED BY <2>1, <2>2, <2>3
<1>3. CASE Idles(aw, w, ar, bready, rready)
  BY <1>3 DEF Idles, Axi!axiVars
<1>4. CASE TakesAW(aw)
  <2>1. PICK x \in aw : Axi!TakeAW(x) /\ awAsked' = {x} /\ asked' = asked
    BY <1>4 DEF TakesAW
  <2>2. x \in [addr : IF lane = ACC THEN WriteAddr ELSE Addr, id : Id \cup {0}]
    BY <2>1 DEF Presented, Maybe
  <2>3. /\ x = [addr |-> x.addr, id |-> x.id] /\ x.id \in Id \cup {0}
        /\ x.addr \in Addr /\ (lane = ACC => x.addr \in WriteAddr)
    BY <2>2, AxiLaneAssumption
  <2>4. xState = "s_idle" /\ xState' = "s_wwait" /\ addr' = x.addr /\ awid' = x.id
    BY <2>1 DEF Axi!TakeAW
  <2> QED BY <2>1, <2>3, <2>4
<1>5. CASE TakesAR(ar)
  <2>1. PICK x \in ar : Axi!TakeAR(x) /\ asked' = {LoadOp(x.id, x.addr)}
    BY <1>5 DEF TakesAR
  <2>2. x \in [addr : Addr, id : Id \cup {0}]
    BY <2>1 DEF Presented, Maybe
  <2>3. xState' = "s_areq" /\ addr' = x.addr /\ arid' = x.id
    BY <2>1 DEF Axi!TakeAR
  <2> QED BY <2>1, <2>2, <2>3 DEF LoadOp, LineAt
<1>6. CASE TakesW(w)
  <2>1. PICK y \in w : /\ Axi!TakeW(y)
                       /\ asked' = {StoreOp(awid, addr, y.data, y.strb)}
    BY <1>6 DEF TakesW
  <2>2. y \in (IF lane = ACC THEN Beats ELSE [data : Line, strb : {Offset}])
    BY <2>1 DEF Presented, Maybe
  <2>3. /\ y.data \in Line /\ y.strb \in SUBSET Offset
        /\ lane = ACC => \E beat \in Beats : y.strb = beat.strb
    BY <2>2, AxiLaneAssumption DEF Offset
  <2>4. /\ wdata' = y.data /\ wmask' = y.strb
        /\ xState' = IF y.strb = Offset THEN "s_wreq" ELSE "s_wrmw"
        /\ xState = "s_wwait" /\ UNCHANGED <<addr, rdata, awid, arid>>
    BY <2>1 DEF Axi!TakeW, Axi!WREADY, Axi!allOnes, Axi!Offset, Offset
  <2> QED BY <2>1, <2>3, <2>4 DEF StoreOp, LineAt
<1>7. CASE Replies
  BY <1>7 DEF Replies, Axi!BTaken, Axi!RTaken
<1> QED BY <1>1, <1>2, <1>3, <1>4, <1>5, <1>6, <1>7 DEF AdapterEvent

----------------------------------------------------------------------------
(* The L2 stores whole lines, for which nothing is fetched. *)
LEMMA FullStores == L2Inv /\ lane = GPU => FetchedCurrent
BY DEF L2Inv, FetchedCurrent, Loading

(* A partial store of Vortex fetches the line as it is in memory, and only *)
(* its own write changes that line before the store is done.               *)
LEMMA FetchedStep ==
  ASSUME PartialStoresPrivate, Handshake, AdapterInv, FetchedCurrent,
         lane = ACC, lane' = lane, NEW aw, NEW w, NEW ar, NEW bready, NEW rready,
         AdapterEvent(aw, w, ar, bready, rready)
  PROVE  FetchedCurrent'
<1> USE DEF FetchedCurrent
<1>1. CASE LaneGranted
  BY <1>1 DEF LaneGranted, Axi!ReqFire, Axi!memReqValid, LineAt
<1>2. CASE LaneAnswered
  BY <1>2 DEF LaneAnswered, Axi!WriteResp, Axi!ReadResp, LineAt
<1>3. CASE MemoryOfOthers /\ Idles(aw, w, ar, bready, rready)
  <2>1. UNCHANGED <<xState, addr, wmask, rdata>>
    BY <1>3 DEF Idles, Axi!axiVars
  <2>2. SUFFICES ASSUME xState \in {"s_wreq", "s_wwrsp"}, wmask # Offset
                 PROVE  memView'[LineAt(addr)] = memView[LineAt(addr)]
    BY <2>1 DEF LineAt
  <2>3. ASSUME NEW f \in ServedFor(Port \ {lane}) PROVE f.line # LineAt(addr)
    <3>1. /\ f = [line |-> LineAt(rAddr), data |-> rData]
          /\ respValid /\ rW /\ respPort # lane
      BY <2>3 DEF ServedFor, LineAt
    <3>2. PICK r \in OtherReqs[ACC] : rAddr = r.addr /\ r.isWrite
      BY <3>1 DEF Handshake, InService, respValid
    <3>3. addr \in WriteAddr /\ \E beat \in Beats : beat.strb # Axi!allOnes
      BY <2>2 DEF AdapterInv, Storing, Axi!allOnes, Axi!Offset, Offset
    <3> QED BY <3>1, <3>2, <3>3 DEF PartialStoresPrivate, LineAt
  <2>4. memView = [l \in LineId |-> memView[l]]
    BY DEF memView
  <2>5. LineAt(addr) \in LineId
    BY <2>2, LineInRange DEF AdapterInv
  <2>6. ASSUME NEW f \in ServedFor(Port \ {lane}),
               memView' = [memView EXCEPT ![f.line] = f.data]
        PROVE  memView'[LineAt(addr)] = memView[LineAt(addr)]
    BY <2>3, <2>4, <2>5, <2>6
  <2> QED BY <1>3, <2>6 DEF MemoryOfOthers
<1>4. CASE TakesAW(aw) \/ TakesAR(ar) \/ Replies
  BY <1>4 DEF TakesAW, TakesAR, Replies, Axi!TakeAW, Axi!TakeAR, Axi!BTaken,
     Axi!RTaken
<1>5. CASE TakesW(w)
  BY <1>5 DEF TakesW, Axi!TakeW, Axi!allOnes, Axi!Offset, Offset
<1> QED BY <1>1, <1>2, <1>3, <1>4, <1>5 DEF AdapterEvent

(* The write a port has in service is a write of a line. *)
LEMMA ServedTyped ==
  HBMTypeOK => ServedFor(Port) \in SUBSET [line : LineId, data : Line]
<1> SUFFICES ASSUME HBMTypeOK
             PROVE  ServedFor(Port) \in SUBSET [line : LineId, data : Line]
  OBVIOUS
<1>1. LineAt(rAddr) \in LineId /\ rData \in Line
  BY LineInRange DEF HBMTypeOK
<1> QED BY <1>1 DEF ServedFor, LineAt

(* What an AXI transaction does, to the bytes WSTRB marks. *)
LEMMA StoreEffect ==
  ASSUME Handshake, AdapterInv, FetchedCurrent, xState = "s_wwrsp"
  PROVE  StoreData = AxiEffect(memView[LineAt(addr)], StoreOp(awid, addr, wdata, wmask))
<1>1. wdata \in Line /\ wmask \in SUBSET Offset /\ addr \in Addr
  BY DEF AdapterInv, Storing
<1>2. memView[LineAt(addr)] \in Line
  BY <1>1, LineInRange, ViewTyped DEF Handshake
<1>3. AxiEffect(memView[LineAt(addr)], StoreOp(awid, addr, wdata, wmask))
        = Merged(wdata, memView[LineAt(addr)], wmask)
  BY DEF AxiEffect, StoreOp, Merged, Axi!Offset, Offset
<1>4. CASE wmask = Offset
  BY <1>1, <1>2, <1>3, <1>4, MergedTyped DEF StoreData
<1>5. CASE wmask # Offset
  <2>1. rdata = memView[LineAt(addr)]
    BY <1>5 DEF FetchedCurrent
  <2> QED BY <1>3, <1>5, <2>1 DEF StoreData, Axi!mergedW, Merged, Axi!Offset, Offset
<1> QED BY <1>4, <1>5

(* Every event of the adapter is a step of the atomic port that its AXI    *)
(* master sees: the store or the load takes effect when the memory answers *)
(* it, and the fetch of a partial store is invisible.                      *)
LEMMA AxiPortStep ==
  ASSUME Handshake, AdapterInv, FetchedCurrent, lane' = lane, HBMTypeOK',
         NEW aw, NEW w, NEW ar, NEW bready, NEW rready,
         Presented(aw, w, ar), AdapterEvent(aw, w, ar, bready, rready)
  PROVE  AxiPort!Next
<1> DEFINE got == IF Axi!BVALID THEN {[id |-> Axi!BID, data |-> ZeroLine]}
                  ELSE IF Axi!RVALID THEN {[id |-> Axi!RID, data |-> Axi!RDATA]}
                  ELSE {}
           line == LineAt(addr)
<1>g. /\ xState = "s_wrespo" => got = {[id |-> awid, data |-> ZeroLine]}
      /\ xState = "s_rvalid" => got = {[id |-> arid, data |-> rdata]}
      /\ xState \notin {"s_wrespo", "s_rvalid"} => got = {}
      /\ xState' = "s_wrespo" => got' = {[id |-> awid', data |-> ZeroLine]}
      /\ xState' = "s_rvalid" => got' = {[id |-> arid', data |-> rdata']}
      /\ xState' \notin {"s_wrespo", "s_rvalid"} => got' = {}
  BY DEF Axi!BVALID, Axi!RVALID, Axi!BID, Axi!RID, Axi!RDATA
<1>o. ServedFor(Port \ {lane})' \in SUBSET AxiPort!ForeignWrite
  <2>1. (HBMTypeOK => ServedFor(Port) \in SUBSET [line : LineId, data : Line])'
    BY ServedTyped, PTL
  <2>2. ServedFor(Port \ {lane})' \subseteq ServedFor(Port)'
    BY DEF ServedFor
  <2> QED BY <2>1, <2>2 DEF AxiPort!ForeignWrite
<1>m. memView \in [LineId -> Line] /\ AdapterInv'
  BY ViewTyped, AdapterStep DEF Handshake
<1> HIDE DEF got
<1>1. CASE LaneGranted /\ asked' = asked
  <2>1. got = {} /\ got' = {}
    BY <1>1, <1>g DEF LaneGranted, Axi!ReqFire, Axi!memReqValid
  <2> QED BY <1>1, <1>o, <2>1 DEF AxiPort!Next, LaneGranted, got
<1>2. CASE LaneAnswered /\ asked' = asked
  <2>1. got = {} /\ UNCHANGED <<addr, wdata, wmask, awid, arid>>
    BY <1>2, <1>g DEF LaneAnswered, Axi!WriteResp, Axi!ReadResp
  <2>2. CASE xState = "s_wldrsp"
    <3>1. memView' = memView /\ got' = {}
      BY <1>2, <1>g, <2>2 DEF LaneAnswered, Axi!WriteResp, Axi!ReadResp
    <3> QED BY <1>2, <1>o, <2>1, <3>1 DEF AxiPort!Next, got
  <2>3. CASE xState = "s_wwrsp"
    <3> DEFINE r == StoreOp(awid, addr, wdata, wmask)
    <3>1. memView' = [memView EXCEPT ![line] = StoreData] /\ xState' = "s_wrespo"
      BY <1>2, <2>3 DEF LaneAnswered, Axi!WriteResp, Axi!ReadResp
    <3>2. asked = {r}
      BY <2>3 DEF AdapterInv, Transaction, Storing, Loading
    <3>3. r.line = line /\ AxiResult(memView[line], r) = [id |-> awid, data |-> ZeroLine]
      BY DEF StoreOp, AxiResult
    <3>4. memView' = [memView EXCEPT ![line] = AxiEffect(memView[line], r)]
      BY <2>3, <3>1, StoreEffect
    <3>5. got' = {[id |-> awid, data |-> ZeroLine]}
      BY <1>g, <2>1, <3>1
    <3> HIDE DEF r, line
    <3>6. AxiPort!Perform
      BY <1>2, <2>1, <3>2, <3>3, <3>4, <3>5 DEF AxiPort!Perform, got
    <3> QED BY <1>o, <3>6 DEF AxiPort!Next
  <2>4. CASE xState = "s_aresp"
    <3> DEFINE r == LoadOp(arid, addr)
    <3>1. memView' = memView /\ xState' = "s_rvalid" /\ rdata' = memView[line]
      BY <1>2, <2>4 DEF LaneAnswered, Axi!WriteResp, Axi!ReadResp
    <3>2. asked = {r}
      BY <2>4 DEF AdapterInv, Transaction, Storing, Loading
    <3>3. /\ r.line = line /\ AxiEffect(memView[line], r) = memView[line]
          /\ AxiResult(memView[line], r) = [id |-> arid, data |-> memView[line]]
      BY DEF LoadOp, AxiResult, AxiEffect
    <3>4. memView' = [memView EXCEPT ![line] = AxiEffect(memView[line], r)]
      BY <1>m, <3>1, <3>3
    <3>5. got' = {[id |-> arid, data |-> memView[line]]}
      BY <1>g, <2>1, <3>1
    <3> HIDE DEF r, line
    <3>6. AxiPort!Perform
      BY <1>2, <2>1, <3>2, <3>3, <3>4, <3>5 DEF AxiPort!Perform, got
    <3> QED BY <1>o, <3>6 DEF AxiPort!Next
  <2> QED BY <1>2, <2>2, <2>3, <2>4 DEF LaneAnswered, Axi!WriteResp, Axi!ReadResp
<1>3. ASSUME MemoryOfOthers,
             AxiPort!Issue \/ AxiPort!Reply \/ UNCHANGED <<asked, got>>
      PROVE  AxiPort!Next
  BY <1>o, <1>3 DEF AxiPort!Next, AxiPort!Foreign, MemoryOfOthers, got
<1>4. CASE MemoryOfOthers /\ Idles(aw, w, ar, bready, rready)
  <2>1. UNCHANGED <<asked, got>>
    BY <1>4, <1>g DEF Idles, Axi!axiVars, xStates, Storing, Loading
  <2> QED BY <1>3, <1>4, <2>1
<1>5. CASE MemoryOfOthers /\ TakesAW(aw)
  <2>1. UNCHANGED <<asked, got>>
    BY <1>5, <1>g DEF TakesAW, Axi!TakeAW
  <2> QED BY <1>3, <1>5, <2>1
<1>6. CASE MemoryOfOthers /\ Replies
  <2>1. asked' = {} /\ got # {} /\ got' = {}
    BY <1>6, <1>g DEF Replies, Axi!BTaken, Axi!RTaken, Axi!BVALID, Axi!RVALID
  <2> QED BY <1>3, <1>6, <2>1 DEF AxiPort!Reply, got
<1>7. CASE MemoryOfOthers /\ TakesAR(ar)
  <2>1. asked = {} /\ got = {} /\ got' = {} /\ xState' = "s_areq"
    BY <1>7, <1>g DEF TakesAR, Axi!TakeAR, AdapterInv, Transaction, Storing, Loading
  <2>2. asked' = {LoadOp(arid', addr')} /\ arid' \in Id \cup {0} /\ addr' \in Addr
    BY <1>m, <2>1 DEF AdapterInv, Transaction, Storing, Loading, LoadOp, LineAt
  <2>3. LoadOp(arid', addr') \in AxiOp
    BY <2>2, LineInRange, HBMAssumption DEF LoadOp, AxiOp
  <2> QED BY <1>3, <1>7, <2>1, <2>2, <2>3 DEF AxiPort!Issue, got
<1>8. CASE MemoryOfOthers /\ TakesW(w)
  <2>1. asked = {} /\ got = {} /\ got' = {} /\ xState' \in {"s_wreq", "s_wrmw"}
    BY <1>8, <1>g DEF TakesW, Axi!TakeW, Axi!WREADY, AdapterInv, Transaction,
       Storing, Loading
  <2>2. /\ asked' = {StoreOp(awid', addr', wdata', wmask')}
        /\ awid' \in Id \cup {0} /\ addr' \in Addr
        /\ wdata' \in Line /\ wmask' \in SUBSET Offset
    BY <1>m, <2>1 DEF AdapterInv, Transaction, Storing, Loading, StoreOp, LineAt
  <2>3. StoreOp(awid', addr', wdata', wmask') \in AxiOp
    BY <2>2, LineInRange DEF StoreOp, AxiOp, Axi!Offset, Offset
  <2> QED BY <1>3, <1>8, <2>1, <2>2, <2>3 DEF AxiPort!Issue, got
<1> QED BY <1>1, <1>2, <1>4, <1>5, <1>6, <1>7, <1>8 DEF AdapterEvent

----------------------------------------------------------------------------
(* The GPU lane: the ways its two state machines move in a cycle.          *)
L2Waits == UNCHANGED <<L2!l2Vars, clusterAsked>>

(* The adapter serves the captured request while l2 waits for it. *)
AdapterWorks ==
  /\ lState \in {"s_bwait", "s_rc"} /\ xState \notin {"s_wrespo", "s_rvalid"}
  /\ L2Waits
  /\ LaneGranted \/ LaneAnswered \/ (MemoryOfOthers /\ UNCHANGED Axi!axiVars)

(* l2 and the adapter exchange something on an AXI channel. *)
Exchange ==
  /\ MemoryOfOthers /\ clusterAsked' = clusterAsked
  /\ \/ L2!Advance("s_aw", "s_wd") /\ Axi!TakeAW([addr |-> addr_r, id |-> 0])
     \/ L2!Advance("s_wd", "s_bwait") /\ Axi!TakeW([data |-> wdata_r, strb |-> Offset])
     \/ L2!Advance("s_bwait", "s_wack") /\ Axi!BTaken
     \/ L2!Advance("s_ar", "s_rc") /\ Axi!TakeAR([addr |-> addr_r, id |-> 0])
     \/ L2!TakeR(rdata) /\ Axi!RTaken

(* l2 captures a request of a cluster, has its answer taken, or waits for  *)
(* a cluster.                                                              *)
Captures(c, q) ==
  /\ lState = "s_idle" /\ lState' = IF q.isWrite THEN "s_aw" ELSE "s_ar"
  /\ sel_r' = c /\ last' = c /\ addr_r' = q.addr /\ wdata_r' = q.data
  /\ clusterAsked' = {[cluster |-> c, line |-> LineAt(q.addr), data |-> q.data,
                       isWrite |-> q.isWrite]}

AtClusters ==
  /\ MemoryOfOthers /\ UNCHANGED Axi!axiVars
  /\ \/ lState \in {"s_idle", "s_wack", "s_resp"} /\ L2Waits
     \/ /\ L2!Advance("s_wack", "s_idle") \/ L2!Advance("s_resp", "s_idle")
        /\ clusterAsked' = {}
     \/ \E c \in L2!Cluster, q \in MemReq : Captures(c, q)

(* l2 presents one address or one whole line at a time. *)
LEMMA L2Presents ==
  ASSUME L2Inv, lane = GPU
  PROVE  Presented(L2!AW, L2!W, L2!AR)
BY DEF Presented, L2!AW, L2!W, L2!AR, Maybe, L2Inv, GPU, ACC, Axi!allOnes,
   Axi!Offset, Offset

(* A request of a cluster is captured with the cluster that presents it. *)
LEMMA CaptureStep ==
  ASSUME L2Inv, lState = "s_idle", clusterAsked = {},
         NEW valid \in SUBSET L2!Cluster, NEW bits \in ClusterReqs,
         L2!Capture(valid, bits) \/ (valid = {} /\ UNCHANGED L2!l2Vars),
         clusterAsked' = Captured(valid, bits)
  PROVE  L2Waits \/ \E c \in L2!Cluster, q \in MemReq : Captures(c, q)
<1>1. CASE valid = {}
  <2>1. clusterAsked' = {}
    BY <1>1 DEF Captured
  <2>2. UNCHANGED L2!l2Vars
    BY <1>1 DEF L2!Capture
  <2> QED BY <2>1, <2>2 DEF L2Waits
<1>2. CASE valid # {}
  <2>1. L2!Capture(valid, bits)
    BY <1>2
  <2>2. L2!Cluster = 0 .. nClusters - 1 /\ nClusters \in Nat /\ last \in L2!Cluster
    BY AxiLaneAssumption DEF L2!Cluster, L2Inv
  <2>3. L2!sel(valid) \in valid
    <3>1. L2!sel(valid) = fairSel(valid, last)
      BY DEF L2!sel, L2!fairSel, fairSel, L2!higher, higher, L2!lower, lower,
         L2!PriorityEncoder, PriorityEncoder
    <3> QED BY <1>2, <2>2, <3>1, FairSelNearest
  <2>4. PICK c \in L2!Cluster : c = L2!sel(valid) /\ c \in valid
    BY <2>3
  <2>5. bits[c] \in MemReq
    BY <2>2, AxiLaneAssumption
  <2>6. {i \in valid : L2!clusterReqReady(i, valid)} = {c}
    BY <2>4 DEF L2!clusterReqReady
  <2>7. clusterAsked' = {[cluster |-> c, line |-> LineAt(bits[c].addr),
                          data |-> bits[c].data, isWrite |-> bits[c].isWrite]}
    BY <2>6 DEF LineAt, Captured
  <2>8. Captures(c, bits[c])
    BY <2>1, <2>4, <2>7 DEF Captures, L2!Capture
  <2> QED BY <2>5, <2>8
<1> QED BY <1>1, <1>2

(* Every cycle of the GPU lane is one of the three. *)
LEMMA JointMoves ==
  ASSUME Handshake, AdapterInv, L2Inv, ClusterCycle,
         AdapterEvent(L2!AW, L2!W, L2!AR, L2!BREADY, L2!RREADY)
  PROVE  AdapterWorks \/ Exchange \/ AtClusters
<1> DEFINE aw == L2!AW
           w  == L2!W
           ar == L2!AR
           Event == AdapterEvent(aw, w, ar, L2!BREADY, L2!RREADY)
<1>0. lane = GPU
  BY DEF ClusterCycle
<1>1. PICK valid, bits, takers :
        /\ valid \in SUBSET L2!Cluster
        /\ lState = "s_idle" => bits \in ClusterReqs
        /\ L2Cycle(valid, bits, takers)
        /\ clusterAsked' =
             CASE lState = "s_idle" -> Captured(valid, bits)
               [] Answered \cap takers # {} -> {}
               [] OTHER -> clusterAsked
  BY DEF ClusterCycle
<1>2. L2!Cycle(valid, bits, Axi!AWREADY(aw # {}), Axi!WREADY, Axi!BVALID,
               Axi!ARREADY(aw # {}, ar # {}),
               IF Axi!RVALID THEN {Axi!RDATA} ELSE {}, takers)
  BY <1>1 DEF L2Cycle
<1>3. lState # "s_idle" => clusterAsked' = IF Answered \cap takers # {} THEN {}
                                           ELSE clusterAsked
  BY <1>1
<1>4. lState \notin {"s_wack", "s_resp"} => Answered = {}
  BY DEF Answered, L2!clusterRespValid
<1>5. CASE lState = "s_idle"
  <2>1. xState = "s_idle" /\ clusterAsked = {} /\ aw = {} /\ ar = {} /\ w = {}
    BY <1>0, <1>5 DEF L2Inv, ClusterRequest, L2!AW, L2!AR, L2!W
  <2>2. MemoryOfOthers /\ UNCHANGED Axi!axiVars
    BY <2>1 DEF AdapterEvent, LaneGranted, LaneAnswered, Axi!ReqFire,
       Axi!memReqValid, Axi!WriteResp, Axi!ReadResp, Idles, TakesAW, TakesAR,
       TakesW, Replies, Axi!BTaken, Axi!RTaken, Axi!BVALID, Axi!RVALID
  <2>3. L2!Capture(valid, bits) \/ (valid = {} /\ UNCHANGED L2!l2Vars)
    BY <1>2, <1>5, <2>1 DEF L2!Cycle, L2!Advance, L2!TakeR, Axi!RVALID
  <2>4. clusterAsked' = Captured(valid, bits)
    BY <1>1, <1>4, <1>5
  <2>5. L2Waits \/ \E c \in L2!Cluster, q \in MemReq : Captures(c, q)
    BY <1>1, <1>5, <2>1, <2>3, <2>4, CaptureStep
  <2> QED BY <1>5, <2>2, <2>5 DEF AtClusters
<1>6. CASE lState \in {"s_wack", "s_resp"}
  <2>1. xState = "s_idle" /\ aw = {} /\ ar = {} /\ w = {}
    BY <1>0, <1>6 DEF L2Inv, L2!AW, L2!AR, L2!W
  <2>2. MemoryOfOthers /\ UNCHANGED Axi!axiVars
    BY <2>1 DEF AdapterEvent, LaneGranted, LaneAnswered, Axi!ReqFire,
       Axi!memReqValid, Axi!WriteResp, Axi!ReadResp, Idles, TakesAW, TakesAR,
       TakesW, Replies, Axi!BTaken, Axi!RTaken, Axi!BVALID, Axi!RVALID
  <2>3. Answered = {sel_r}
    BY <1>6 DEF Answered, L2!clusterRespValid, L2Inv
  <2>4. \/ sel_r \in takers /\ (L2!Advance("s_wack", "s_idle") \/ L2!Advance("s_resp", "s_idle"))
        \/ sel_r \notin takers /\ UNCHANGED L2!l2Vars
    BY <1>2, <1>6 DEF L2!Cycle, L2!Capture, L2!Advance, L2!TakeR
  <2>5. \/ L2Waits
        \/ /\ L2!Advance("s_wack", "s_idle") \/ L2!Advance("s_resp", "s_idle")
           /\ clusterAsked' = {}
    BY <1>3, <1>6, <2>3, <2>4 DEF L2Waits
  <2> QED BY <1>6, <2>2, <2>5 DEF AtClusters
<1>7. CASE lState \in {"s_aw", "s_wd", "s_ar"}
  <2>0. clusterAsked' = clusterAsked
    BY <1>3, <1>4, <1>7
  <2>1. CASE lState = "s_aw"
    <3>1. xState = "s_idle" /\ aw = {[addr |-> addr_r, id |-> 0]} /\ ar = {} /\ w = {}
      BY <1>0, <2>1 DEF L2Inv, L2!AW, L2!AR, L2!W
    <3>2. MemoryOfOthers /\ Axi!TakeAW([addr |-> addr_r, id |-> 0])
      BY <3>1 DEF AdapterEvent, LaneGranted, LaneAnswered, Axi!ReqFire,
         Axi!memReqValid, Axi!WriteResp, Axi!ReadResp, Idles, TakesAW, TakesAR,
         TakesW, Replies, Axi!BTaken, Axi!RTaken, Axi!BVALID, Axi!RVALID
    <3>3. L2!Advance("s_aw", "s_wd")
      BY <1>2, <2>1, <3>1 DEF L2!Cycle, L2!Capture, L2!Advance, L2!TakeR, Axi!AWREADY
    <3> QED BY <2>0, <3>2, <3>3 DEF Exchange
  <2>2. CASE lState = "s_wd"
    <3>1. /\ xState = "s_wwait" /\ aw = {} /\ ar = {}
          /\ w = {[data |-> wdata_r, strb |-> Offset]}
      BY <1>0, <2>2 DEF L2Inv, L2!AW, L2!AR, L2!W, Axi!allOnes, Axi!Offset, Offset
    <3>2. MemoryOfOthers /\ Axi!TakeW([data |-> wdata_r, strb |-> Offset])
      BY <3>1 DEF AdapterEvent, LaneGranted, LaneAnswered, Axi!ReqFire,
         Axi!memReqValid, Axi!WriteResp, Axi!ReadResp, Idles, TakesAW, TakesAR,
         TakesW, Replies, Axi!BTaken, Axi!RTaken, Axi!BVALID, Axi!RVALID
    <3>3. L2!Advance("s_wd", "s_bwait")
      BY <1>2, <2>2, <3>1 DEF L2!Cycle, L2!Capture, L2!Advance, L2!TakeR, Axi!WREADY
    <3> QED BY <2>0, <3>2, <3>3 DEF Exchange
  <2>3. CASE lState = "s_ar"
    <3>1. xState = "s_idle" /\ ar = {[addr |-> addr_r, id |-> 0]} /\ aw = {} /\ w = {}
      BY <1>0, <2>3 DEF L2Inv, L2!AW, L2!AR, L2!W
    <3>2. MemoryOfOthers /\ Axi!TakeAR([addr |-> addr_r, id |-> 0])
      BY <3>1 DEF AdapterEvent, LaneGranted, LaneAnswered, Axi!ReqFire,
         Axi!memReqValid, Axi!WriteResp, Axi!ReadResp, Idles, TakesAW, TakesAR,
         TakesW, Replies, Axi!BTaken, Axi!RTaken, Axi!BVALID, Axi!RVALID
    <3>3. L2!Advance("s_ar", "s_rc")
      BY <1>2, <2>3, <3>1 DEF L2!Cycle, L2!Capture, L2!Advance, L2!TakeR, Axi!ARREADY
    <3> QED BY <2>0, <3>2, <3>3 DEF Exchange
  <2> QED BY <1>7, <2>1, <2>2, <2>3
<1>8. CASE lState \in {"s_bwait", "s_rc"}
  <2>0. clusterAsked' = clusterAsked /\ aw = {} /\ ar = {} /\ w = {}
    BY <1>3, <1>4, <1>8 DEF L2!AW, L2!AR, L2!W
  <2>1. CASE xState \notin {"s_wrespo", "s_rvalid"}
    <3>1. UNCHANGED L2!l2Vars
      BY <1>2, <1>8, <2>1 DEF L2!Cycle, L2!Capture, L2!Advance, L2!TakeR,
         Axi!BVALID, Axi!RVALID
    <3>2. LaneGranted \/ LaneAnswered \/ (MemoryOfOthers /\ UNCHANGED Axi!axiVars)
      BY <2>0, <2>1 DEF AdapterEvent, Idles, TakesAW, TakesAR, TakesW, Replies,
         Axi!BTaken, Axi!RTaken, Axi!BVALID, Axi!RVALID
    <3> QED BY <1>8, <2>0, <2>1, <3>1, <3>2 DEF AdapterWorks, L2Waits
  <2>2. CASE xState \in {"s_wrespo", "s_rvalid"}
    <3>1. /\ lState = "s_bwait" <=> xState = "s_wrespo"
          /\ lState = "s_rc" <=> xState = "s_rvalid"
      BY <1>0, <1>8, <2>2 DEF L2Inv, Loading
    <3>2. MemoryOfOthers /\ (Axi!BTaken \/ Axi!RTaken)
      BY <2>0, <2>2, <3>1 DEF AdapterEvent, LaneGranted, LaneAnswered,
         Axi!ReqFire, Axi!memReqValid, Axi!WriteResp, Axi!ReadResp, Idles,
         TakesAW, TakesAR, TakesW, Replies, L2!BREADY, L2!RREADY
    <3>3. IF lState = "s_bwait" THEN L2!Advance("s_bwait", "s_wack") ELSE L2!TakeR(rdata)
      BY <1>2, <1>8, <2>2, <3>1 DEF L2!Cycle, L2!Capture, L2!Advance, L2!TakeR,
         Axi!BVALID, Axi!RVALID, Axi!RDATA
    <3>4. IF lState = "s_bwait" THEN Axi!BTaken ELSE Axi!RTaken
      BY <3>1, <3>2, <1>8 DEF Axi!BTaken, Axi!RTaken, Axi!BVALID, Axi!RVALID
    <3> QED BY <2>0, <3>2, <3>3, <3>4 DEF Exchange
  <2> QED BY <2>1, <2>2
<1> QED BY <1>5, <1>6, <1>7, <1>8 DEF L2Inv

(* The request in the registers of l2 is kept until it is answered. *)
LEMMA ClusterRequestKept ==
  ASSUME UNCHANGED <<sel_r, addr_r, wdata_r>>,
         \/ lState' = lState
         \/ lState = "s_aw" /\ lState' = "s_wd"
         \/ lState = "s_wd" /\ lState' = "s_bwait"
         \/ lState = "s_bwait" /\ lState' = "s_wack"
         \/ lState = "s_ar" /\ lState' = "s_rc"
         \/ lState = "s_rc" /\ lState' = "s_resp"
  PROVE  ClusterRequest' = ClusterRequest
<1>1. (lState' = "s_idle") = (lState = "s_idle")
  OBVIOUS
<1>2. Writing' = Writing
  BY DEF Writing
<1> QED BY <1>1, <1>2 DEF ClusterRequest, LineAt

(* The two state machines stay together. *)
LEMMA L2Step ==
  ASSUME Handshake, L2Inv, lane = GPU, lane' = lane,
         AdapterWorks \/ Exchange \/ AtClusters
  PROVE  L2Inv'
<1>0. L2!Cluster' = L2!Cluster /\ GPU # ACC
  BY DEF L2!Cluster, GPU, ACC
<1>1. CASE AdapterWorks
  <2>1. UNCHANGED <<lState, last, sel_r, addr_r, wdata_r, rdata_r, clusterAsked>>
    BY <1>1 DEF AdapterWorks, L2Waits, L2!l2Vars
  <2>2. UNCHANGED <<addr, wdata, wmask>>
    BY <1>1 DEF AdapterWorks, LaneGranted, LaneAnswered, Axi!ReqFire,
       Axi!WriteResp, Axi!ReadResp, Axi!axiVars
  <2>3. \/ xState' = xState
        \/ xState = "s_wreq" /\ xState' = "s_wwrsp"
        \/ xState = "s_areq" /\ xState' = "s_aresp"
        \/ xState = "s_wwrsp" /\ xState' = "s_wrespo"
        \/ xState = "s_aresp" /\ xState' = "s_rvalid"
    <3>1. xState # "s_wrmw" /\ xState # "s_wldrsp"
      BY <1>1 DEF AdapterWorks, L2Inv, Loading
    <3> QED BY <1>1, <3>1 DEF AdapterWorks, LaneGranted, LaneAnswered, Axi!ReqFire,
               Axi!memReqValid, Axi!WriteResp, Axi!ReadResp, Axi!axiVars
  <2>4. lState \in {"s_bwait", "s_rc"}
    BY <1>1 DEF AdapterWorks
  <2>5. ClusterRequest' = ClusterRequest
    BY <2>1, ClusterRequestKept
  <2> QED BY <1>0, <2>1, <2>2, <2>3, <2>4, <2>5 DEF L2Inv, Loading
<1>2. CASE Exchange
  <2>0. clusterAsked' = clusterAsked
    BY <1>2 DEF Exchange
  <2>1. CASE L2!Advance("s_aw", "s_wd") /\ Axi!TakeAW([addr |-> addr_r, id |-> 0])
    <3>1. /\ lState = "s_aw" /\ lState' = "s_wd" /\ xState' = "s_wwait" /\ addr' = addr_r
          /\ UNCHANGED <<last, sel_r, addr_r, wdata_r>>
      BY <2>1 DEF L2!Advance, Axi!TakeAW
    <3>2. ClusterRequest' = ClusterRequest
      BY <3>1, ClusterRequestKept
    <3> QED BY <1>0, <2>0, <3>1, <3>2 DEF L2Inv, Loading
  <2>2. CASE /\ L2!Advance("s_wd", "s_bwait")
             /\ Axi!TakeW([data |-> wdata_r, strb |-> Offset])
    <3>1. /\ lState = "s_wd" /\ lState' = "s_bwait" /\ xState' = "s_wreq"
          /\ addr' = addr /\ wdata' = wdata_r /\ wmask' = Offset /\ xState = "s_wwait"
          /\ UNCHANGED <<last, sel_r, addr_r, wdata_r>>
      BY <2>2 DEF L2!Advance, Axi!TakeW, Axi!WREADY, Axi!allOnes, Axi!Offset, Offset
    <3>2. ClusterRequest' = ClusterRequest
      BY <3>1, ClusterRequestKept
    <3> QED BY <1>0, <2>0, <3>1, <3>2 DEF L2Inv, Loading
  <2>3. CASE L2!Advance("s_bwait", "s_wack") /\ Axi!BTaken
    <3>1. /\ lState = "s_bwait" /\ lState' = "s_wack" /\ xState' = "s_idle"
          /\ UNCHANGED <<last, sel_r, addr_r, wdata_r>>
      BY <2>3 DEF L2!Advance, Axi!BTaken
    <3>2. ClusterRequest' = ClusterRequest
      BY <3>1, ClusterRequestKept
    <3> QED BY <1>0, <2>0, <3>1, <3>2 DEF L2Inv, Loading
  <2>4. CASE L2!Advance("s_ar", "s_rc") /\ Axi!TakeAR([addr |-> addr_r, id |-> 0])
    <3>1. /\ lState = "s_ar" /\ lState' = "s_rc" /\ xState' = "s_areq" /\ addr' = addr_r
          /\ UNCHANGED <<last, sel_r, addr_r, wdata_r>>
      BY <2>4 DEF L2!Advance, Axi!TakeAR
    <3>2. ClusterRequest' = ClusterRequest
      BY <3>1, ClusterRequestKept
    <3> QED BY <1>0, <2>0, <3>1, <3>2 DEF L2Inv, Loading
  <2>5. CASE L2!TakeR(rdata) /\ Axi!RTaken
    <3>1. /\ lState = "s_rc" /\ lState' = "s_resp" /\ xState' = "s_idle"
          /\ UNCHANGED <<last, sel_r, addr_r, wdata_r>>
      BY <2>5 DEF L2!TakeR, Axi!RTaken
    <3>2. ClusterRequest' = ClusterRequest
      BY <3>1, ClusterRequestKept
    <3> QED BY <1>0, <2>0, <3>1, <3>2 DEF L2Inv, Loading
  <2> QED BY <1>2, <2>1, <2>2, <2>3, <2>4, <2>5 DEF Exchange
<1>3. CASE AtClusters
  <2>0. UNCHANGED <<xState, addr, wdata, wmask>>
    BY <1>3 DEF AtClusters, Axi!axiVars
  <2>1. CASE lState \in {"s_idle", "s_wack", "s_resp"} /\ L2Waits
    <3>1. UNCHANGED <<lState, last, sel_r, addr_r, wdata_r, clusterAsked>>
      BY <2>1 DEF L2Waits, L2!l2Vars
    <3>2. ClusterRequest' = ClusterRequest
      BY <3>1, ClusterRequestKept
    <3> QED BY <1>0, <2>0, <3>1, <3>2 DEF L2Inv
  <2>2. CASE /\ L2!Advance("s_wack", "s_idle") \/ L2!Advance("s_resp", "s_idle")
             /\ clusterAsked' = {}
    <3>1. /\ lState \in {"s_wack", "s_resp"} /\ lState' = "s_idle"
          /\ UNCHANGED <<last, sel_r>> /\ ClusterRequest' = {}
      BY <2>2 DEF L2!Advance, ClusterRequest
    <3> QED BY <1>0, <2>0, <2>2, <3>1 DEF L2Inv
  <2>3. ASSUME NEW c \in L2!Cluster, NEW q \in MemReq, Captures(c, q) PROVE L2Inv'
    <3>1. q.addr \in Addr /\ q.data \in Line /\ q.isWrite \in BOOLEAN
      BY DEF MemReq
    <3>2. /\ lState = "s_idle" /\ lState' = IF q.isWrite THEN "s_aw" ELSE "s_ar"
          /\ sel_r' = c /\ last' = c /\ addr_r' = q.addr /\ wdata_r' = q.data
      BY <2>3 DEF Captures
    <3>3. Writing' = q.isWrite
      <4>1. CASE q.isWrite = TRUE
        BY <3>2, <4>1 DEF Writing
      <4>2. CASE q.isWrite = FALSE
        <5>1. Writing' \in BOOLEAN /\ ~ Writing'
          BY <3>2, <4>2 DEF Writing
        <5> QED BY <4>2, <5>1
      <4> QED BY <3>1, <4>1, <4>2
    <3>4. lState' \in {"s_aw", "s_ar"} /\ xState = "s_idle"
      BY <3>2 DEF L2Inv
    <3>5. clusterAsked' = ClusterRequest'
      BY <2>3, <3>2, <3>3, <3>4 DEF Captures, ClusterRequest, LineAt
    <3> QED BY <1>0, <2>0, <3>1, <3>2, <3>4, <3>5 DEF L2Inv
  <2> QED BY <1>3, <2>1, <2>2, <2>3 DEF AtClusters
<1> QED BY <1>1, <1>2, <1>3

(* The answer the clusters are owed: the one in the adapter, or the one    *)
(* that l2 offers.                                                         *)
ClusterGot ==
  CASE lane = ACC -> {}
    [] lane = GPU /\ Axi!BVALID -> {[cluster |-> sel_r, data |-> ZeroLine]}
    [] lane = GPU /\ Axi!RVALID -> {[cluster |-> sel_r, data |-> Axi!RDATA]}
    [] OTHER ->
       {[cluster |-> c, data |-> IF Writing THEN ZeroLine ELSE L2!clusterRespBits] :
          c \in Answered}

(* That answer by the states of the two machines. *)
GotByState ==
  /\ lane = ACC => ClusterGot = {}
  /\ lane = GPU =>
       /\ xState = "s_wrespo" => ClusterGot = {[cluster |-> sel_r, data |-> ZeroLine]}
       /\ xState = "s_rvalid" => ClusterGot = {[cluster |-> sel_r, data |-> rdata]}
       /\ lState = "s_wack" => ClusterGot = {[cluster |-> sel_r, data |-> ZeroLine]}
       /\ lState = "s_resp" => ClusterGot = {[cluster |-> sel_r, data |-> rdata_r]}
       /\ xState \notin {"s_wrespo", "s_rvalid"} /\ lState \notin {"s_wack", "s_resp"}
            => ClusterGot = {}

(* The states determine the answer. *)
LEMMA ClusterGotIs == L2Inv => GotByState
<1> SUFFICES ASSUME L2Inv PROVE GotByState
  OBVIOUS
<1>1. lane = ACC => ClusterGot = {}
  BY DEF ClusterGot, GPU, ACC
<1>2. ASSUME lane = GPU, xState = "s_wrespo"
      PROVE  ClusterGot = {[cluster |-> sel_r, data |-> ZeroLine]}
  BY <1>2 DEF ClusterGot, GPU, ACC, Axi!BVALID, Axi!RVALID
<1>3. ASSUME lane = GPU, xState = "s_rvalid"
      PROVE  ClusterGot = {[cluster |-> sel_r, data |-> rdata]}
  BY <1>3 DEF ClusterGot, GPU, ACC, Axi!BVALID, Axi!RVALID, Axi!RDATA
<1>4. ASSUME lane = GPU, xState \notin {"s_wrespo", "s_rvalid"}
      PROVE  ClusterGot =
               {[cluster |-> c, data |-> IF Writing THEN ZeroLine ELSE rdata_r] :
                  c \in Answered}
  BY <1>4 DEF ClusterGot, GPU, ACC, Axi!BVALID, Axi!RVALID, L2!clusterRespBits,
     L2!isW_r
<1>5. ASSUME lState \in {"s_wack", "s_resp"} PROVE Answered = {sel_r}
  BY <1>5 DEF Answered, L2!clusterRespValid, L2Inv
<1>6. ASSUME lState \notin {"s_wack", "s_resp"} PROVE Answered = {}
  BY <1>6 DEF Answered, L2!clusterRespValid
<1>7. ASSUME lane = GPU, lState \in {"s_wack", "s_resp"}
      PROVE  ClusterGot = {[cluster |-> sel_r,
                            data |-> IF Writing THEN ZeroLine ELSE rdata_r]}
  <2>1. xState = "s_idle"
    BY <1>7 DEF L2Inv
  <2> QED BY <1>4, <1>5, <1>7, <2>1
<1>8. ASSUME lane = GPU, lState = "s_wack"
      PROVE  ClusterGot = {[cluster |-> sel_r, data |-> ZeroLine]}
  BY <1>7, <1>8 DEF Writing
<1>10. ASSUME lane = GPU, lState = "s_resp"
       PROVE  ClusterGot = {[cluster |-> sel_r, data |-> rdata_r]}
  BY <1>7, <1>10 DEF Writing
<1>9. ASSUME lane = GPU, xState \notin {"s_wrespo", "s_rvalid"},
             lState \notin {"s_wack", "s_resp"}
      PROVE  ClusterGot = {}
  BY <1>4, <1>6, <1>9
<1> QED BY <1>1, <1>2, <1>3, <1>8, <1>9, <1>10 DEF GotByState

(* Every move of the GPU lane is a step of the atomic port the clusters    *)
(* see: a request takes effect when the memory answers the adapter, and    *)
(* its answer passes unchanged from the adapter to l2.                     *)
LEMMA ClusterPortStep ==
  ASSUME Handshake, AdapterInv, L2Inv, L2Inv', HBMTypeOK', lane = GPU, lane' = lane,
         AdapterWorks \/ Exchange \/ AtClusters
  PROVE  ClusterPort!Next
<1>g. GotByState /\ GotByState'
  <2>1. L2Inv' => GotByState'
    BY ClusterGotIs, PTL
  <2> QED BY <2>1, ClusterGotIs
<1>o. ServedFor(Port \ ({lane} \cap {GPU}))' \in SUBSET ClusterPort!ForeignWrite
  <2>1. (HBMTypeOK => ServedFor(Port) \in SUBSET [line : LineId, data : Line])'
    BY ServedTyped, PTL
  <2>2. ServedFor(Port \ ({lane} \cap {GPU}))' \subseteq ServedFor(Port)'
    BY DEF ServedFor
  <2> QED BY <2>1, <2>2 DEF ClusterPort!ForeignWrite
<1>p. Port \ ({lane} \cap {GPU}) = Port \ {lane}
  OBVIOUS
<1>m. memView \in [LineId -> Line]
  BY ViewTyped DEF Handshake
<1> USE DEF L2Inv, GotByState, Loading
<1>1. ASSUME MemoryOfOthers,
             \/ ClusterPort!Issue \/ ClusterPort!Reply
             \/ UNCHANGED <<clusterAsked, ClusterGot>>
      PROVE  ClusterPort!Next
  BY <1>o, <1>p, <1>1 DEF ClusterPort!Next, ClusterPort!Foreign, MemoryOfOthers,
     ClusterGot
<1>2. CASE AdapterWorks
  <2>1. /\ UNCHANGED <<lState, last, sel_r, addr_r, wdata_r, rdata_r, clusterAsked>>
        /\ lState \in {"s_bwait", "s_rc"} /\ xState \notin {"s_wrespo", "s_rvalid"}
    BY <1>2 DEF AdapterWorks, L2Waits, L2!l2Vars
  <2>2. ClusterGot = {}
    BY <1>g, <2>1
  <2>3. CASE MemoryOfOthers /\ UNCHANGED Axi!axiVars
    <3>1. ClusterGot' = {}
      BY <1>g, <2>1, <2>3 DEF Axi!axiVars
    <3> QED BY <1>1, <2>1, <2>2, <2>3, <3>1
  <2>4. CASE LaneGranted
    <3>1. memView' = memView /\ ClusterGot' = {}
      BY <1>g, <2>1, <2>4 DEF LaneGranted, Axi!ReqFire, Axi!memReqValid
    <3> QED BY <1>1, <2>1, <2>2, <3>1 DEF MemoryOfOthers
  <2>5. CASE LaneAnswered /\ lState = "s_bwait"
    <3>1. /\ memView' = [memView EXCEPT ![LineAt(addr)] = StoreData]
          /\ xState' = "s_wrespo"
      BY <2>5 DEF LaneAnswered, Axi!WriteResp, Axi!ReadResp
    <3>2. StoreData = wdata_r /\ addr = addr_r
      BY <2>5 DEF StoreData
    <3> DEFINE r == [cluster |-> sel_r, line |-> LineAt(addr_r), data |-> wdata_r,
                     isWrite |-> TRUE]
    <3>3. clusterAsked = {r}
      BY <2>5 DEF ClusterRequest, Writing
    <3>4. ClusterGot' = {[cluster |-> sel_r, data |-> ZeroLine]}
      BY <1>g, <2>1, <3>1
    <3>5. /\ ClusterEffect(memView[r.line], r) = wdata_r /\ r.line = LineAt(addr_r)
          /\ ClusterResult(memView[r.line], r) = [cluster |-> sel_r, data |-> ZeroLine]
      BY DEF ClusterEffect, ClusterResult
    <3> HIDE DEF r
    <3>6. ClusterPort!Perform
      BY <2>1, <2>2, <3>1, <3>2, <3>3, <3>4, <3>5 DEF ClusterPort!Perform, ClusterGot
    <3> QED BY <1>o, <3>6 DEF ClusterPort!Next
  <2>6. CASE LaneAnswered /\ lState = "s_rc"
    <3>1. /\ memView' = memView /\ xState' = "s_rvalid"
          /\ rdata' = memView[LineAt(addr)] /\ addr = addr_r
      BY <2>6 DEF LaneAnswered, Axi!WriteResp, Axi!ReadResp
    <3> DEFINE r == [cluster |-> sel_r, line |-> LineAt(addr_r), data |-> wdata_r,
                     isWrite |-> FALSE]
    <3>2. Writing = FALSE
      <4>1. Writing \in BOOLEAN /\ ~ Writing
        BY ONLY <2>6 DEF Writing
      <4> QED BY <4>1
    <3>3. clusterAsked = {r}
      BY <2>6, <3>2 DEF ClusterRequest
    <3>4. ClusterGot' = {[cluster |-> sel_r, data |-> memView[LineAt(addr_r)]]}
      BY <1>g, <2>1, <3>1
    <3>5. /\ ClusterEffect(memView[r.line], r) = memView[r.line]
          /\ r.line = LineAt(addr_r)
          /\ ClusterResult(memView[r.line], r)
               = [cluster |-> sel_r, data |-> memView[r.line]]
      BY DEF ClusterEffect, ClusterResult
    <3>6. memView' = [memView EXCEPT ![r.line] = ClusterEffect(memView[r.line], r)]
      BY <1>m, <3>1, <3>5
    <3> HIDE DEF r
    <3>7. ClusterPort!Perform
      BY <2>1, <2>2, <3>3, <3>4, <3>5, <3>6 DEF ClusterPort!Perform, ClusterGot
    <3> QED BY <1>o, <3>7 DEF ClusterPort!Next
  <2> QED BY <1>2, <2>1, <2>3, <2>4, <2>5, <2>6 DEF AdapterWorks
<1>3. CASE Exchange
  <2>1. MemoryOfOthers /\ clusterAsked' = clusterAsked
    BY <1>3 DEF Exchange
  <2>2. ClusterGot' = ClusterGot
    <3>1. CASE \/ L2!Advance("s_aw", "s_wd") /\ Axi!TakeAW([addr |-> addr_r, id |-> 0])
               \/ /\ L2!Advance("s_wd", "s_bwait")
                  /\ Axi!TakeW([data |-> wdata_r, strb |-> Offset])
               \/ L2!Advance("s_ar", "s_rc") /\ Axi!TakeAR([addr |-> addr_r, id |-> 0])
      BY <1>g, <3>1 DEF L2!Advance, Axi!TakeAW, Axi!TakeW, Axi!TakeAR, Axi!WREADY
    <3>2. CASE L2!Advance("s_bwait", "s_wack") /\ Axi!BTaken
      BY <1>g, <3>2 DEF L2!Advance, Axi!BTaken, Axi!BVALID
    <3>3. CASE L2!TakeR(rdata) /\ Axi!RTaken
      BY <1>g, <3>3 DEF L2!TakeR, Axi!RTaken, Axi!RVALID
    <3> QED BY <1>3, <3>1, <3>2, <3>3 DEF Exchange
  <2> QED BY <1>1, <2>1, <2>2
<1>4. CASE AtClusters
  <2>0. MemoryOfOthers /\ UNCHANGED <<xState, rdata>>
    BY <1>4 DEF AtClusters, Axi!axiVars
  <2>1. CASE lState \in {"s_idle", "s_wack", "s_resp"} /\ L2Waits
    <3>1. UNCHANGED <<clusterAsked, ClusterGot>>
      BY <1>g, <2>0, <2>1 DEF L2Waits, L2!l2Vars
    <3> QED BY <1>1, <2>0, <3>1
  <2>2. CASE /\ L2!Advance("s_wack", "s_idle") \/ L2!Advance("s_resp", "s_idle")
             /\ clusterAsked' = {}
    <3>1. ClusterGot # {} /\ ClusterGot' = {}
      BY <1>g, <2>0, <2>2 DEF L2!Advance
    <3> QED BY <1>1, <2>0, <2>2, <3>1 DEF ClusterPort!Reply, ClusterGot
  <2>3. ASSUME NEW c \in L2!Cluster, NEW q \in MemReq, Captures(c, q)
        PROVE  ClusterPort!Next
    <3>1. clusterAsked = {} /\ ClusterGot = {} /\ ClusterGot' = {}
      BY <1>g, <2>0, <2>3 DEF Captures, ClusterRequest
    <3> DEFINE r == [cluster |-> c, line |-> LineAt(q.addr), data |-> q.data,
                     isWrite |-> q.isWrite]
    <3>2. clusterAsked' = {r}
      BY <2>3 DEF Captures
    <3>3. r \in ClusterOp
      BY LineInRange DEF ClusterOp, MemReq
    <3> HIDE DEF r
    <3>4. ClusterPort!Issue
      BY <3>1, <3>2, <3>3 DEF ClusterPort!Issue, ClusterGot
    <3> QED BY <1>1, <2>0, <3>4
  <2> QED BY <1>4, <2>1, <2>2, <2>3 DEF AtClusters
<1> QED BY <1>2, <1>3, <1>4

----------------------------------------------------------------------------
(* What a cycle with Vortex as the master is. *)
LEMMA VortexStep ==
  ASSUME LaneInv, VortexCycle
  PROVE  /\ lane = ACC /\ lane' = lane /\ LaneInv'
         /\ UNCHANGED <<lState, clusterAsked>>
         /\ \E aw, w, ar, bready, rready :
              Presented(aw, w, ar) /\ AdapterEvent(aw, w, ar, bready, rready)
<1>1. PICK aw, ar, w, bready, rready :
        /\ aw \in Maybe(IF xState = "s_idle" THEN [addr : WriteAddr, id : Id] ELSE {})
        /\ ar \in Maybe(IF xState = "s_idle" THEN [addr : ReadAddr, id : Id] ELSE {})
        /\ w \in Maybe(IF Axi!WREADY THEN Beats ELSE {})
        /\ AdpCycle(aw, w, ar, bready, rready)
  BY DEF VortexCycle
<1>2. /\ lane = ACC /\ lane' = lane
      /\ UNCHANGED <<lState, last, sel_r, addr_r, wdata_r, rdata_r, clusterAsked>>
  BY DEF VortexCycle
<1>3. Presented(aw, w, ar)
  <2>1. aw = {} \/ \E x \in [addr : WriteAddr, id : Id] : aw = {x}
    BY <1>1 DEF Maybe
  <2>2. ar = {} \/ \E x \in [addr : ReadAddr, id : Id] : ar = {x}
    BY <1>1 DEF Maybe
  <2>3. w = {} \/ \E y \in Beats : w = {y}
    BY <1>1 DEF Maybe
  <2>4. aw \in Maybe([addr : WriteAddr, id : Id \cup {0}])
    BY <2>1 DEF Maybe
  <2>5. ar \in Maybe([addr : Addr, id : Id \cup {0}])
    BY <2>2, AxiLaneAssumption DEF Maybe
  <2>6. w \in Maybe(Beats)
    BY <2>3 DEF Maybe
  <2> QED BY <1>2, <2>4, <2>5, <2>6 DEF Presented
<1>4. Handshake' /\ AdapterEvent(aw, w, ar, bready, rready)
  BY <1>1, <1>2, <1>3, AdapterEvents DEF LaneInv
<1>5. AdapterInv'
  BY <1>2, <1>3, <1>4, AdapterStep DEF LaneInv
<1>6. L2Inv'
  <2>1. ClusterRequest' = ClusterRequest
    BY <1>2, ClusterRequestKept
  <2>2. L2!Cluster' = L2!Cluster /\ GPU # ACC
    BY DEF L2!Cluster, GPU, ACC
  <2> QED BY <1>2, <2>1, <2>2 DEF LaneInv, L2Inv
<1> QED BY <1>2, <1>3, <1>4, <1>5, <1>6 DEF LaneInv

(* What a cycle with the clusters behind l2 is. *)
LEMMA ClusterStep ==
  ASSUME LaneInv, ClusterCycle
  PROVE  /\ lane = GPU /\ lane' = lane /\ LaneInv'
         /\ AdapterWorks \/ Exchange \/ AtClusters
         /\ \E aw, w, ar, bready, rready :
              Presented(aw, w, ar) /\ AdapterEvent(aw, w, ar, bready, rready)
<1>1. /\ lane = GPU /\ lane' = lane
      /\ AdpCycle(L2!AW, L2!W, L2!AR, L2!BREADY, L2!RREADY)
  BY DEF ClusterCycle
<1>2. Presented(L2!AW, L2!W, L2!AR)
  BY <1>1, L2Presents DEF LaneInv
<1>3. /\ Handshake'
      /\ AdapterEvent(L2!AW, L2!W, L2!AR, L2!BREADY, L2!RREADY)
  BY <1>1, <1>2, AdapterEvents DEF LaneInv
<1>4. AdapterInv'
  BY <1>1, <1>2, <1>3, AdapterStep DEF LaneInv
<1>5. AdapterWorks \/ Exchange \/ AtClusters
  BY <1>3, JointMoves DEF LaneInv
<1>6. L2Inv'
  BY <1>1, <1>5, L2Step DEF LaneInv
<1> QED BY <1>1, <1>2, <1>3, <1>4, <1>5, <1>6 DEF LaneInv

(* A state predicate over the lane's variables keeps its value when they   *)
(* do.                                                                     *)
LEMMA Stutter ==
  ASSUME UNCHANGED laneVars
  PROVE  /\ LaneInv => LaneInv'
         /\ FetchedCurrent => FetchedCurrent'
         /\ UNCHANGED AxiPort!portVars /\ UNCHANGED ClusterPort!portVars
<1>1. /\ UNCHANGED <<cells, pageOpen, pageRow, rAddr, rData, rW, state, cnt, refCnt>>
      /\ UNCHANGED <<rr, src_cpu, src_gpu, mode, lane>>
      /\ UNCHANGED <<xState, addr, wdata, wmask, rdata, awid, arid>>
      /\ UNCHANGED <<lState, last, sel_r, addr_r, wdata_r, rdata_r>>
      /\ UNCHANGED <<awAsked, asked, clusterAsked>>
  BY DEF laneVars, splitVars, hbmVars, Axi!axiVars, L2!l2Vars
<1>2. StoreData' = StoreData /\ respPort' = respPort /\ memView' = memView
      /\ respValid' = respValid
  BY <1>1, StoreDataKept DEF respPort, memView, respValid
<1>3. Handshake => Handshake'
  BY <1>1, <1>2 DEF Handshake, HBMTypeOK, InService, Axi!memRespReady
<1>4. AdapterInv => AdapterInv'
  BY <1>1 DEF AdapterInv, Transaction, StoreOp, LoadOp, LineAt
<1>5. L2Inv => L2Inv'
  BY <1>1 DEF L2Inv, ClusterRequest, Writing, LineAt, L2!Cluster
<1>6. FetchedCurrent => FetchedCurrent'
  BY <1>1, <1>2 DEF FetchedCurrent, LineAt
<1>7. UNCHANGED AxiPort!portVars
  BY <1>1, <1>2 DEF AxiPort!portVars, ServedFor, Axi!BVALID, Axi!RVALID,
     Axi!BID, Axi!RID, Axi!RDATA
<1>8. UNCHANGED ClusterPort!portVars
  BY <1>1, <1>2 DEF ClusterPort!portVars, ServedFor, Axi!BVALID, Axi!RVALID,
     Axi!RDATA, Answered, L2!clusterRespValid, L2!clusterRespBits, L2!isW_r,
     L2!Cluster, Writing
<1> QED BY <1>3, <1>4, <1>5, <1>6, <1>7, <1>8 DEF LaneInv

(* The invariant holds throughout. *)
LEMMA LaneInvariant == LaneSpec => []LaneInv
<1>1. LaneInit => LaneInv
  <2> SUFFICES ASSUME LaneInit PROVE LaneInv
    OBVIOUS
  <2>1. HBMTypeOK
    BY TypeInit DEF LaneInit, SplitInit
  <2>2. /\ rr \in Port /\ lane \in {GPU, ACC} /\ state = "s_idle"
        /\ xState = "s_idle" /\ lState = "s_idle"
        /\ asked = {} /\ clusterAsked = {} /\ last = 0 /\ sel_r = 0
    BY DEF LaneInit, SplitInit, HBMInit, Axi!Init, L2!Init, Port, CPU
  <2>3. Handshake
    BY <2>1, <2>2 DEF Handshake, InService, Axi!memRespReady, xStates
  <2>4. AdapterInv
    BY <2>2 DEF AdapterInv, Transaction, Storing, Loading
  <2>5. L2Inv
    <3>1. 0 \in L2!Cluster
      <4>1. nClusters \in Nat \ {0}
        BY AxiLaneAssumption
      <4> QED BY ONLY <4>1 DEF L2!Cluster
    <3> QED BY <2>2, <3>1 DEF L2Inv, ClusterRequest
  <2> QED BY <2>3, <2>4, <2>5 DEF LaneInv
<1>2. LaneInv /\ [LaneNext]_laneVars => LaneInv'
  BY VortexStep, ClusterStep, Stutter DEF LaneNext
<1> QED BY <1>1, <1>2, PTL DEF LaneSpec

(* The lanes start as atomic ports with nothing asked. *)
LEMMA PortsInit == LaneInit => AxiPort!Init /\ ClusterPort!Init
<1> SUFFICES ASSUME LaneInit PROVE AxiPort!Init /\ ClusterPort!Init
  OBVIOUS
<1>1. memView \in [LineId -> Line]
  BY TypeInit, ViewTyped DEF LaneInit, SplitInit
<1>2. /\ state = "s_idle" /\ xState = "s_idle" /\ lState = "s_idle"
      /\ asked = {} /\ clusterAsked = {} /\ lane \in {GPU, ACC}
  BY DEF LaneInit, SplitInit, HBMInit, Axi!Init, L2!Init
<1>3. \A S : ServedFor(S) = {}
  BY <1>2 DEF ServedFor, respValid
<1>4. AxiPort!Init
  BY <1>1, <1>2, <1>3 DEF AxiPort!Init, Axi!BVALID, Axi!RVALID
<1>5. ClusterGot = {}
  <2>1. Answered = {}
    BY <1>2 DEF Answered, L2!clusterRespValid
  <2> QED BY <1>2, <2>1 DEF ClusterGot, Axi!BVALID, Axi!RVALID, GPU, ACC
<1>6. ClusterPort!Init
  BY <1>1, <1>2, <1>3, <1>5 DEF ClusterPort!Init, ClusterGot
<1> QED BY <1>4, <1>6

(* Unless another port writes a line that Vortex stores to in part, every  *)
(* AXI transaction is atomic on both lanes: AXIToMemReq, on the fabric,    *)
(* implements the port with the byte-masked stores.  The hypothesis is     *)
(* needed: the partial store is a fetch and a store of the whole line.     *)
THEOREM AxiTransactionsAtomic ==
  ASSUME PartialStoresPrivate
  PROVE  LaneSpec => AxiLaneAtomic
<1>1. LaneInit => FetchedCurrent
  BY DEF LaneInit, Axi!Init, FetchedCurrent
<1>2. LaneInv /\ LaneInv' /\ FetchedCurrent /\ [LaneNext]_laneVars
        => FetchedCurrent' /\ [AxiPort!Next]_(AxiPort!portVars)
  <2> SUFFICES ASSUME LaneInv, LaneInv', FetchedCurrent, [LaneNext]_laneVars
               PROVE  FetchedCurrent' /\ [AxiPort!Next]_(AxiPort!portVars)
    OBVIOUS
  <2>1. CASE UNCHANGED laneVars
    BY <2>1, Stutter
  <2>2. CASE VortexCycle
    <3>1. lane = ACC /\ lane' = lane
      BY <2>2, VortexStep
    <3>2. PICK aw, w, ar, bready, rready :
            Presented(aw, w, ar) /\ AdapterEvent(aw, w, ar, bready, rready)
      BY <2>2, VortexStep
    <3>3. FetchedCurrent'
      BY <3>1, <3>2, FetchedStep DEF LaneInv
    <3>4. AxiPort!Next
      BY <3>1, <3>2, AxiPortStep DEF LaneInv, Handshake
    <3> QED BY <3>3, <3>4
  <2>3. CASE ClusterCycle
    <3>1. lane = GPU /\ lane' = lane
      BY <2>3, ClusterStep
    <3>2. PICK aw, w, ar, bready, rready :
            Presented(aw, w, ar) /\ AdapterEvent(aw, w, ar, bready, rready)
      BY <2>3, ClusterStep
    <3>3. FetchedCurrent'
      <4>1. (L2Inv /\ lane = GPU => FetchedCurrent)'
        BY FullStores, PTL
      <4> QED BY <3>1, <4>1 DEF LaneInv
    <3>4. AxiPort!Next
      BY <3>1, <3>2, AxiPortStep DEF LaneInv, Handshake
    <3> QED BY <3>3, <3>4
  <2> QED BY <2>1, <2>2, <2>3 DEF LaneNext
<1> QED BY <1>1, <1>2, LaneInvariant, PortsInit, PTL DEF LaneSpec, AxiLaneAtomic, AxiPort!Spec

(* In every mode and whatever the other ports write, the two state         *)
(* machines of the GPU lane and the AXI channels between them implement    *)
(* atomic loads and stores of the clusters.                                *)
THEOREM GpuRequestsAtomic == LaneSpec => GpuLaneAtomic
<1>1. LaneInv /\ LaneInv' /\ [LaneNext]_laneVars
        => [ClusterPort!Next]_(ClusterPort!portVars)
  <2> SUFFICES ASSUME LaneInv, LaneInv', [LaneNext]_laneVars
               PROVE  [ClusterPort!Next]_(ClusterPort!portVars)
    OBVIOUS
  <2>1. CASE UNCHANGED laneVars
    BY <2>1, Stutter
  <2>2. CASE ClusterCycle
    <3>1. lane = GPU /\ lane' = lane /\ (AdapterWorks \/ Exchange \/ AtClusters)
      BY <2>2, ClusterStep
    <3>2. ClusterPort!Next
      BY <3>1, ClusterPortStep DEF LaneInv, Handshake
    <3> QED BY <3>2
  <2>3. CASE VortexCycle
    <3>1. /\ lane = ACC /\ lane' = lane /\ UNCHANGED clusterAsked
          /\ \E aw, w, ar, bready, rready : AdapterEvent(aw, w, ar, bready, rready)
      BY <2>3, VortexStep
    <3>2. ClusterGot = {} /\ ClusterGot' = {}
      BY <3>1 DEF ClusterGot, GPU, ACC
    <3>3. Port \ ({lane} \cap {GPU}) = Port
      BY <3>1 DEF GPU, ACC
    <3>4. (ServedFor(Port))' \in SUBSET ClusterPort!ForeignWrite
      <4>1. (HBMTypeOK => ServedFor(Port) \in SUBSET [line : LineId, data : Line])'
        BY ServedTyped, PTL
      <4> QED BY <4>1 DEF LaneInv, Handshake, ClusterPort!ForeignWrite
    <3>5. memView' = memView
            \/ \E f \in ServedFor(Port) : memView' = [memView EXCEPT ![f.line] = f.data]
      <4>1. CASE LaneGranted
        BY <4>1 DEF LaneGranted
      <4>2. CASE MemoryOfOthers
        <5>1. ServedFor(Port \ {lane}) \subseteq ServedFor(Port)
          BY DEF ServedFor
        <5> QED BY <4>2, <5>1 DEF MemoryOfOthers
      <4>3. CASE LaneAnswered
        <5>1. CASE Axi!WriteResp /\ memView' = [memView EXCEPT ![LineAt(addr)] = StoreData]
          <6>1. rAddr = addr /\ rW /\ rData = StoreData
            BY <5>1 DEF LaneInv, Handshake, Axi!WriteResp, Axi!memRespReady
          <6>2. [line |-> LineAt(addr), data |-> StoreData] \in ServedFor(Port)
            BY <3>1, <4>3, <6>1 DEF LaneAnswered, ServedFor, LineAt, Port
          <6> QED BY <5>1, <6>2
        <5> QED BY <4>3, <5>1 DEF LaneAnswered
      <4> QED BY <3>1, <4>1, <4>2, <4>3 DEF AdapterEvent
    <3>6. ClusterPort!Next
      BY <3>1, <3>2, <3>3, <3>4, <3>5
         DEF ClusterPort!Next, ClusterPort!Foreign, ClusterGot
    <3> QED BY <3>6
  <2> QED BY <2>1, <2>2, <2>3 DEF LaneNext
<1> QED BY <1>1, LaneInvariant, PortsInit, PTL DEF LaneSpec, GpuLaneAtomic, ClusterPort!Spec

=============================================================================
