--------------------------- MODULE CpuLaneProofs ----------------------------
(***************************************************************************)
(* The store of the CPU lane is atomic in the CPU-priority modes, for      *)
(* every program, geometry and timing, and whatever the other ports ask.   *)
(***************************************************************************)
EXTENDS CpuLane, MemoryProofs

InService == state \in {"s_prech", "s_act", "s_cmd"}
Waiting   == cState \in {"s_rdresp", "s_wrresp"}

(* The adapter waits exactly while the stack serves the CPU, and the       *)
(* captured registers are then its request.                                *)
Handshake ==
  /\ rr \in Port /\ src_cpu \in BOOLEAN
  /\ Waiting <=> InService /\ src_cpu
  /\ Waiting =>
       /\ rAddr = Adp!hbmReq.addr
       /\ rW = (cState = "s_wrresp")
       /\ cState = "s_wrresp" => rData = Adp!merged
  /\ cState \in {"s_wrreq", "s_wrresp"} => isWrReg

(* Nothing is in service between the read and the write of a store, so     *)
(* that the line fetched stays current.                                    *)
NothingBetween ==
  cpu_priority => /\ cState = "s_wrreq" => ~ InService
                  /\ FetchedLineCurrent

LaneInv == Handshake /\ NothingBetween

----------------------------------------------------------------------------
(* The cycles of the stack that grant and answer nothing. *)
LEMMA QuietCycle ==
  ASSUME NoRequest(cpuAvail) \/ Busy
  PROVE  /\ UNCHANGED <<cells, rAddr, rData, rW, rr, src_cpu, src_gpu, mode>>
         /\ InService' <=> InService
         /\ NoRequest(cpuAvail) => cState \notin {"s_rdreq", "s_wrreq"}
BY DEF NoRequest, Busy, Internal, IdleCycle, reqReady, StartRefresh, Count,
   PrechargeDone, ActivateDone, RefreshDone, InService, cpuAvail,
   Adp!hbmReqValid

(* A cycle that takes neither a request nor a response of the fabric: the  *)
(* adapter waits, or exchanges a word with the core.                       *)
LEMMA AdapterAlone ==
  ASSUME Adp!Cycle(word, FALSE, {}, Core!respReady)
  PROVE  \/ UNCHANGED Adp!adpVars
         \/ /\ cState = "s_idle" /\ cState' = "s_rdreq"
         \/ /\ cState = "s_rsp" /\ cState' = "s_idle"
BY DEF Adp!Cycle, Adp!TakeWord, Adp!ReadResp, Adp!WriteResp, Adp!WordTaken,
   Adp!wordReqReady, Adp!wordRespValid

(* The address of the request and the merged line are functions of         *)
(* registers that a fabric handshake leaves alone.                         *)
LEMMA RequestKept ==
  ASSUME UNCHANGED <<addrReg, dataReg, isWrReg, sizeReg, offReg>>
  PROVE  /\ Adp!hbmReq.addr' = Adp!hbmReq.addr
         /\ lineReg' = lineReg => Adp!merged' = Adp!merged
BY DEF Adp!hbmReq, Adp!merged

(* A grant: the adapter's request is captured if and only if the CPU is    *)
(* selected, which in the priority modes is whenever it asks.              *)
LEMMA GrantStep ==
  ASSUME LaneInv, NEW S \in SUBSET {GPU, ACC}, NEW other,
         Grant(cpuAvail \cup S, Bits(other)),
         Adp!Cycle(word, sel(cpuAvail \cup S) = CPU, {}, Core!respReady)
  PROVE  LaneInv'
<1> DEFINE avail == cpuAvail \cup S
<1>1. avail \in SUBSET Port /\ avail # {} /\ rr \in Port
  BY DEF Grant, cpuAvail, Port, LaneInv, Handshake
<1>2. PICK g \in Port : g = sel(avail) /\ g \in avail
                      /\ (cpu_priority /\ CPU \in avail => g = CPU)
  BY <1>1, Selection
<1>3. /\ Accept(Bits(other)[g])
      /\ src_cpu' = (g = CPU) /\ rr' = g /\ mode' = mode
  BY <1>2 DEF Grant
<1>4. /\ rAddr' = Bits(other)[g].addr /\ rData' = Bits(other)[g].data
      /\ rW' = Bits(other)[g].isWrite /\ cells' = cells
      /\ InService' /\ ~ InService
  BY <1>3 DEF Accept, reqReady, InService
<1>5. ~ Waiting
  BY <1>4 DEF LaneInv, Handshake
<1>6. CASE g = CPU
  <2>1. CPU \in cpuAvail
    BY <1>2, <1>6 DEF CPU, GPU, ACC
  <2>2. cState \in {"s_rdreq", "s_wrreq"}
    BY <2>1 DEF cpuAvail, Adp!hbmReqValid
  <2>3. Adp!ReqFire
    BY <1>2, <1>6, <2>2 DEF Adp!Cycle, Adp!TakeWord, Adp!ReadResp,
       Adp!WriteResp, Adp!WordTaken, Adp!wordReqReady, Adp!wordRespValid,
       Adp!hbmReqValid
  <2>4. Bits(other)[g] = Adp!hbmReq
    BY <1>6 DEF Bits
  <2>5. /\ rAddr' = Adp!hbmReq.addr /\ rW' = (cState = "s_wrreq")
        /\ cState = "s_wrreq" => rData' = Adp!merged
    <3>1. /\ Adp!hbmReq.isWrite = (cState = "s_wrreq")
          /\ cState = "s_wrreq" => Adp!hbmReq.data = Adp!merged
      BY DEF Adp!hbmReq
    <3> QED BY <1>4, <2>4, <3>1
  <2>6. /\ UNCHANGED <<addrReg, dataReg, isWrReg, sizeReg, lineReg, offReg>>
        /\ cState' = IF cState = "s_rdreq" THEN "s_rdresp" ELSE "s_wrresp"
    BY <2>3 DEF Adp!ReqFire
  <2>7. Adp!hbmReq.addr' = Adp!hbmReq.addr /\ Adp!merged' = Adp!merged
    BY <2>6, RequestKept
  <2>8. Handshake'
    BY <1>3, <1>4, <1>6, <2>2, <2>5, <2>6, <2>7
       DEF LaneInv, Handshake, Waiting
  <2>9. NothingBetween'
    BY <1>3, <1>4, <2>2, <2>6, <2>7
       DEF LaneInv, NothingBetween, FetchedLineCurrent, cpu_priority
  <2> QED BY <2>8, <2>9 DEF LaneInv
<1>7. CASE g # CPU
  <2>1. Adp!Cycle(word, FALSE, {}, Core!respReady)
    BY <1>2, <1>7
  <2>2. cpu_priority => cState \notin {"s_rdreq", "s_wrreq"}
    BY <1>2, <1>7 DEF cpuAvail, Adp!hbmReqValid
  <2>3. \/ UNCHANGED Adp!adpVars
        \/ /\ cState = "s_idle" /\ cState' = "s_rdreq"
        \/ /\ cState = "s_rsp" /\ cState' = "s_idle"
    BY <2>1, AdapterAlone
  <2>4. src_cpu' = FALSE /\ ~ Waiting'
    BY <1>3, <1>5, <1>7, <2>3 DEF Waiting, Adp!adpVars
  <2>5. Handshake'
    BY <1>3, <2>3, <2>4 DEF LaneInv, Handshake, Adp!adpVars
  <2>6. NothingBetween'
    BY <1>3, <1>5, <2>2, <2>3, <2>4 DEF NothingBetween, FetchedLineCurrent,
       cpu_priority, Waiting, Adp!adpVars
  <2> QED BY <2>5, <2>6 DEF LaneInv
<1> QED BY <1>6, <1>7

(* A cycle without grant or response. *)
LEMMA QuietStep ==
  ASSUME LaneInv, NoRequest(cpuAvail) \/ Busy,
         Adp!Cycle(word, FALSE, {}, Core!respReady)
  PROVE  LaneInv'
<1>1. /\ UNCHANGED <<cells, rAddr, rData, rW, rr, src_cpu, src_gpu, mode>>
      /\ InService' <=> InService
  BY QuietCycle
<1>2. CASE UNCHANGED Adp!adpVars
  <2>1. UNCHANGED <<cState, addrReg, dataReg, isWrReg, sizeReg, lineReg, offReg>>
    BY <1>2 DEF Adp!adpVars
  <2>2. Adp!hbmReq.addr' = Adp!hbmReq.addr /\ Adp!merged' = Adp!merged
    BY <2>1, RequestKept
  <2>3. Handshake'
    BY <1>1, <2>1, <2>2 DEF LaneInv, Handshake, Waiting
  <2>4. NothingBetween'
    BY <1>1, <2>1, <2>2
       DEF LaneInv, NothingBetween, FetchedLineCurrent, cpu_priority
  <2> QED BY <2>3, <2>4 DEF LaneInv
<1>3. CASE \/ cState = "s_idle" /\ cState' = "s_rdreq"
           \/ cState = "s_rsp" /\ cState' = "s_idle"
  BY <1>1, <1>3 DEF LaneInv, Handshake, NothingBetween, FetchedLineCurrent,
     Waiting
<1> QED BY <1>2, <1>3, AdapterAlone

(* A response: the adapter takes its own in the cycle it is offered, and   *)
(* sees none of the others.                                                *)
LEMMA ResponseStep ==
  ASSUME LaneInv, Respond(respReady),
         Adp!Cycle(word, FALSE, cpuResp, Core!respReady)
  PROVE  LaneInv'
<1>1. /\ Command(open_page, respPort \in respReady) /\ InService
      /\ UNCHANGED <<rAddr, rData, rW, rr, src_cpu, src_gpu, mode>>
      /\ cells' = IF rW THEN [cells EXCEPT ![rIdx] = rData] ELSE cells
      /\ state' = IF respPort \in respReady THEN "s_idle" ELSE "s_cmd"
  BY DEF Respond, Command, respValid, InService
<1>2. CASE src_cpu
  <2>1. Waiting /\ cpuResp = {respBits} /\ respPort = CPU
    BY <1>1, <1>2 DEF LaneInv, Handshake, cpuResp, respPort
  <2>2. ~ InService'
    BY <1>1, <2>1 DEF respReady, Adp!hbmRespReady, Waiting, InService
  <2>3. CASE cState = "s_rdresp"
    <3>1. Adp!ReadResp(respBits)
      BY <2>1, <2>3 DEF Adp!Cycle, Adp!TakeWord, Adp!WriteResp,
         Adp!WordTaken, Adp!wordReqReady, Adp!wordRespValid, Adp!hbmRespReady
    <3>2. /\ UNCHANGED <<addrReg, dataReg, isWrReg, sizeReg, offReg>>
          /\ lineReg' = respBits
          /\ cState' = IF isWrReg THEN "s_wrreq" ELSE "s_rsp"
      BY <3>1 DEF Adp!ReadResp
    <3>3. rAddr = Adp!hbmReq.addr /\ rW = FALSE
      BY <2>1, <2>3 DEF LaneInv, Handshake
    <3>4. lineReg' = cells'[cellOf(lineOf(Adp!hbmReq.addr))] /\ cells' = cells
      BY <1>1, <3>2, <3>3 DEF respBits, rIdx
    <3>5. Adp!hbmReq.addr' = Adp!hbmReq.addr
      BY <3>2, RequestKept
    <3>6. Handshake'
      BY <1>1, <2>2, <3>2 DEF LaneInv, Handshake, Waiting
    <3>7. NothingBetween'
      BY <2>2, <3>4, <3>5 DEF NothingBetween, FetchedLineCurrent
    <3> QED BY <3>6, <3>7 DEF LaneInv
  <2>4. CASE cState = "s_wrresp"
    <3>1. Adp!WriteResp
      BY <2>1, <2>4 DEF Adp!Cycle, Adp!TakeWord, Adp!ReadResp,
         Adp!WordTaken, Adp!wordReqReady, Adp!wordRespValid, Adp!hbmRespReady
    <3>2. cState' = "s_rsp"
      BY <3>1 DEF Adp!WriteResp
    <3> QED BY <1>1, <2>2, <3>2 DEF LaneInv, Handshake, NothingBetween,
               FetchedLineCurrent, Waiting
  <2> QED BY <2>1, <2>3, <2>4 DEF Waiting
<1>3. CASE ~ src_cpu
  <2>1. ~ Waiting /\ cpuResp = {}
    BY <1>3 DEF LaneInv, Handshake, cpuResp, respPort, CPU, GPU, ACC
  <2>2. \/ UNCHANGED Adp!adpVars
        \/ /\ cState = "s_idle" /\ cState' = "s_rdreq"
        \/ /\ cState = "s_rsp" /\ cState' = "s_idle"
    BY <2>1, AdapterAlone
  <2>3. ~ Waiting' /\ ~ src_cpu'
    BY <1>1, <1>3, <2>1, <2>2 DEF Waiting, Adp!adpVars
  <2>4. Handshake'
    BY <1>1, <2>2, <2>3 DEF LaneInv, Handshake, Adp!adpVars
  <2>5. cpu_priority => cState # "s_wrreq"
    BY <1>1 DEF LaneInv, NothingBetween
  <2>6. NothingBetween'
    BY <1>1, <2>1, <2>2, <2>3, <2>5 DEF NothingBetween, FetchedLineCurrent,
       cpu_priority, Waiting, Adp!adpVars
  <2> QED BY <2>4, <2>6 DEF LaneInv
<1> QED BY <1>2, <1>3

(* The invariant holds throughout. *)
LEMMA LaneInvariant == LaneSpec => []LaneInv
<1>1. LaneInit => LaneInv
  BY DEF LaneInit, SplitInit, HBMInit, Adp!Init, LaneInv, Handshake,
     NothingBetween, FetchedLineCurrent, Waiting, InService, Port, CPU
<1>2. LaneInv /\ [LaneNext]_laneVars => LaneInv'
  <2> SUFFICES ASSUME LaneInv, [LaneNext]_laneVars PROVE LaneInv'
    OBVIOUS
  <2>1. CASE LaneNext
    <3>1. MemCycle
      BY <2>1 DEF LaneNext
    <3> QED BY <3>1, GrantStep, QuietStep, ResponseStep DEF MemCycle
  <2>2. CASE UNCHANGED laneVars
    <3>1. /\ UNCHANGED <<cells, rAddr, rData, rW, state, rr, src_cpu, mode>>
          /\ UNCHANGED <<cState, addrReg, dataReg, isWrReg, sizeReg, lineReg, offReg>>
      BY <2>2 DEF laneVars, splitVars, hbmVars, Adp!adpVars
    <3>2. Adp!hbmReq.addr' = Adp!hbmReq.addr /\ Adp!merged' = Adp!merged
      BY <3>1, RequestKept
    <3>3. Handshake'
      BY <3>1, <3>2 DEF LaneInv, Handshake, Waiting, InService
    <3>4. NothingBetween'
      BY <3>1, <3>2 DEF LaneInv, NothingBetween, FetchedLineCurrent,
         cpu_priority, InService
    <3> QED BY <3>3, <3>4 DEF LaneInv
  <2> QED BY <2>1, <2>2
<1> QED BY <1>1, <1>2, PTL DEF LaneSpec

(* In the CPU-priority modes the line a store was merged into is still the *)
(* line in memory when it is written back.                                 *)
THEOREM CpuFetchedLineCurrent == LaneSpec => [](cpu_priority => FetchedLineCurrent)
<1>1. LaneInv => (cpu_priority => FetchedLineCurrent)
  BY DEF LaneInv, NothingBetween
<1> QED BY <1>1, LaneInvariant, PTL

(* In those modes a store changes memory in one step, from the line as it  *)
(* is at that step.                                                        *)
THEOREM CpuStoreIsOneStep == LaneSpec => StoreIsOneStep
<1> DEFINE OneStep ==
      cpu_priority /\ respPort = CPU /\ cells' # cells
        => cells' = [cells EXCEPT ![StoreCell] = StoredInto(cells[StoreCell])]
<1>1. LaneInv /\ [LaneNext]_laneVars => [OneStep]_laneVars
  <2> SUFFICES ASSUME LaneInv, LaneNext, cpu_priority, respPort = CPU,
                      cells' # cells
               PROVE  cells' = [cells EXCEPT ![StoreCell] = StoredInto(cells[StoreCell])]
    OBVIOUS
  <2>1. Respond(respReady)
    <3>1. ASSUME NEW S, NEW other, Grant(cpuAvail \cup S, Bits(other))
          PROVE  cells' = cells
      BY <3>1 DEF Grant, Accept
    <3>2. CASE NoRequest(cpuAvail) \/ Busy
      BY <3>2, QuietCycle
    <3> QED BY <3>1, <3>2 DEF LaneNext, MemCycle
  <2>2. /\ InService /\ rW
        /\ cells' = [cells EXCEPT ![rIdx] = rData]
    BY <2>1 DEF Respond, Command, respValid, InService
  <2>3. src_cpu
    BY DEF respPort, CPU, GPU, ACC
  <2>4. /\ cState = "s_wrresp" /\ isWrReg
        /\ rAddr = Adp!hbmReq.addr /\ rData = Adp!merged
    BY <2>2, <2>3 DEF LaneInv, Handshake
  <2>5. lineReg = cells[StoreCell]
    BY <2>4 DEF LaneInv, NothingBetween, FetchedLineCurrent, StoreCell
  <2>6. rIdx = StoreCell
    BY <2>4 DEF rIdx, StoreCell
  <2>7. Adp!merged = StoredInto(lineReg)
    BY DEF Adp!merged, StoredInto
  <2> QED BY <2>2, <2>4, <2>5, <2>6, <2>7
<1> QED BY <1>1, LaneInvariant, PTL DEF LaneSpec, StoreIsOneStep
=============================================================================
