-------------------------- MODULE MemFabricProofs ---------------------------
(***************************************************************************)
(* The arbiter and its stack implement LineMemory, for every geometry,     *)
(* timing and QoS mode, and whatever the ports present.                    *)
(***************************************************************************)
EXTENDS MemFabric, MemoryProofs

(* The captured registers and the tag form a request of the memory. *)
LEMMA CapturedRequest == FabricInv => Captured \in LM!Request
<1> SUFFICES ASSUME FabricInv PROVE Captured \in LM!Request
  OBVIOUS
<1>1. (lineOf(rAddr) % Capacity) \in LineId
  BY DecodeInRange, DecodeAliases DEF FabricInv, HBMTypeOK
<1>2. respPort \in Port
  BY DEF respPort, Port
<1> QED BY <1>1, <1>2 DEF Captured, FabricInv, HBMTypeOK, LM!Request

(* A grant issues one request: the selected port's, which the registers    *)
(* and the tag then hold.                                                  *)
LEMMA GrantIssues ==
  ASSUME FabricInv, NEW avail \in SUBSET Port, NEW bits \in Bits,
         FabricGrant(avail, bits)
  PROVE  /\ FabricInv'
         /\ pending = {} /\ pending' = {Captured'}
         /\ memView' = memView /\ reply' = reply
<1>1. PICK g \in Port : g = sel(avail) /\ g \in avail
  BY Selection DEF FabricGrant, Grant, FabricInv
<1>2. bits[g] \in MemReq
  BY BitsAssumption
<1>3. /\ Accept(bits[g]) /\ avail # {}
      /\ src_cpu' = (g = CPU) /\ src_gpu' = (g = GPU) /\ rr' = g
      /\ mode' = mode
  BY <1>1 DEF FabricGrant, Grant
<1>4. HBMTypeOK'
  BY <1>2, <1>3, TypeAccept DEF FabricInv
<1>5. respPort' = g
  BY <1>3 DEF respPort, Port
<1>6. /\ rAddr' = bits[g].addr /\ rData' = bits[g].data
      /\ rW' = bits[g].isWrite /\ cells' = cells
      /\ state' \in {"s_prech", "s_act", "s_cmd"} /\ reqReady
  BY <1>3 DEF Accept
<1>7. pending = {}
  BY <1>6 DEF FabricInv, reqReady
<1>8. {q \in avail : portReady(q, avail)} = {g}
  BY <1>1, <1>3, <1>6 DEF portReady
<1>9. pending' = {Sent(g, bits)}
  BY <1>7, <1>8 DEF FabricGrant
<1>10. Sent(g, bits) = Captured'
  BY <1>5, <1>6 DEF Sent, Captured
<1>11. src_cpu' \in BOOLEAN /\ src_gpu' \in BOOLEAN /\ rr' \in Port
       /\ mode' \in Mode
  BY <1>3 DEF FabricInv
<1> QED BY <1>4, <1>6, <1>7, <1>9, <1>10, <1>11
        DEF FabricInv, memView, FabricGrant

(* A cycle of the column command performs the captured request. *)
LEMMA CommandPerforms ==
  ASSUME FabricInv, NEW ready \in SUBSET Port, FabricRespond(ready)
  PROVE  /\ FabricInv'
         /\ pending = {Captured}
         /\ memView' = IF rW THEN [memView EXCEPT ![Captured.line] = rData]
                             ELSE memView
         /\ respBits = IF rW THEN ZeroLine ELSE memView[Captured.line]
<1>1. Command(open_page, respPort \in ready)
      /\ rr' = rr /\ src_cpu' = src_cpu /\ src_gpu' = src_gpu /\ mode' = mode
  BY DEF FabricRespond, Respond
<1>2. HBMTypeOK'
  <2>1. open_page \in BOOLEAN /\ (respPort \in ready) \in BOOLEAN
    BY DEF open_page
  <2> QED BY <1>1, <2>1, TypeCommand DEF FabricInv
<1>3. state = "s_cmd" /\ pending = {Captured}
  BY <1>1 DEF Command, respValid, FabricInv
<1>4. Captured' = Captured
  BY <1>1 DEF Command, Captured, respPort
<1>5. pending' = IF state' = "s_cmd" THEN {Captured'} ELSE {}
  BY <1>1, <1>3, <1>4 DEF FabricRespond, Command
<1>6. state' \in {"s_idle", "s_cmd"}
  BY <1>1 DEF Command
<1>7. FabricInv'
  BY <1>1, <1>2, <1>5, <1>6 DEF FabricInv
<1>8. /\ memView' = IF rW THEN [memView EXCEPT ![Captured.line] = rData]
                           ELSE memView
      /\ respBits = IF rW THEN ZeroLine ELSE memView[Captured.line]
  BY <1>1, CommandOnView DEF FabricInv, Captured
<1> QED BY <1>3, <1>7, <1>8

(* The other cycles leave the ports' view alone. *)
LEMMA QuietStutters ==
  ASSUME FabricInv, NoRequest({}) \/ Busy, UNCHANGED <<pending, reply>>
  PROVE  FabricInv' /\ memView' = memView
<1>1. Internal \/ IdleCycle
  BY DEF NoRequest, Busy
<1>2. HBMTypeOK'
  BY <1>1, TypeInternal, TypeIdle DEF FabricInv
<1>3. /\ rAddr' = rAddr /\ rData' = rData /\ rW' = rW /\ cells' = cells
      /\ state \in {"s_prech", "s_act", "s_cmd"} <=>
           state' \in {"s_prech", "s_act", "s_cmd"}
  BY <1>1 DEF Internal, IdleCycle, reqReady, StartRefresh, Count,
     PrechargeDone, ActivateDone, RefreshDone
<1>4. rr' = rr /\ src_cpu' = src_cpu /\ src_gpu' = src_gpu /\ mode' = mode
  BY DEF NoRequest, Busy
<1>5. Captured' = Captured
  BY <1>3, <1>4 DEF Captured, respPort
<1> QED BY <1>2, <1>3, <1>4, <1>5 DEF FabricInv, memView

(* The inductive invariant of the fabric holds throughout. *)
LEMMA FabricInvariant == FabricSpec => []FabricInv
<1>1. FabricInit => FabricInv
  BY TypeInit DEF FabricInit, SplitInit, HBMInit, FabricInv, Port, CPU
<1>2. FabricInv /\ [FabricNext]_fabricVars => FabricInv'
  <2> SUFFICES ASSUME FabricInv, [FabricNext]_fabricVars PROVE FabricInv'
    OBVIOUS
  <2>1. CASE FabricNext
    BY <2>1, GrantIssues, CommandPerforms, QuietStutters DEF FabricNext
  <2>2. CASE UNCHANGED fabricVars
    BY <2>2 DEF fabricVars, splitVars, hbmVars, FabricInv, HBMTypeOK,
       Captured, respPort
  <2> QED BY <2>1, <2>2
<1> QED BY <1>1, <1>2, PTL DEF FabricSpec

(* The ports see LineMemory: responses are routed to their issuers, reads  *)
(* return the last write to the line, and paging, refresh and stalls are   *)
(* invisible.                                                              *)
THEOREM FabricImplementsLineMemory == FabricSpec => ImplementsLineMemory
<1>1. FabricInit => LM!Init
  <2> SUFFICES ASSUME FabricInit PROVE LM!Init
    OBVIOUS
  <2>1. \A l \in LineId : cellOf(l) \in Cell
    BY CellInRange, DecodeAliases DEF LineId
  <2> QED BY <2>1 DEF memView, FabricInit, SplitInit, HBMInit, LM!Init
<1>2. FabricInv /\ FabricInv' /\ [FabricNext]_fabricVars
        => [LM!Next]_(LM!memVars)
  <2> SUFFICES ASSUME FabricInv, FabricInv', [FabricNext]_fabricVars
               PROVE  [LM!Next]_(LM!memVars)
    OBVIOUS
  <2>1. ASSUME NEW avail \in SUBSET Port, NEW bits \in Bits,
               FabricGrant(avail, bits)
        PROVE  LM!Next
    <3>1. (FabricInv => Captured \in LM!Request)'
      BY CapturedRequest, PTL
    <3> DEFINE r == Captured'
    <3>3. r \in LM!Request
      BY <3>1 DEF LM!Request
    <3>2. LM!Issue(r)
      BY <2>1, GrantIssues DEF LM!Issue, memView
    <3> QED BY <3>2, <3>3 DEF LM!Next
  <2>2. ASSUME NEW ready \in SUBSET Port, FabricRespond(ready)
        PROVE  LM!Next
    <3>1. /\ pending = {Captured}
          /\ memView' = IF rW THEN [memView EXCEPT ![Captured.line] = rData]
                              ELSE memView
          /\ respBits = IF rW THEN ZeroLine ELSE memView[Captured.line]
      BY <2>2, CommandPerforms
    <3>2. memView' = LM!Perform(Captured)
      BY <3>1 DEF LM!Perform, memView, Captured
    <3>3. CASE respPort \in ready
      <4>1. LM!Answer(Captured)
        BY <2>2, <3>1, <3>2, <3>3
           DEF LM!Answer, FabricRespond, memView, Captured
      <4> QED BY <3>1, <4>1 DEF LM!Next
    <3>4. CASE respPort \notin ready
      <4>1. LM!Commit(Captured)
        BY <2>2, <3>2, <3>4 DEF LM!Commit, FabricRespond, memView
      <4> QED BY <3>1, <4>1 DEF LM!Next
    <3> QED BY <3>3, <3>4
  <2>3. ASSUME NoRequest({}) \/ Busy, UNCHANGED <<pending, reply>>
        PROVE  UNCHANGED LM!memVars
    BY <2>3, QuietStutters DEF LM!memVars, memView
  <2>4. CASE UNCHANGED fabricVars
    BY <2>4 DEF memView, fabricVars, splitVars, hbmVars, LM!memVars
  <2> QED BY <2>1, <2>2, <2>3, <2>4 DEF FabricNext
<1> QED BY <1>1, <1>2, FabricInvariant, PTL
        DEF FabricSpec, ImplementsLineMemory, LM!Spec
=============================================================================
