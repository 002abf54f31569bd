-------------------------- MODULE ArbiterQoSProofs --------------------------
(***************************************************************************)
(* Fairness and worst-case latency of the arbiter, and the refresh         *)
(* interval of the stack, for every geometry and timing of the stack and   *)
(* every behaviour of the three requesters.                                *)
(***************************************************************************)
EXTENDS ArbiterQoS, RefreshTiming, MemoryProofs

(* The service, refresh and wait times are natural numbers. *)
LEMMA ServiceTimeType ==
  mode \in Mode => /\ ServiceTime \in Nat /\ RefreshTime \in Nat
                   /\ WaitLimit \in Nat /\ Turns(0) = 0
                   /\ Turns(1) = ServiceTime + 1
                   /\ Turns(2) = 2 * ServiceTime + 2
BY HBMAssumption
   DEF ServiceTime, RefreshTime, WaitLimit, Turns, CntMod

(* The straps of a run: the bounds do not move. *)
LEMMA Straps ==
  ASSUME TypeOK, QoSNext
  PROVE  /\ mode' = mode /\ watched' = watched
         /\ ServiceTime' = ServiceTime /\ WaitLimit' = WaitLimit
         /\ cpu_priority' = cpu_priority /\ open_page' = open_page
         /\ Others' = Others
<1>1. mode' = mode /\ watched' = watched
  BY DEF QoSNext, QoSGrant, QoSOther, Grant, NoRequest, Respond, Busy
<1> QED BY <1>1 DEF ServiceTime, WaitLimit, Turns, RefreshTime, cpu_priority,
           open_page, Others

(* What a step does to the stack. *)
LEMMA StackStep ==
  ASSUME TypeOK, QoSNext
  PROVE  \/ Internal \/ IdleCycle
         \/ \E req \in MemReq : Accept(req)
         \/ Command(open_page, TRUE)
<1>1. ASSUME NEW avail \in SUBSET Port, NEW req \in MemReq,
             QoSGrant(avail, [p \in Port |-> req])
      PROVE  Accept(req)
  BY <1>1, Selection DEF QoSGrant, Grant, TypeOK
<1>2. ASSUME NEW avail \in SUBSET Port, QoSOther(avail)
      PROVE  Internal \/ IdleCycle \/ Command(open_page, TRUE)
  <2>1. respPort \in Port
    BY DEF respPort, Port
  <2>2. (respPort \in Port) = TRUE
    BY <2>1
  <2> QED BY <1>2, <2>2 DEF QoSOther, NoRequest, Respond, Busy
<1> QED BY <1>1, <1>2 DEF QoSNext

(* Every step keeps the types of the arbiter and of the observers. *)
LEMMA QoSTypeStep ==
  ASSUME TypeOK, QoSNext
  PROVE  TypeOK'
<1>1. HBMTypeOK'
  BY StackStep, TypeInternal, TypeIdle, TypeAccept, TypeCommand
     DEF TypeOK, open_page
<1>2. rr' \in Port /\ src_cpu' \in BOOLEAN /\ src_gpu' \in BOOLEAN
  BY Selection DEF TypeOK, QoSNext, QoSGrant, QoSOther, Grant, NoRequest,
     Respond, Busy
<1>3. WaitLimit \in Nat
  BY ServiceTimeType DEF TypeOK
<1>4. wait' \in 0 .. WaitLimit + 1
  BY <1>3 DEF TypeOK, QoSNext, QoSGrant, QoSOther, Longer
<1>5. bypass' \in [Port -> 0 .. BypassCap]
  BY DEF TypeOK, QoSNext, QoSGrant, QoSOther, Passed, BypassCap
<1> QED BY <1>1, <1>2, <1>4, <1>5, Straps DEF TypeOK

(* A port granted while the watched one waits goes behind it. *)
LEMMA BehindStep ==
  ASSUME QoSInv, QoSNext
  PROVE  BehindWatched'
<1> USE DEF QoSInv
<1>1. ASSUME NEW avail \in SUBSET Port, NEW req \in MemReq,
             QoSGrant(avail, [p \in Port |-> req]),
             watched \in avail, sel(avail) # watched
      PROVE  BehindWatched'
  <2> DEFINE g == sel(avail)
  <2>1. /\ g \in Port /\ g # watched /\ rr' = g /\ bypass' = Passed(g)
        /\ avail # {}
    BY <1>1, Selection DEF QoSGrant, Grant, TypeOK
  <2>2. bypass'[watched] = 0
    BY <2>1 DEF Passed, BehindWatched, TypeOK
  <2>3. ASSUME NEW p \in Others, TakesTurns(p), bypass'[p] > 0
        PROVE  bypass'[p] = 1 /\ Distance(watched, g, 3) < Distance(p, g, 3)
    <3>1. CASE cpu_priority /\ CPU \in avail
      <4>1. g = CPU /\ watched = GPU /\ p = ACC
        BY <2>1, <2>3, <3>1, Selection DEF TypeOK, TakesTurns
      <4>2. bypass'[p] = bypass[p]
        BY <2>1, <4>1 DEF Passed, Port, CPU, ACC
      <4> QED BY <2>3, <4>1, <4>2
              DEF BehindWatched, Distance, CPU, GPU, ACC
    <3>2. CASE ~ (cpu_priority /\ CPU \in avail)
      <4>1. Distance(g, rr, 3) <= Distance(watched, rr, 3)
        BY <1>1, <2>1, <3>2, Selection DEF TypeOK
      <4>2. /\ rr \in 0 .. 2 /\ g \in 0 .. 2 /\ watched \in 0 .. 2
            /\ p \in 0 .. 2 /\ p \in Port
        BY <2>1, PortIsRange DEF TypeOK, Others
      <4> HIDE DEF g
      <4>3. Distance(g, rr, 3) < Distance(watched, rr, 3)
        BY <2>1, <4>1, <4>2 DEF Distance
      <4>4. /\ Distance(watched, g, 3) < Distance(g, g, 3)
            /\ Distance(watched, rr, 3) < Distance(p, rr, 3)
                 => Distance(watched, g, 3) < Distance(p, g, 3)
        BY <4>2, <4>3, RotationKeepsOrder
      <4>5. CASE p = g
        <5>1. bypass[p] \in 0 .. BypassCap /\ ~ (bypass[p] > 0)
          <6>1. ~ (Distance(watched, rr, 3) < Distance(p, rr, 3))
            BY <4>2, <4>3, <4>5 DEF Distance
          <6> QED BY <2>3, <4>2, <6>1 DEF BehindWatched, TypeOK
        <5>2. bypass'[p] = 1
          BY <2>1, <4>2, <4>5, <5>1 DEF Passed, BypassCap
        <5> QED BY <4>4, <4>5, <5>2
      <4>6. CASE p # g
        <5>1. bypass'[p] = bypass[p]
          BY <2>1, <4>2, <4>6 DEF Passed
        <5> QED BY <2>3, <4>4, <5>1 DEF BehindWatched
      <4> QED BY <4>5, <4>6
    <3> QED BY <3>1, <3>2
  <2>4. \A p \in Port : TakesTurns(p)' = TakesTurns(p)
    BY Straps DEF TakesTurns
  <2> QED BY <2>1, <2>2, <2>3, <2>4, Straps DEF BehindWatched, Others
<1>2. CASE bypass' = [p \in Port |-> 0]
  BY <1>2, Straps DEF BehindWatched, TypeOK, Others
<1>3. CASE bypass' = bypass /\ rr' = rr
  <2>1. \A p \in Port : TakesTurns(p)' = TakesTurns(p)
    BY Straps DEF TakesTurns
  <2> QED BY <1>3, <2>1, Straps DEF BehindWatched, Others
<1> QED BY <1>1, <1>2, <1>3
        DEF QoSNext, QoSGrant, QoSOther, NoRequest, Respond, Busy

(* The stack's two counters, and the limits they are compared with. *)
LEMMA TimerRange ==
  TypeOK =>
    /\ refCnt \in Nat /\ cnt \in Nat
    /\ tPRE \in 1 .. 31 /\ tACT \in 1 .. 31 /\ tREF \in 1 .. 31
    /\ state = "s_prech" => cnt < tPRE
    /\ state = "s_act" => cnt < tACT
    /\ state = "s_ref" => cnt <= tREF
<1>1. tPRE \in 1 .. 31 /\ tACT \in 1 .. 31 /\ tREF \in 1 .. 31
  BY HBMAssumption DEF CntMod
<1> QED BY <1>1 DEF TypeOK, HBMTypeOK

(* The stack is ready after at most one transaction, or the rest of a      *)
(* refresh.                                                                *)
LEMMA ToReadyBound ==
  TypeOK /\ (~ open_page => PagesClosed) =>
    /\ ToReady \in Nat
    /\ state = "s_ref" => ToReady <= tREF + 1
    /\ state # "s_ref" => ToReady <= ServiceTime
<1> SUFFICES ASSUME TypeOK, ~ open_page => PagesClosed
             PROVE  /\ ToReady \in Nat
                    /\ state = "s_ref" => ToReady <= tREF + 1
                    /\ state # "s_ref" => ToReady <= ServiceTime
  OBVIOUS
<1>2. CASE state = "s_prech"
  <2>1. open_page
    BY <1>2 DEF PagesClosed
  <2>2. tPRE \in Nat /\ tACT \in Nat /\ cnt \in Nat /\ cnt < tPRE
    BY <1>2, TimerRange
  <2>3. ToReady = tPRE - cnt + tACT + 1 /\ ServiceTime = tPRE + tACT + 1
    BY <1>2, <2>1 DEF ToReady, ServiceTime
  <2> QED BY <1>2, <2>2, <2>3
<1>3. CASE state = "s_act"
  BY <1>3, TimerRange DEF ToReady, ServiceTime
<1>4. CASE state = "s_ref"
  BY <1>4, TimerRange DEF ToReady
<1>5. CASE state \in {"s_idle", "s_cmd"}
  BY <1>5, TimerRange DEF ToReady, ServiceTime
<1> QED BY <1>2, <1>3, <1>4, <1>5 DEF TypeOK, HBMTypeOK

(* At most two ports are still to be let past. *)
LEMMA TurnsLeftRange ==
  TypeOK /\ BehindWatched => TurnsLeft \in 0 .. 2
<1> SUFFICES ASSUME TypeOK, BehindWatched, ~ cpu_priority
             PROVE  TurnsLeft \in 0 .. 2
  BY DEF TurnsLeft
<1>1. \A p \in Port : bypass[p] \in {0, 1, 2}
  BY DEF TypeOK, BypassCap
<1>2. \A p \in Port : bypass[p] \in {0, 1} /\ (p = watched => bypass[p] = 0)
  BY <1>1 DEF BehindWatched, Others, TakesTurns
<1> QED BY <1>2 DEF TypeOK, TurnsLeft, Port, CPU, GPU, ACC

(* Every step keeps the wait within its budget, one case per kind of       *)
(* cycle.                                                                  *)
LEMMA BudgetStep ==
  ASSUME QoSInv, QoSNext, TypeOK', (~ open_page => PagesClosed)', BehindWatched',
         ~ cpu_priority \/ watched = CPU
  PROVE  WaitBudget'
<1> DEFINE Top == IF cpu_priority THEN 0 ELSE 2
<1>1. /\ ServiceTime \in Nat /\ RefreshTime \in Nat /\ tREF \in Nat
      /\ RefreshTime = tREF + 2 /\ tREF >= 3
  BY ServiceTimeType, HBMAssumption, RefreshAssumption
     DEF QoSInv, TypeOK, RefreshTime, CntMod
<1>2. Turns(0) = 0 /\ Turns(1) = ServiceTime + 1 /\ Turns(2) = 2 * ServiceTime + 2
  BY ServiceTimeType DEF QoSInv, TypeOK
<1>3. ServiceTime' = ServiceTime /\ cpu_priority' = cpu_priority
      /\ RefreshTime' = RefreshTime /\ watched' = watched
  BY Straps DEF QoSInv, RefreshTime
<1>p1. PICK t0 \in Nat : t0 = ToReady
  BY ToReadyBound DEF QoSInv
<1>p2. PICK n0 \in 0 .. 2 : n0 = TurnsLeft
  BY TurnsLeftRange DEF QoSInv
<1>p3. PICK c0 \in Nat : c0 = IF RefreshDue THEN RefreshTime ELSE 0
  BY <1>1
<1>p4. PICK w0 \in Nat : w0 = wait
  BY ServiceTimeType DEF QoSInv, TypeOK
<1>5. /\ ToReady' \in Nat /\ TurnsLeft' \in 0 .. 2
      /\ state' = "s_ref" => ToReady' <= tREF + 1
      /\ state' # "s_ref" => ToReady' <= ServiceTime
  <2>1. (TypeOK /\ BehindWatched => TurnsLeft \in 0 .. 2)'
    BY TurnsLeftRange, PTL
  <2>2. (TypeOK /\ (~ open_page => PagesClosed) =>
           /\ ToReady \in Nat
           /\ state = "s_ref" => ToReady <= tREF + 1
           /\ state # "s_ref" => ToReady <= ServiceTime)'
    BY ToReadyBound, PTL
  <2> QED BY <1>3, <2>1, <2>2
<1>q1. PICK t \in Nat : t = ToReady'
  BY <1>5
<1>q2. PICK n \in 0 .. 2 : n = TurnsLeft'
  BY <1>5
<1>q3. PICK c \in Nat : c = IF RefreshDue' THEN RefreshTime ELSE 0
  BY <1>1
<1>q4. PICK w \in Nat : w = wait'
  BY ServiceTimeType, Straps DEF QoSInv, TypeOK
<1>6. /\ state' = "s_ref" => t <= tREF + 1
      /\ state' # "s_ref" => t <= ServiceTime
  BY <1>5, <1>q1
<1>7. \A k \in 0 .. 2 : Turns(k) \in Nat
  BY <1>1, <1>2
<1>8. Top \in 0 .. 2
  OBVIOUS
<1>k1. PICK S \in Nat : S = ServiceTime
  BY <1>1
<1>k2. PICK R \in Nat : R = RefreshTime
  BY <1>1
<1>k3. PICK x \in Nat : x = Turns(Top)
  BY <1>7, <1>8
<1>k4. PICK y0 \in Nat : y0 = Turns(n0)
  BY <1>7
<1>k5. PICK y \in Nat : y = Turns(n)
  BY <1>7
<1>a. w0 + t0 + y0 + c0 <= S + R + x
  BY <1>p1, <1>p2, <1>p3, <1>p4, <1>k1, <1>k2, <1>k3, <1>k4 DEF QoSInv, WaitBudget
<1>b. R = tREF + 2
  BY <1>1, <1>k2
<1>c. /\ state' = "s_ref" => t <= tREF + 1
      /\ state' # "s_ref" => t <= S
  BY <1>6, <1>k1
<1> SUFFICES w + t + y + c <= S + R + x
  BY <1>3, <1>q1, <1>q2, <1>q3, <1>q4, <1>k1, <1>k2,
     <1>k3, <1>k5 DEF WaitBudget, Turns
<1>9. CASE wait' = 0 /\ bypass' = [p \in Port |-> 0]
  <2>1. n = Top
    BY <1>3, <1>9, <1>q2 DEF TurnsLeft, Port, CPU, GPU, ACC
  <2>2. t + c <= S + R
    <3>1. CASE state' = "s_ref"
      <4>1. c = 0
        BY <3>1, <1>q3 DEF RefreshDue
      <4> QED BY <1>1, <1>b, <1>c, <3>1, <4>1
    <3>2. CASE state' # "s_ref"
      <4>1. c <= R
        BY <1>q3, <1>k2
      <4> QED BY <1>c, <3>2, <4>1
    <3> QED BY <3>1, <3>2
  <2>3. y = x
    BY <2>1, <1>k3, <1>k5
  <2>4. w = 0
    BY <1>9, <1>q4
  <2> QED BY <2>2, <2>3, <2>4
<1>10. ASSUME NEW avail \in SUBSET Port, QoSOther(avail), watched \in avail,
              bypass' = bypass
       PROVE  w + t + y + c <= S + R + x
  <2>1. w <= w0 + 1
    <3>1. wait' = Longer
      BY <1>10 DEF QoSOther
    <3> QED BY <1>p4, <1>q4, <3>1 DEF Longer
  <2>2. n = n0
    BY <1>3, <1>10, <1>p2, <1>q2 DEF TurnsLeft
  <2>3. t + c + 1 <= t0 + c0
    <3>1. CASE StartRefresh
      <4>1. c0 = RefreshTime /\ c = 0
        BY <3>1, <1>p2, <1>p3, <1>q3 DEF StartRefresh, RefreshDue
      <4>2. t = tREF + 1
        BY <1>1, <1>q1, <3>1 DEF StartRefresh, ToReady
      <4> QED BY <1>1, <1>b, <1>k2, <4>1, <4>2
    <3>2. CASE RefreshDone
      <4>1. c = 0
        BY <1>1, <1>q2, <1>q3, <3>2 DEF RefreshDone, RefreshDue
      <4>2. t = 0 /\ t0 = 1
        BY <1>1, <1>p1, <1>q1, <3>2 DEF RefreshDone, ToReady
      <4> QED BY <4>1, <4>2
    <3>3. CASE \/ Count("s_prech", tPRE - 1) \/ Count("s_act", tACT - 1)
               \/ Count("s_ref", tREF)
      <4>1. state' = state /\ refCnt' = refCnt /\ cnt' = cnt + 1 /\ cnt \in Nat
        <5>0. TypeOK
          BY DEF QoSInv
        <5>1. /\ state' = state /\ refCnt' = refCnt /\ cnt' = (cnt + 1) % 32
              /\ \/ state = "s_prech" /\ cnt # tPRE - 1
                 \/ state = "s_act" /\ cnt # tACT - 1
                 \/ state = "s_ref" /\ cnt # tREF
          BY <3>3 DEF Count, CntMod
        <5>2. cnt \in 0 .. 30
          <6>1. CASE state = "s_prech"
            BY <5>0, <5>1, <6>1, TimerRange
          <6>2. CASE state = "s_act"
            BY <5>0, <5>1, <6>2, TimerRange
          <6>3. CASE state = "s_ref"
            BY <5>0, <5>1, <6>3, TimerRange
          <6> QED BY <5>1, <6>1, <6>2, <6>3
        <5> QED BY <5>1, <5>2
      <4>2. c = c0
        BY <1>p2, <1>q2, <1>p3, <1>q3, <2>2, <4>1 DEF RefreshDue
      <4>3. t = t0 - 1
        <5>0. tPRE \in Nat /\ tACT \in Nat
          BY TimerRange DEF QoSInv
        <5>1. CASE state = "s_prech"
          BY <1>p1, <1>q1, <4>1, <5>0, <5>1 DEF ToReady
        <5>2. CASE state = "s_act"
          BY <1>p1, <1>q1, <4>1, <5>0, <5>2 DEF ToReady
        <5>3. CASE state = "s_ref"
          BY <1>1, <1>p1, <1>q1, <4>1, <5>3 DEF ToReady
        <5> QED BY <3>3, <5>1, <5>2, <5>3 DEF Count
      <4> QED BY <4>2, <4>3
    <3>4. CASE PrechargeDone \/ ActivateDone \/ Command(open_page, TRUE)
      <4>1. state # "s_ref" /\ state' # "s_ref" /\ refCnt' = refCnt
        BY <3>4 DEF PrechargeDone, ActivateDone, Command, respValid
      <4>2. c = c0
        BY <1>p2, <1>q2, <1>p3, <1>q3, <2>2, <4>1 DEF RefreshDue
      <4>3. t = t0 - 1
        <5>1. CASE PrechargeDone
          BY <1>p1, <1>q1, <5>1, TimerRange DEF QoSInv, PrechargeDone, ToReady
        <5>2. CASE ActivateDone
          BY <1>p1, <1>q1, <5>2, TimerRange DEF QoSInv, ActivateDone, ToReady
        <5>3. CASE Command(open_page, TRUE)
          <6>1. state = "s_cmd" /\ state' = "s_idle"
            BY <5>3 DEF Command, respValid
          <6> QED BY <1>p1, <1>q1, <6>1 DEF ToReady
        <5> QED BY <3>4, <5>1, <5>2, <5>3
      <4> QED BY <4>2, <4>3
    <3>5. ~ NoRequest(avail)
      BY <1>10 DEF NoRequest
    <3>6. Respond(Port) => Command(open_page, TRUE)
      <4>1. (respPort \in Port) = TRUE
        BY DEF respPort, Port
      <4> QED BY <4>1 DEF Respond
    <3> QED BY <1>10, <3>1, <3>2, <3>3, <3>4, <3>5, <3>6
            DEF QoSOther, Busy, Internal
  <2>4. y = y0
    BY <2>2, <1>k4, <1>k5
  <2> QED BY <1>a, <2>1, <2>3, <2>4
<1>11. ASSUME NEW avail \in SUBSET Port, NEW req \in MemReq,
              QoSGrant(avail, [p \in Port |-> req]),
              watched \in avail, sel(avail) # watched
       PROVE  w + t + y + c <= S + R + x
  <2>1. avail # {} /\ sel(avail) \in Port /\ ~ cpu_priority
    BY <1>11, Selection DEF QoSInv, TypeOK
  <2>0. PICK g \in Port : g = sel(avail)
    BY <2>1
  <2>2. /\ g # watched /\ bypass' = Passed(g)
        /\ state = "s_idle" /\ refCnt' = refCnt - 1 /\ state' # "s_ref"
    BY <1>11, <2>0 DEF QoSGrant, Grant, Accept, reqReady
  <2>3. w <= w0 + 1
    <3>1. wait' = Longer
      BY <1>11 DEF QoSGrant
    <3> QED BY <1>p4, <1>q4, <3>1 DEF Longer
  <2>4. n = n0 - 1
    <3>1. g \in Others /\ TakesTurns(g) /\ bypass[g] \in 0 .. 2
      BY <2>1, <2>2 DEF Others, TakesTurns, QoSInv, TypeOK, BypassCap
    <3>2. bypass[g] = 0
      <4>1. CASE bypass[g] > 0
        <5>1. bypass[g] = 1
          BY <3>1, <4>1 DEF QoSInv, BehindWatched
        <5>2. bypass'[g] = 2
          BY <2>2, <5>1 DEF Passed, BypassCap
        <5>3. g \in Others' /\ TakesTurns(g)'
          BY <1>3, <3>1 DEF Others, TakesTurns
        <5>4. bypass'[g] = 1
          BY <5>2, <5>3 DEF BehindWatched
        <5> QED BY <5>2, <5>4
      <4> QED BY <3>1, <4>1
    <3>3. bypass'[g] = 1 /\ \A p \in Port : p # g => bypass'[p] = bypass[p]
      BY <2>2, <3>2 DEF Passed, BypassCap
    <3>4. \A p \in Port : bypass[p] \in Nat
      BY DEF QoSInv, TypeOK, BypassCap
    <3> QED BY <1>3, <1>p2, <1>q2, <2>1, <3>2, <3>3, <3>4 DEF TurnsLeft, Port, CPU, GPU, ACC
  <2>5. t0 = 0 /\ t <= S
    BY <1>c, <1>p1, <2>2 DEF ToReady
  <2>6. c = c0
    <3>1. refCnt \in Nat
      BY TimerRange DEF QoSInv
    <3>2. refCnt' <= n <=> refCnt <= n0
      BY <2>2, <2>4, <3>1
    <3>3. RefreshDue' = RefreshDue
      BY <1>p2, <1>q2, <2>2, <3>2 DEF RefreshDue
    <3> QED BY <1>p3, <1>q3, <3>3
  <2>7. y = y0 - (S + 1)
    BY <1>1, <1>2, <1>k1, <1>k4, <1>k5, <2>4
  <2> QED BY <1>a, <2>3, <2>5, <2>6, <2>7
<1> QED BY <1>9, <1>10, <1>11 DEF QoSNext, QoSGrant, QoSOther
----------------------------------------------------------------------------
(* The inductive invariant holds at reset. *)
LEMMA QoSInvInit == QoSInit => QoSInv
<1> SUFFICES ASSUME QoSInit PROVE QoSInv
  OBVIOUS
<1> USE DEF QoSInit, SplitInit
<1>1. TypeOK
  <2>1. HBMTypeOK /\ mode \in Mode /\ watched \in Port
    BY TypeInit
  <2>2. wait \in 0 .. WaitLimit + 1
    BY <2>1, ServiceTimeType
  <2>3. bypass \in [Port -> 0 .. BypassCap]
    BY DEF BypassCap
  <2>4. rr \in Port /\ src_cpu \in BOOLEAN /\ src_gpu \in BOOLEAN
    BY DEF Port, CPU
  <2> QED BY <2>1, <2>2, <2>3, <2>4 DEF TypeOK
<1>2. ~ open_page => PagesClosed
  BY PagesClosedInit
<1>3. BehindWatched
  BY DEF BehindWatched, Others
<1>4. WaitBudget
  <2>1. ToReady = 0 /\ refCnt = tREF /\ wait = 0
    BY DEF HBMInit, ToReady
  <2>2. TurnsLeft = IF cpu_priority THEN 0 ELSE 2
    BY DEF TurnsLeft, Port, CPU, GPU, ACC
  <2>3. ~ RefreshDue
    BY <2>1, <2>2, HBMAssumption, RefreshAssumption DEF RefreshDue, CntMod
  <2>4. /\ ServiceTime \in Nat /\ RefreshTime \in Nat
        /\ Turns(0) \in Nat /\ Turns(2) \in Nat
    BY ServiceTimeType
  <2> QED BY <2>1, <2>2, <2>3, <2>4 DEF WaitBudget
<1> QED BY <1>1, <1>2, <1>3, <1>4 DEF QoSInv

(* Every cycle preserves the inductive invariant. *)
LEMMA QoSInvStep == QoSInv /\ [QoSNext]_allVars => QoSInv'
<1> SUFFICES ASSUME QoSInv, [QoSNext]_allVars PROVE QoSInv'
  OBVIOUS
<1>1. CASE UNCHANGED allVars
  BY <1>1
     DEF allVars, splitVars, hbmVars, history, QoSInv, TypeOK, HBMTypeOK,
         WaitLimit, ServiceTime, RefreshTime, Turns, open_page, PagesClosed,
         rBank, BehindWatched, Others, TakesTurns, cpu_priority, WaitBudget,
         ToReady, TurnsLeft, RefreshDue
<1>2. CASE QoSNext
  <2>1. TypeOK'
    BY <1>2, QoSTypeStep DEF QoSInv
  <2>2. (~ open_page => PagesClosed)'
    <3>1. SUFFICES ASSUME ~ open_page PROVE PagesClosed'
      BY <1>2, Straps DEF QoSInv
    <3>2. open_page = FALSE
      BY <3>1 DEF open_page
    <3> QED BY <1>2, <3>1, <3>2, StackStep, PagesClosedStep
            DEF QoSInv, TypeOK
  <2>3. BehindWatched'
    BY <1>2, BehindStep
  <2>4. WaitBudget'
    <3>1. CASE ~ cpu_priority \/ watched = CPU
      BY <1>2, <2>1, <2>2, <2>3, <3>1, BudgetStep
    <3>2. CASE ~ (~ cpu_priority \/ watched = CPU)
      BY <1>2, <3>2, Straps DEF QoSInv, WaitBudget, CPU
    <3> QED BY <3>1, <3>2
  <2> QED BY <2>1, <2>2, <2>3, <2>4 DEF QoSInv
<1> QED BY <1>1, <1>2

(* The inductive invariant holds throughout. *)
LEMMA QoSInvariant == QoSSpec => []QoSInv
BY QoSInvInit, QoSInvStep, PTL DEF QoSSpec

(* The pointer rr always names a port and the tags, the stack and the      *)
(* observers stay in their ranges.                                         *)
THEOREM ArbiterTypeCorrect == QoSSpec => []TypeOK
<1>1. QoSInv => TypeOK
  BY DEF QoSInv
<1> QED BY QoSInvariant, <1>1, PTL

(* In the fair modes no port is granted twice while another waits, and the *)
(* accelerator never overtakes the GPU twice in any mode.                  *)
THEOREM ArbiterRoundRobin == QoSSpec => []RoundRobinFair
<1>1. QoSInv => RoundRobinFair
  <2> SUFFICES ASSUME QoSInv, NEW p \in Others, TakesTurns(p)
               PROVE  bypass[p] <= 1
    BY DEF RoundRobinFair
  <2>1. bypass[p] \in 0 .. 2
    BY DEF QoSInv, TypeOK, Others, BypassCap
  <2>2. bypass[p] > 0 => bypass[p] = 1
    BY DEF QoSInv, BehindWatched
  <2> QED BY <2>1, <2>2
<1> QED BY QoSInvariant, <1>1, PTL

(* A request is granted within a bounded number of cycles: any port's in   *)
(* the fair modes, the CPU's in the priority modes.                        *)
THEOREM ArbiterLatency == QoSSpec => []WaitBound
<1>1. QoSInv => WaitBound
  <2> SUFFICES ASSUME QoSInv, ~ cpu_priority \/ watched = CPU
               PROVE  wait <= ServiceTime + RefreshTime
                                + Turns(IF cpu_priority THEN 0 ELSE 2)
    BY ServiceTimeType DEF WaitBound, WaitLimit, QoSInv, TypeOK
  <2> DEFINE Top == IF cpu_priority THEN 0 ELSE 2
             Cost == IF RefreshDue THEN RefreshTime ELSE 0
  <2>1. wait + ToReady + Turns(TurnsLeft) + Cost
          <= ServiceTime + RefreshTime + Turns(Top)
    BY DEF QoSInv, WaitBudget
  <2>2. ServiceTime \in Nat /\ RefreshTime \in Nat /\ wait \in Nat
    BY ServiceTimeType DEF QoSInv, TypeOK
  <2>3. \A k \in 0 .. 2 : Turns(k) \in Nat
    BY <2>2, ServiceTimeType DEF QoSInv, TypeOK
  <2>4. ToReady \in Nat /\ TurnsLeft \in 0 .. 2 /\ Top \in 0 .. 2
    BY ToReadyBound, TurnsLeftRange DEF QoSInv
  <2>5. Turns(TurnsLeft) \in Nat /\ Turns(Top) \in Nat /\ Cost \in Nat
    BY <2>2, <2>3, <2>4
  <2> HIDE DEF Top, Cost
  <2>6. wait <= ServiceTime + RefreshTime + Turns(Top)
    BY <2>1, <2>2, <2>4, <2>5
  <2> QED BY <2>6 DEF Top
<1> QED BY QoSInvariant, <1>1, PTL

----------------------------------------------------------------------------
(* The refresh interval (module RefreshTiming). *)

(* The longest transaction takes at least an activation. *)
LEMMA TransactionType ==
  keepOpen \in BOOLEAN => Transaction \in Nat /\ Transaction >= tACT + 2
BY HBMAssumption DEF Transaction, CntMod

(* One tick less of the refresh counter is one transaction less. *)
LEMMA TickOfProduct == \A r, t \in Int : (r - 1) * t = r * t - t
OBVIOUS

(* Every cycle keeps the types of the stack. *)
LEMMA TimingTypeStep ==
  ASSUME TimingInv, TimingNext
  PROVE  HBMTypeOK'
BY TypeInternal, TypeIdle, TypeAccept, TypeCommand DEF TimingInv, TimingNext, Ageing

(* Every cycle keeps the refresh budget, one case per state. *)
LEMMA RefreshBudgetStep ==
  ASSUME TimingInv, TimingNext
  PROVE  RefreshBudget'
<1>0. /\ keepOpen' = keepOpen /\ Transaction' = Transaction
      /\ Transaction \in Nat /\ Transaction >= tACT + 2
  BY TransactionType DEF TimingNext, Ageing, TimingInv, Transaction
<1> DEFINE T == Transaction
           U == refCnt * T
           B == tREF * T
<1>1. U \in Int /\ B \in Int /\ (refCnt - 1) * T = U - T
  BY <1>0, TickOfProduct, HBMAssumption DEF TimingInv, HBMTypeOK, CntMod
<1>2. /\ age \in Nat /\ cnt \in Nat /\ age' = (IF state = "s_ref" THEN 0 ELSE age + 1)
      /\ tPRE \in Nat /\ tACT \in Nat
      /\ state # "s_ref" => age + Remaining + U <= B
  BY HBMAssumption DEF TimingInv, HBMTypeOK, RefreshBudget, TimingNext, Ageing, CntMod
<1> SUFFICES ASSUME state' # "s_ref"
             PROVE  age' + Remaining' + refCnt' * T <= B
  BY <1>0 DEF RefreshBudget
<1>3. ASSUME NEW req \in MemReq, Accept(req)
      PROVE  age' + Remaining' + refCnt' * T <= B
  <2>1. age' = age + 1 /\ age + U <= B /\ refCnt' * T = U - T
    BY <1>1, <1>2, <1>3 DEF Accept, reqReady, Remaining
  <2>2. Remaining' <= T - 1 /\ Remaining' \in Int
    <3>1. CASE state' = "s_prech"
      <4>1. cnt' = 0 /\ keepOpen
        BY <1>3, <3>1, NoPrecharge DEF Accept, TimingInv
      <4> QED BY <1>2, <3>1, <4>1 DEF Remaining, Transaction
    <3>2. CASE state' = "s_act"
      <4>1. cnt' = 0
        BY <1>3, <3>2 DEF Accept
      <4> QED BY <1>0, <1>2, <3>2, <4>1 DEF Remaining
    <3>3. CASE state' = "s_cmd"
      BY <1>0, <1>2, <3>3 DEF Remaining
    <3> QED BY <1>3, <3>1, <3>2, <3>3 DEF Accept
  <2> HIDE DEF T, U, B
  <2> QED BY <1>0, <1>1, <1>2, <2>1, <2>2 DEF T
<1>4. CASE IdleCycle
  <2>1. age' = age + 1 /\ age + U <= B /\ refCnt' * T = U - T /\ Remaining' = 0
    BY <1>1, <1>2, <1>4 DEF IdleCycle, reqReady, Remaining
  <2> QED BY <1>0, <1>1, <1>2, <2>1
<1>5. CASE RefreshDone
  <2>1. age' = 0 /\ refCnt' = tREF /\ Remaining' = 0
    BY <1>2, <1>5 DEF RefreshDone, Remaining
  <2> QED BY <1>1, <2>1
<1>6. CASE Command(keepOpen, TRUE)
  BY <1>1, <1>2, <1>6 DEF Command, respValid, Remaining
<1>7. CASE \/ Count("s_prech", tPRE - 1) \/ Count("s_act", tACT - 1)
           \/ PrechargeDone \/ ActivateDone
  <2>1. refCnt' = refCnt
    BY <1>7 DEF Count, PrechargeDone, ActivateDone
  <2>2. CASE Count("s_prech", tPRE - 1)
    <3>1. state = "s_prech" /\ state' = "s_prech" /\ cnt' = cnt + 1
      BY <2>2, HBMAssumption DEF Count, TimingInv, HBMTypeOK, CntMod
    <3> QED BY <1>1, <1>2, <2>1, <3>1 DEF Remaining
  <2>3. CASE Count("s_act", tACT - 1)
    <3>1. state = "s_act" /\ state' = "s_act" /\ cnt' = cnt + 1
      BY <2>3, HBMAssumption DEF Count, TimingInv, HBMTypeOK, CntMod
    <3> QED BY <1>1, <1>2, <2>1, <3>1 DEF Remaining
  <2>4. CASE PrechargeDone
    BY <1>1, <1>2, <2>1, <2>4 DEF PrechargeDone, Remaining
  <2>5. CASE ActivateDone
    BY <1>1, <1>2, <2>1, <2>5 DEF ActivateDone, Remaining
  <2> QED BY <1>7, <2>2, <2>3, <2>4, <2>5
<1>8. ~ StartRefresh /\ ~ Count("s_ref", tREF)
  BY DEF StartRefresh, Count
<1> QED BY <1>3, <1>4, <1>5, <1>6, <1>7, <1>8 DEF TimingNext, Ageing, Internal

(* The stack starts a refresh at most tREF longest transactions after the  *)
(* last one, under any stream of requests.                                 *)
THEOREM RefreshIntervalHolds == TimingSpec => []RefreshInterval
<1>1. TimingInit => TimingInv
  <2> SUFFICES ASSUME TimingInit PROVE TimingInv
    OBVIOUS
  <2>1. HBMTypeOK
    BY TypeInit DEF TimingInit
  <2>2. PagesClosed
    BY PagesClosedInit DEF TimingInit
  <2>3. RefreshBudget
    BY TransactionType, HBMAssumption
       DEF TimingInit, HBMInit, RefreshBudget, Remaining, CntMod
  <2> QED BY <2>1, <2>2, <2>3 DEF TimingInit, TimingInv
<1>2. TimingInv /\ [TimingNext]_timingVars => TimingInv'
  <2> SUFFICES ASSUME TimingInv, [TimingNext]_timingVars PROVE TimingInv'
    OBVIOUS
  <2>1. CASE UNCHANGED timingVars
    BY <2>1 DEF timingVars, hbmVars, TimingInv, HBMTypeOK, PagesClosed, rBank,
       RefreshBudget, Remaining, Transaction
  <2>2. CASE TimingNext
    <3>1. keepOpen' \in BOOLEAN /\ age' \in Nat
      BY <2>2 DEF TimingNext, Ageing, TimingInv
    <3>2. (~ keepOpen => PagesClosed)'
      BY <2>2, PagesClosedStep DEF TimingNext, Ageing, TimingInv
    <3> QED BY <2>2, <3>1, <3>2, TimingTypeStep, RefreshBudgetStep DEF TimingInv
  <2> QED BY <2>1, <2>2
<1>3. TimingInv => RefreshInterval
  <2> SUFFICES ASSUME TimingInv, state # "s_ref"
               PROVE  age <= tREF * Transaction
    BY DEF RefreshInterval
  <2>1. refCnt * Transaction \in Nat /\ tREF * Transaction \in Nat
    BY TransactionType, HBMAssumption DEF TimingInv, HBMTypeOK, CntMod
  <2>2. Remaining \in Nat
    BY HBMAssumption DEF TimingInv, HBMTypeOK, Remaining, CntMod
  <2> QED BY <2>1, <2>2 DEF TimingInv, RefreshBudget
<1> QED BY <1>1, <1>2, <1>3, PTL DEF TimingSpec
=============================================================================
