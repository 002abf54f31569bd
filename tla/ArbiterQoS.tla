----------------------------- MODULE ArbiterQoS -----------------------------
(***************************************************************************)
(* The service each port gets from SplitPrioritizer and its HBM3Stack when *)
(* every requester behaves arbitrarily on the request side and takes its   *)
(* response at once (as every lane of the SoC does).  History variables    *)
(* follow one port, `watched', chosen at the start:                        *)
(*   wait    cycles its request has been valid and not granted, counted    *)
(*           one past WaitLimit;                                           *)
(*   bypass  grants given to each other port meanwhile, counted to 2.      *)
(***************************************************************************)
EXTENDS SplitPrioritizer

(* A refresh is not due again before each port has had a turn. *)
ASSUME RefreshAssumption == tREF >= 3

VARIABLES watched, wait, bypass

history == <<watched, wait, bypass>>
allVars == <<splitVars, history>>

Others == Port \ {watched}

(* Busy cycles of the longest transaction: precharge and activate if pages *)
(* stay open, activate alone if every command closes its page.             *)
ServiceTime == IF open_page THEN tPRE + tACT + 1 ELSE tACT + 1

(* Cycles lost to a refresh: the cycle that starts it and tREF + 1 in it. *)
RefreshTime == tREF + 2

(* A turn of another port: the granting cycle and its transaction. *)
Turns(n) == n * (ServiceTime + 1)

(* The transaction in service, a refresh, and one turn of each other port. *)
WaitLimit == ServiceTime + RefreshTime + Turns(2)
BypassCap == 2

QoSInit ==
  /\ SplitInit
  /\ watched \in Port
  /\ wait = 0
  /\ bypass = [p \in Port |-> 0]

Longer == IF wait <= WaitLimit THEN wait + 1 ELSE wait

(* The watched port, still asking, sees another port granted (g) or not. *)
Passed(g) ==
  [p \in Port |-> IF p = g /\ bypass[p] < BypassCap THEN bypass[p] + 1
                                                    ELSE bypass[p]]

QoSGrant(avail, bits) ==
  /\ Grant(avail, bits)
  /\ IF watched \in avail /\ sel(avail) # watched
     THEN wait' = Longer /\ bypass' = Passed(sel(avail))
     ELSE wait' = 0 /\ bypass' = [p \in Port |-> 0]

QoSOther(avail) ==
  /\ NoRequest(avail) \/ Respond(Port) \/ Busy
  /\ IF watched \in avail
     THEN wait' = Longer /\ UNCHANGED bypass
     ELSE wait' = 0 /\ bypass' = [p \in Port |-> 0]

QoSNext ==
  /\ \E avail \in SUBSET Port :
       \/ \E req \in MemReq : QoSGrant(avail, [p \in Port |-> req])
       \/ QoSOther(avail)
  /\ UNCHANGED watched

QoSSpec == QoSInit /\ [][QoSNext]_allVars

----------------------------------------------------------------------------
TypeOK ==
  /\ HBMTypeOK
  /\ rr \in Port /\ src_cpu \in BOOLEAN /\ src_gpu \in BOOLEAN
  /\ mode \in Mode
  /\ watched \in Port /\ wait \in 0 .. WaitLimit + 1
  /\ bypass \in [Port -> 0 .. BypassCap]

(* Fair mode ("fair round-robin across all three ports"): no other port is *)
(* granted twice while the watched one keeps asking.  In the CPU-priority  *)
(* modes the same holds of the accelerator against the GPU.                *)
TakesTurns(p) == ~ cpu_priority \/ (watched = GPU /\ p = ACC)

RoundRobinFair == \A p \in Others : TakesTurns(p) => bypass[p] <= 1

(* Worst-case latency: the CPU in the priority modes waits for at most the *)
(* transaction in service and one refresh, and any port in the fair modes  *)
(* for those and one transaction of each other port.                       *)
WaitBound ==
  /\ cpu_priority /\ watched = CPU => wait <= ServiceTime + RefreshTime
  /\ ~ cpu_priority => wait <= WaitLimit
----------------------------------------------------------------------------
(* The strengthening that makes these inductive.  A port granted while the *)
(* watched one waits stands behind it in the rotation from then on.        *)
BehindWatched ==
  /\ bypass[watched] = 0
  /\ \A p \in Others : TakesTurns(p) /\ bypass[p] > 0 =>
       bypass[p] = 1 /\ Distance(watched, rr, 3) < Distance(p, rr, 3)

(* The wait so far, the cycles until the stack is ready, a transaction for *)
(* each port still to be let past, and a refresh if refCnt can expire      *)
(* before the watched port is granted, fit the bound together.             *)
ToReady == CASE state = "s_prech" -> tPRE - cnt + tACT + 1
             [] state = "s_act"   -> tACT - cnt + 1
             [] state = "s_cmd"   -> 1
             [] state = "s_ref"   -> tREF - cnt + 1
             [] OTHER             -> 0

TurnsLeft == IF cpu_priority THEN 0
                             ELSE 2 - (bypass[CPU] + bypass[GPU] + bypass[ACC])

RefreshDue == state # "s_ref" /\ refCnt <= TurnsLeft

WaitBudget ==
  ~ cpu_priority \/ watched = CPU =>
     wait + ToReady + Turns(TurnsLeft) + (IF RefreshDue THEN RefreshTime ELSE 0)
       <= ServiceTime + RefreshTime + Turns(IF cpu_priority THEN 0 ELSE 2)

QoSInv ==
  /\ TypeOK
  /\ ~ open_page => PagesClosed
  /\ BehindWatched
  /\ WaitBudget
=============================================================================
