--------------------------- MODULE RefreshTiming ----------------------------
(***************************************************************************)
(* How long HBM3Stack may go without refreshing, whatever requests arrive, *)
(* when each response is taken in the cycle it is offered.  `age' counts   *)
(* the cycles since the last refresh ended (or reset); `keepOpen' is the   *)
(* open_page pin, strapped for the run.                                    *)
(***************************************************************************)
EXTENDS HBM3Stack

VARIABLES keepOpen, age

timingVars == <<hbmVars, keepOpen, age>>

TimingInit == HBMInit /\ keepOpen \in BOOLEAN /\ age = 0

Ageing ==
  /\ age' = IF state = "s_ref" THEN 0 ELSE age + 1
  /\ UNCHANGED keepOpen

TimingNext ==
  /\ \/ Internal
     \/ IdleCycle
     \/ \E req \in MemReq : Accept(req)
     \/ Command(keepOpen, TRUE)
  /\ Ageing

TimingSpec == TimingInit /\ [][TimingNext]_timingVars

----------------------------------------------------------------------------
(* Cycles of the longest transaction, the accepting one included.  Pages   *)
(* are only precharged if they are kept open.                              *)
Transaction == IF keepOpen THEN tPRE + tACT + 2 ELSE tACT + 2

(* Retention: a refresh starts within tREF transactions of the longest     *)
(* kind, although the refresh counter runs in s_idle only and a request    *)
(* may be waiting in every one of those cycles.                            *)
RefreshInterval == state # "s_ref" => age <= tREF * Transaction

(* The strengthening that makes RefreshInterval inductive: the cycles so   *)
(* far, those still to come in the transaction in service and a longest    *)
(* transaction per remaining tick of refCnt fit the bound together.        *)
Remaining == CASE state = "s_prech" -> tPRE - cnt + tACT + 1
               [] state = "s_act"   -> tACT - cnt + 1
               [] state = "s_cmd"   -> 1
               [] OTHER             -> 0

RefreshBudget ==
  state # "s_ref" => age + Remaining + refCnt * Transaction
                       <= tREF * Transaction

TimingInv ==
  /\ HBMTypeOK
  /\ keepOpen \in BOOLEAN /\ age \in Nat
  /\ ~ keepOpen => PagesClosed
  /\ RefreshBudget
=============================================================================
