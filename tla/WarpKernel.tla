------------------------------ MODULE WarpKernel ------------------------------
(***************************************************************************)
(* A kernel launch on the cores, and what the programmer of the kernel     *)
(* relies on.                                                              *)
(***************************************************************************)
EXTENDS WarpScheduler

CONSTANT Launches

VARIABLES arrived,   \* [<<block, rank>> -> local barriers arrived at]
          passed,    \* [<<block, rank>> -> local barriers waited for, sync or async]
          garrived,  \* the same for global barriers
          gpassed,
          copied,    \* warps that waited for the block's copy
          placed,    \* [block -> <<core, slot>> or None]
          prologue,  \* [Cores -> [Wids -> times the prologue ran]]
          early      \* a warp came to a global barrier before every block was dispatched

history == <<arrived, passed, garrived, gpassed, copied, placed, prologue, early>>
vars == <<schedVars, history>>

Ranks == 0 .. cta_size - 1
Who(c, w) == <<warps[c][w].block, warps[c][w].rank>>

Init ==
  /\ SchedInit(Launches)
  /\ arrived = [x \in Blocks \X Ranks |-> 0]
  /\ passed = arrived
  /\ garrived = arrived
  /\ gpassed = arrived
  /\ copied = {}
  /\ placed = [b \in Blocks |-> None]
  /\ prologue = [c \in Cores |-> [w \in Wids |-> 0]]
  /\ early = FALSE

Scheduled(c, pick) ==
  /\ schedule(c, pick)
  /\ placed' = [b \in Blocks |->
                  LET new == {w \in active'[c] \ active[c] : warps'[c][w].block = b}
                  IN  IF new = {} THEN placed[b] ELSE <<c, warps'[c][Min(new)].slot>>]
  /\ UNCHANGED <<arrived, passed, garrived, gpassed, copied, prologue, early>>

\* what executing instruction i makes of the history: an arrival counts at once, a barrier
\* is passed by what the warp does after it
Executed(c, w) ==
  LET i == Instr(c, w)
      x == Who(c, w)
      local == "global" \in DOMAIN i /\ ~i.global
      glob == "global" \in DOMAIN i /\ i.global
  IN  /\ Execute(c, w)
      /\ arrived' = IF local /\ i.op \in {"bar", "arrive"} THEN [arrived EXCEPT ![x] = @ + 1] ELSE arrived
      /\ garrived' = IF glob /\ i.op \in {"bar", "arrive"} THEN [garrived EXCEPT ![x] = @ + 1] ELSE garrived
      /\ passed' = IF local /\ i.op \in {"bar", "wait"} THEN [passed EXCEPT ![x] = arrived'[x]] ELSE passed
      /\ gpassed' = IF glob /\ i.op \in {"bar", "wait"} THEN [gpassed EXCEPT ![x] = garrived'[x]] ELSE gpassed
      /\ copied' = IF i.op = "wait" /\ i.copy THEN copied \cup {x} ELSE copied
      /\ prologue' = IF i.op = "run" /\ i.tag = "P" THEN [prologue EXCEPT ![c][w] = @ + 1] ELSE prologue
      /\ early' = (early \/ (glob /\ \E k \in Cores : DispatcherRunning(k)))
      /\ UNCHANGED placed

Copied(c, n) == event_release(c, n) /\ UNCHANGED history

Tick(c) == ~Finished /\ \E pick \in {{}} \cup {{w} : w \in Wids} : Scheduled(c, pick)
Issue(c) == ~Finished /\ \E w \in Wids : Scheduled(c, {w})

Next == \/ \E c \in Cores : Tick(c)
        \/ \E c \in Cores, w \in Wids : Executed(c, w)
        \/ \E c \in Cores, n \in BarIds : Copied(c, n)

(***************************************************************************)
(* Fairness: the platform ticks every core, a core with a ready warp       *)
(* issues again and again (an instruction buffer does not stay full), and  *)
(* instructions and copies finish.                                         *)
(***************************************************************************)
Fairness == /\ \A c \in Cores : WF_vars(Tick(c)) /\ SF_vars(Issue(c))
            /\ \A c \in Cores, w \in Wids : WF_vars(Executed(c, w))
            /\ \A c \in Cores, n \in BarIds : WF_vars(Copied(c, n))
Spec == Init /\ [][Next]_vars /\ Fairness

----------------------------------------------------------------------------
\* A warp that goes on after a barrier (it has a later instruction in the pipeline) finds every
\* warp of its block arrived there, and after a global barrier every warp of the grid, whoever
\* arrives in which order, synchronously or with arrive and wait ("Blocks until generation >
\* phase", sw/kernel/include/vx_barrier.h 35; BarrierUnit::arrive, wait, global_resume).  A
\* global barrier counts the warps active at the time (barrier_unit.cpp 61): its half is claimed
\* as long as the grid was resident whenever a warp came to one.
BarrierHolds ==
  \A c \in Cores : \A w \in issued[c] :
    /\ \A r \in Ranks : arrived[<<warps[c][w].block, r>>] >= passed[Who(c, w)]
    /\ ~early => \A x \in Blocks \X Ranks : garrived[x] >= gpassed[Who(c, w)]

\* A warp that goes on after waiting on a barrier with a pending copy finds the copy done,
\* whether the copy ends before, between or after the block's arrivals ("The barrier only flips
\* phase when both arrive_count==0 AND events==0", vx_intrinsics.h 513; event_release).
CopyArrived ==
  \A c \in Cores : \A w \in issued[c] :
    Who(c, w) \in copied =>
      \A n \in dma[c] : n \div NumBarriers # warps[c][w].slot

\* how often a thread of the block must execute an operation of the kernel
Expected(t, tag) ==
  IF \A k \in DOMAIN launch.code : launch.code[k].op # "run" \/ launch.code[k].tag # tag THEN 0
  ELSE CASE tag = "B" -> 1
         [] tag = "T" -> IF Pick("odd", t) THEN 1 ELSE 0
         [] tag = "E" -> IF Pick("odd", t) THEN 0 ELSE IF Pick("low", t) \/ ~launch.nested THEN 1 ELSE 0
         [] tag = "L" -> Trips(t)

\* A warp runs the kernel's one-time prologue before its first block and never again; and when
\* the launch is over, every thread of every block of the grid has executed the kernel exactly
\* as its own branches and loop say: once per block, on the right side of each branch
\* (warp_init_mask_ and activate_warp's rewind; grid walk, slots, partial last warp, thread_idx
\* carry, SPLIT/JOIN/PRED masks).
EveryThreadRan ==
  /\ \A c \in Cores, w \in Wids :
       /\ prologue[c][w] <= 1
       /\ w \in issued[c] /\ warps[c][w].PC > 1 => prologue[c][w] = 1
  /\ Finished => \A b \in Blocks, t \in Threads, tag \in {"B", "T", "E", "L"} :
                   ran[b][t][tag] = Expected(t, tag)

\* Blocks get the local-memory slots they rely on: live warps with the same slot are of one
\* block (slot_rem_warps_, warp_done: "its slot ... frees immediately for reuse"), and on a
\* one-core processor the blocks of a cluster sit in consecutive slots, in the order of the
\* walk ("members must occupy consecutive slots for multicast", cta_dispatcher.cpp 98).
SlotPlacement ==
  /\ \A c \in Cores : \A v, w \in active[c] :
       warps[c][v].slot = warps[c][w].slot => warps[c][v].block = warps[c][w].block
  /\ launch.cores = 1 =>
       \A b \in Blocks :
         LET k == b[1] % launch.cluster[1]
             head == [b EXCEPT ![1] = @ - k]
         IN  placed[b] # None => placed[b][2] = placed[head][2] + k

\* What the simulator asserts or aborts on never happens: a warp that will be resumed is active
\* and stalled, a slot counts its live warps, a finished copy has its event, the reconvergence
\* stack neither overflows nor is popped empty (scheduler.cpp 268-276, cta_dispatcher.cpp 171,
\* barrier_unit.cpp 140, wctl_unit.cpp 78, 97).
AssertsHold ==
  \A c \in Cores :
    /\ issued[c] \subseteq active[c] \cap stalled[c]
    /\ \A n \in BarIds : /\ bars[c][n].wait \subseteq (active[c] \cap stalled[c]) \ issued[c]
                         /\ n \in dma[c] => bars[c][n].events > 0
    /\ \A w \in active[c] : /\ warps[c][w].tmask # {}
                            /\ Len(warps[c][w].stack) < NumThreads
                            /\ w \in issued[c] /\ Instr(c, w).op = "join" /\ warps[c][w].stack = <<>>
                                 => warps[c][w].sp[Instr(c, w).r] = 0
    /\ \A w \in active[c] : cta[c].slot_rem[warps[c][w].slot] >=
                              Cardinality({v \in active[c] : warps[c][v].slot = warps[c][w].slot})

\* A launch ends: no warp is left waiting at a barrier and no block waits for ever for a slot,
\* unless a warp came to a global barrier before the grid was resident (barrier_unit.cpp 61).
Completes == <>(Finished \/ early)
=============================================================================
