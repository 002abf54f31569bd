---------------------------- MODULE WarpScheduler ----------------------------
(***************************************************************************)
(* The warps of the cores (src/vortex/sim/simx): Scheduler::schedule       *)
(* dispatches a block's warp and issues one instruction of a ready warp;   *)
(* after any latency the instruction is executed: the warp-control unit's  *)
(* instructions (wctl_unit.cpp) change thread masks, the reconvergence     *)
(* stack and the barriers (barrier_unit.cpp), the others only compute.     *)
(*                                                                         *)
(* An instruction keeps its warp stalled until it is decoded (a computing  *)
(* instruction) or committed (warp control); both are Execute here.        *)
(* stalled_warps_ is last cycle's copy of stalled_warps_next_: a warp can  *)
(* only be picked a cycle after its release, which issuing at any later    *)
(* time covers, so one variable holds both.                                *)
(*                                                                         *)
(* A kernel is launch.code: 1 is the one-time prologue, 2 the dispatch     *)
(* window, the last instruction the window's "tmc x0".                     *)
(***************************************************************************)
EXTENDS CtaDispatch

CONSTANTS NumBarriers,   \* barriers per local-memory slot, VX_CFG_NUM_BARRIERS
          Pick(_, _),    \* a predicate of the kernel's: kind, thread
          Trips(_)       \* how often a thread runs the kernel's loop

VARIABLES active,    \* [Cores -> SUBSET Wids]: active_warps_
          stalled,   \* [Cores -> SUBSET Wids]: stalled_warps_next_
          turn,      \* the core whose schedule the clock runs next
          issued,    \* [Cores -> SUBSET Wids]: warps with an instruction in the pipeline
          warps,     \* [Cores -> [Wids -> warp_t]]
          bars,      \* [Cores -> [barrier index -> warp_barrier_t]]
          gmask,     \* cores that arrived at the cluster's barrier
          dma,       \* [Cores -> barriers a copy in flight will release]
          ran        \* [block -> [thread -> [op -> times executed]]]

schedVars == <<launch, kmu, cta, active, stalled, turn, issued, warps, bars, gmask, dma, ran>>

BarIds == 0 .. NumWarps * NumBarriers - 1
BarReset == [wait |-> {}, arrival |-> {}, count |-> 0, events |-> 0, phase |-> 0]
WarpReset == [PC |-> 0, tmask |-> {}, stack |-> <<>>, slot |-> 0, rank |-> 0,
              block |-> Zero, tid |-> Zero, sp |-> <<0, 0>>, phase |-> 0, saved |-> {}]

Rewind == Len(launch.code) - 1

\* a warp that ran a block of this kernel stopped after its last instruction
activate_warp(warp, rec) ==
  [warp EXCEPT !.PC = IF rec.do_init THEN 1 ELSE warp.PC - Rewind,
               !.tmask = rec.tmask, !.stack = <<>>, !.slot = rec.slot, !.rank = rec.rank,
               !.block = rec.block, !.tid = rec.tid]

(***************************************************************************)
(* Scheduler::schedule: dispatch one warp if there is a block and a free   *)
(* warp, then issue for at most one ready warp (pick).  The code takes the *)
(* lowest one its argument warp_mask allows; the mask is any.  A cycle     *)
(* ticks every core once, in order.                                        *)
(***************************************************************************)
schedule(c, pick) ==
  LET d == Accepted(Loaded(cta[c]))
      free == IF d.has_cta THEN Wids \ active[c] ELSE {}
      new == IF free = {} THEN {} ELSE {Min(free)}
  IN  /\ turn = c /\ turn' = (c + 1) % launch.cores
      /\ pick \subseteq (active[c] \cup new) \ (stalled[c] \ new)
      /\ kmu' = IF AsksKmu(cta[c]) THEN kmu_step ELSE kmu
      /\ cta' = [cta EXCEPT ![c] = IF new = {} THEN d ELSE AfterWarp(d, Min(free))]
      /\ warps' = [warps EXCEPT ![c] =
                     [w \in Wids |-> IF w \in new THEN activate_warp(@[w], next_warp(d, w)) ELSE @[w]]]
      /\ active' = [active EXCEPT ![c] = @ \cup new]
      /\ stalled' = [stalled EXCEPT ![c] = (@ \ new) \cup pick]
      /\ issued' = [issued EXCEPT ![c] = @ \cup pick]
      /\ UNCHANGED <<launch, bars, gmask, dma, ran>>

----------------------------------------------------------------------------
(* Execution of the instruction in the pipeline.                            *)

Instr(c, w) == launch.code[warps[c][w].PC]
\* the thread of the block a lane of the warp is: the lanes count on from thread_idx
Thread(wp, t) == wp.tid[1] + launch.block[1] * (wp.tid[2] + launch.block[2] * wp.tid[3]) + t
Cond(wp, kind, t) ==
  IF kind = "more" THEN ran[wp.block][Thread(wp, t)].L < Trips(Thread(wp, t)) ELSE Pick(kind, Thread(wp, t))
Where(wp, kind) == {t \in wp.tmask : Cond(wp, kind, t)}

\* the instruction leaves the pipeline; the warps of wake are resumed
Leave(c, w, wake) ==
  /\ issued' = [issued EXCEPT ![c] = @ \ {w}]
  /\ stalled' = [k \in Cores |-> stalled[k] \ wake[k]]
On(c, ws) == [k \in Cores |-> IF k = c THEN ws ELSE {}]

\* advance_pc, and what else the instruction does to its warp
SetWarp(c, w, wp) == warps' = [warps EXCEPT ![c][w] = wp]
Advance(wp) == [wp EXCEPT !.PC = @ + 1]

Compute(c, w) ==
  LET wp == warps[c][w]  i == Instr(c, w)
  IN  /\ i.op \in {"run", "br", "jmp", "mask"}
      /\ Leave(c, w, On(c, {w}))
      /\ SetWarp(c, w,
           CASE i.op = "br" -> [wp EXCEPT !.PC = IF Where(wp, i.cond) # {} THEN @ + 1 ELSE i.to]
             [] i.op = "jmp" -> [wp EXCEPT !.PC = i.to]
             [] i.op = "mask" -> [Advance(wp) EXCEPT !.saved = wp.tmask]
             [] i.op = "run" -> Advance(wp))
      /\ ran' = IF i.op # "run" THEN ran
                ELSE [ran EXCEPT ![wp.block] =
                        [t \in DOMAIN @ |-> IF \E l \in wp.tmask : Thread(wp, l) = t
                                            THEN [@[t] EXCEPT ![i.tag] = @ + 1] ELSE @[t]]]
      /\ UNCHANGED <<launch, turn, kmu, cta, active, bars, gmask, dma>>

\* setTmask: the warp goes on with the mask of wp, or ends when that is empty
setTmask(c, w, wp) ==
  /\ SetWarp(c, w, wp)
  /\ Leave(c, w, On(c, IF wp.tmask = {} THEN {} ELSE {w}))
  /\ active' = [active EXCEPT ![c] = IF wp.tmask = {} THEN @ \ {w} ELSE @]
  /\ cta' = [cta EXCEPT ![c] = IF wp.tmask = {} THEN warp_done(@, w) ELSE @]
  /\ UNCHANGED <<launch, turn, kmu, bars, gmask, dma, ran>>

\* the smaller side first; the other one re-runs from the next instruction
Split(wp, then, r) ==
  LET else == wp.tmask \ then
      next == IF Cardinality(then) <= Cardinality(else) THEN then ELSE else
  IN  IF then = {} \/ else = {} THEN [Advance(wp) EXCEPT !.sp[r] = Len(wp.stack)]
      ELSE [Advance(wp) EXCEPT !.sp[r] = Len(wp.stack), !.tmask = next,
              !.stack = Append(@, [orig |-> wp.tmask, else_PC |-> wp.PC + 1, fallthrough |-> FALSE])]

\* mutant: the other side is never run
JoinBug(wp, r) ==
  LET top == wp.stack[Len(wp.stack)]
  IN  IF wp.sp[r] = Len(wp.stack) THEN Advance(wp)
      ELSE [Advance(wp) EXCEPT !.tmask = top.orig, !.stack = SubSeq(@, 1, Len(@) - 1)]

Join(wp, r) ==
  LET top == wp.stack[Len(wp.stack)]
  IN  IF wp.sp[r] = Len(wp.stack) THEN Advance(wp)
      ELSE IF top.fallthrough
      THEN [Advance(wp) EXCEPT !.tmask = top.orig, !.stack = SubSeq(@, 1, Len(@) - 1)]
      ELSE [wp EXCEPT !.tmask = top.orig \ @, !.PC = top.else_PC,
                      !.stack[Len(wp.stack)].fallthrough = TRUE]

Pred(wp, some) == [Advance(wp) EXCEPT !.tmask = IF some # {} THEN some ELSE wp.saved]

MaskControl(c, w) ==
  LET wp == warps[c][w]  i == Instr(c, w)
  IN  \/ i.op = "split" /\ setTmask(c, w, Split(wp, Where(wp, i.cond), i.r))
      \/ i.op = "join" /\ setTmask(c, w, Join(wp, i.r))
      \/ i.op = "pred" /\ setTmask(c, w, Pred(wp, Where(wp, i.cond)))
      \/ i.op = "exit" /\ setTmask(c, w, [Advance(wp) EXCEPT !.tmask = {}])

----------------------------------------------------------------------------
(* Barriers.  A local barrier belongs to the block's slot, a global one to  *)
(* slot 0 of every core.                                                    *)

\* mutant: the blocks of a core share their barriers
bar_decode_idBug(wp, i) == i.no

bar_decode_id(wp, i) == (IF i.global THEN 0 ELSE wp.slot * NumBarriers) + i.no

\* advance the phase and forget the waiters
Released(b) == [b EXCEPT !.wait = {}, !.phase = @ + 1]

\* mutant: every waiter leaves at the last arrival, also while events are outstanding
LastArrivalBug(b, count) == b.count + 1 = count

LastArrival(b, count) == b.count + 1 = count /\ b.events = 0

\* a warp arrives at a local barrier
arrive(c, w, n, count, sync) ==
  LET b == bars[c][n]
      wait == b.wait \cup IF sync THEN {w} ELSE {}
      full == LastArrival(b, count)
  IN  /\ bars' = [bars EXCEPT ![c][n] =
                    [b EXCEPT !.count = (b.count + 1) % count,
                              !.wait = IF full THEN {} ELSE wait,
                              !.phase = IF full THEN @ + 1 ELSE @]]
      /\ Leave(c, w, On(c, (IF full THEN wait ELSE {}) \cup (IF sync THEN {} ELSE {w})))
      /\ UNCHANGED gmask

(***************************************************************************)
(* A warp arrives at a global barrier.  When all active warps of the core  *)
(* have, the core arrives at the cluster's barrier                         *)
(* (Cluster::global_barrier_arrive), and the last core resumes the warps   *)
(* that wait on any of them.                                               *)
(***************************************************************************)
global_arrive(c, w, n, count, sync) ==
  LET b == [bars[c][n] EXCEPT !.count = count, !.arrival = @ \cup {w},
                              !.wait = @ \cup IF sync THEN {w} ELSE {}]
      all == Cardinality(b.arrival) = Cardinality(active[c]) /\ b.events = 0
      now == [bars EXCEPT ![c][n] = IF all THEN [b EXCEPT !.arrival = {}, !.count = 0] ELSE b]
      mask == gmask \cup IF all THEN {c} ELSE {}
      resumed == IF all /\ Cardinality(mask) = count THEN mask ELSE {}
  IN  /\ gmask' = mask \ resumed
      /\ bars' = [k \in Cores |-> IF k \in resumed THEN [now[k] EXCEPT ![n] = Released(@)] ELSE now[k]]
      /\ Leave(c, w, [k \in Cores |-> (IF k \in resumed THEN now[k][n].wait ELSE {})
                                     \cup (IF k = c /\ ~sync THEN {w} ELSE {})])

\* BAR.ARRIVE returns the phase modulo 2
ArrivePhase(c, n) == bars[c][n].phase % 2

Barrier(c, w) ==
  LET wp == warps[c][w]  i == Instr(c, w)
      n == bar_decode_id(wp, i)
      sync == i.op = "bar"
  IN  /\ i.op \in {"bar", "arrive"}
      /\ SetWarp(c, w, [Advance(wp) EXCEPT !.phase = IF sync THEN @ ELSE ArrivePhase(c, n)])
      /\ IF i.global THEN global_arrive(c, w, n, launch.cores, sync)
         ELSE arrive(c, w, n, cta_size, sync)
      /\ UNCHANGED <<launch, turn, kmu, cta, active, dma, ran>>

\* mutant: the warp is released although it was put on the wait list
BarrierWaitBug(c, w) ==
  LET wp == warps[c][w]  i == Instr(c, w)
      n == bar_decode_id(wp, i)
      same == bars[c][n].phase = wp.phase
  IN  /\ i.op = "wait"
      /\ SetWarp(c, w, Advance(wp))
      /\ bars' = IF same THEN [bars EXCEPT ![c][n].wait = @ \cup {w}] ELSE bars
      /\ Leave(c, w, On(c, {w}))
      /\ UNCHANGED <<launch, turn, kmu, cta, active, gmask, dma, ran>>

\* a warp waits only if the phase is still the one it arrived in
BarrierWait(c, w) ==
  LET wp == warps[c][w]  i == Instr(c, w)
      n == bar_decode_id(wp, i)
      same == bars[c][n].phase = wp.phase
  IN  /\ i.op = "wait"
      /\ SetWarp(c, w, Advance(wp))
      /\ bars' = IF same THEN [bars EXCEPT ![c][n].wait = @ \cup {w}] ELSE bars
      /\ Leave(c, w, On(c, IF same THEN {} ELSE {w}))
      /\ UNCHANGED <<launch, turn, kmu, cta, active, gmask, dma, ran>>

\* the block's first warp announces a copy on a local barrier (expect_tx), then starts it
Copy(c, w) ==
  LET wp == warps[c][w]  i == Instr(c, w)
      n == bar_decode_id(wp, i)
  IN  /\ i.op \in {"expect", "copy"}
      /\ SetWarp(c, w, Advance(wp))
      /\ bars' = IF i.op = "expect" /\ wp.rank = 0 THEN [bars EXCEPT ![c][n].events = @ + 1] ELSE bars
      /\ dma' = IF i.op = "copy" /\ wp.rank = 0 THEN [dma EXCEPT ![c] = @ \cup {n}] ELSE dma
      /\ Leave(c, w, On(c, {w}))
      /\ UNCHANGED <<launch, turn, kmu, cta, active, gmask, ran>>

\* mutant: the last event of a barrier does not release its waiters
event_releaseBug(c, n) ==
  LET b == bars[c][n]
      full == FALSE
  IN  /\ n \in dma[c]
      /\ dma' = [dma EXCEPT ![c] = @ \ {n}]
      /\ bars' = [bars EXCEPT ![c][n] = [IF full THEN Released(b) ELSE b EXCEPT !.events = @ - 1]]
      /\ stalled' = [stalled EXCEPT ![c] = IF full THEN @ \ b.wait ELSE @]
      /\ UNCHANGED <<launch, turn, kmu, cta, active, issued, warps, gmask, ran>>

\* the copy is done: the last event of a barrier nobody is short of arriving at releases it
event_release(c, n) ==
  LET b == bars[c][n]
      full == b.events = 1 /\ b.count = 0
  IN  /\ n \in dma[c]
      /\ dma' = [dma EXCEPT ![c] = @ \ {n}]
      /\ bars' = [bars EXCEPT ![c][n] = [IF full THEN Released(b) ELSE b EXCEPT !.events = @ - 1]]
      /\ stalled' = [stalled EXCEPT ![c] = IF full THEN @ \ b.wait ELSE @]
      /\ UNCHANGED <<launch, turn, kmu, cta, active, issued, warps, gmask, ran>>

Execute(c, w) ==
  /\ w \in issued[c]
  /\ Compute(c, w) \/ MaskControl(c, w) \/ Barrier(c, w) \/ BarrierWait(c, w) \/ Copy(c, w)

Blocks == {<<x, y, z>> : x \in 0 .. launch.grid[1] - 1, y \in 0 .. launch.grid[2] - 1, z \in 0 .. launch.grid[3] - 1}
Threads == 0 .. Volume(launch.block) - 1

SchedInit(launches) ==
  /\ launch \in launches
  /\ kmu = kmu_start(launch)
  /\ cta = [c \in Cores |-> CtaReset]
  /\ active = [c \in Cores |-> {}]
  /\ stalled = [c \in Cores |-> {}]
  /\ turn = 0
  /\ issued = [c \in Cores |-> {}]
  /\ warps = [c \in Cores |-> [w \in Wids |-> WarpReset]]
  /\ bars = [c \in Cores |-> [n \in BarIds |-> BarReset]]
  /\ gmask = {}
  /\ dma = [c \in Cores |-> {}]
  /\ ran = [b \in Blocks |-> [t \in Threads |-> [tag \in {"P", "B", "T", "E", "L"} |-> 0]]]

\* ProcessorImpl::run ends when no core runs
Finished == \A c \in Cores : active[c] = {} /\ ~DispatcherRunning(c)
=============================================================================
