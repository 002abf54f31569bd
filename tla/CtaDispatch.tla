----------------------------- MODULE CtaDispatch -----------------------------
(***************************************************************************)
(* From a grid to warps (src/vortex/sim/simx/kmu/kmu.cpp and               *)
(* cta_dispatcher.cpp).  One Kmu walks the grid cluster by cluster and     *)
(* hands out one block (CTA) at a time to whichever core asks; each core's *)
(* CtaDispatcher places the block in a local-memory slot and cuts it into  *)
(* warps, one per call, each on the lowest free warp of the core.          *)
(*                                                                         *)
(* A launch is one record of the KMU's registers; triples are <<x, y, z>>. *)
(* ProcessorImpl::run resets every object before kmu_->start, so a         *)
(* behaviour is one launch and cur_kernel_pc_ never changes during it.     *)
(***************************************************************************)
EXTENDS Integers, Sequences, FiniteSets, FiniteSetsExt

CONSTANTS Cores,         \* core ids, 0..n-1
          NumWarps,      \* VX_CFG_NUM_WARPS
          NumThreads,    \* VX_CFG_NUM_THREADS
          LmemCapacity,  \* local memory of a core, in blocks of VX_CFG_MEM_BLOCK_SIZE
          None

ASSUME SizesAssumption == NumWarps \in Nat \ {0} /\ NumThreads \in Nat \ {0}

VARIABLES launch,  \* the KMU's registers: [grid, cluster, block, stride], with the
                   \* kernel's code and the number of cores of the processor
          kmu,     \* [running, origin, offset]
          cta      \* [Cores -> the dispatcher's fields]

Wids == 0 .. NumWarps - 1
Zero == <<0, 0, 0>>
Volume(v) == v[1] * v[2] * v[3]

----------------------------------------------------------------------------
(* The kernel management unit.                                              *)

kmu_start(l) ==
  [running |-> \A i \in 1..3 : l.block[i] > 0 /\ l.grid[i] > 0 /\ l.cluster[i] > 0,
   origin |-> Zero, offset |-> Zero]

\* add step to v in x, carrying into y and z when a coordinate reaches its limit exactly
Odometer(v, step, limit) ==
  LET wx == v[1] + step[1] = limit[1]
      wy == wx /\ v[2] + step[2] = limit[2]
      wz == wy /\ v[3] + step[3] = limit[3]
      move(i, carry, wrap) == IF wrap THEN 0 ELSE IF carry THEN v[i] + step[i] ELSE v[i]
  IN  [at |-> <<move(1, TRUE, wx), move(2, wx, wy), move(3, wy, wz)>>, wrap |-> wz]

\* block_idx as the KMU forms it
KmuRequest == [block |-> [i \in 1..3 |-> kmu.origin[i] + kmu.offset[i]],
               first |-> kmu.offset = Zero]

kmu_step ==
  LET inner == Odometer(kmu.offset, <<1, 1, 1>>, launch.cluster)
      outer == Odometer(kmu.origin, launch.cluster, launch.grid)
  IN  IF ~inner.wrap THEN [kmu EXCEPT !.offset = inner.at]
      ELSE [running |-> ~outer.wrap, origin |-> outer.at, offset |-> inner.at]

----------------------------------------------------------------------------
(* The dispatcher of one core; d is its record.                             *)

\* how far thread_idx moves from one warp to the next; the runtime programs it with the grid
warp_step(block) ==
  <<NumThreads % block[1],
    (NumThreads \div block[1]) % block[2],
    (NumThreads \div (block[1] * block[2])) % block[3]>>

CtaReset == [has_cta |-> FALSE, pending |-> None, tail |-> 0, slot |-> 0, block |-> Zero,
             rank |-> 0, rem |-> 0, tid |-> Zero,
             slot_rem |-> [s \in Wids |-> 0],
             wid_slot |-> [w \in Wids |-> NumWarps],
             inited |-> [w \in Wids |-> FALSE]]

cta_size == (Volume(launch.block) + NumThreads - 1) \div NumThreads

usable_slots ==
  IF launch.stride = 0 THEN NumWarps
  ELSE Max({1, Min({NumWarps, LmemCapacity \div launch.stride})})

\* the first slot of the window the pending block needs: a cluster's window never wraps
SlotBase(d) ==
  LET tail == IF d.tail >= usable_slots THEN 0 ELSE d.tail
  IN  IF d.pending.first /\ tail + Volume(launch.cluster) > usable_slots THEN 0 ELSE tail

\* mutant: the slot is taken without waiting for the block that holds it
WindowFreeBug(d) == TRUE

\* every slot of the window is free; a following member's slot is its cluster's
WindowFree(d) ==
  LET k == IF d.pending.first THEN Min({Volume(launch.cluster), usable_slots}) ELSE 1
  IN  \A i \in 0 .. k - 1 : d.slot_rem[SlotBase(d) + i] = 0

\* mutant: the next slot is counted from the tail instead of from the slot taken
AcceptCtaBug(d) ==
  [d EXCEPT !.has_cta = TRUE, !.pending = None, !.block = d.pending.block,
            !.slot = SlotBase(d), !.slot_rem[SlotBase(d)] = cta_size,
            !.tail = (d.tail + 1) % usable_slots,
            !.rank = 0, !.rem = Volume(launch.block), !.tid = Zero]

AcceptCta(d) ==
  [d EXCEPT !.has_cta = TRUE, !.pending = None, !.block = d.pending.block,
            !.slot = SlotBase(d), !.slot_rem[SlotBase(d)] = cta_size,
            !.tail = (SlotBase(d) + 1) % usable_slots,
            !.rank = 0, !.rem = Volume(launch.block), !.tid = Zero]

\* the threads of the next warp: all of them, or what is left of the block
WarpMask(d) == 0 .. Min({NumThreads, d.rem}) - 1

NextTid(d) ==
  LET step == warp_step(launch.block)
      x == d.tid[1] + step[1]
      cx == IF x >= launch.block[1] THEN 1 ELSE 0
      y == d.tid[2] + step[2] + cx
      cy == IF y >= launch.block[2] THEN 1 ELSE 0
  IN  <<x - cx * launch.block[1], y - cy * launch.block[2], d.tid[3] + step[3] + cy>>

\* what the scheduler is told of the warp
next_warp(d, wid) ==
  [do_init |-> ~d.inited[wid], tmask |-> WarpMask(d), slot |-> d.slot,
   rank |-> d.rank, block |-> d.block, tid |-> d.tid]

AfterWarp(d, wid) ==
  [d EXCEPT !.tid = NextTid(d), !.rem = d.rem - Min({NumThreads, d.rem}),
            !.rank = d.rank + 1, !.has_cta = d.rank + 1 < cta_size,
            !.inited[wid] = TRUE, !.wid_slot[wid] = d.slot]

\* CtaDispatcher::step in three parts: ask the KMU, accept the block, cut a warp
AsksKmu(d) == ~d.has_cta /\ d.pending = None /\ kmu.running
Loaded(d) == IF AsksKmu(d) THEN [d EXCEPT !.pending = KmuRequest] ELSE d
Accepted(d) == IF ~d.has_cta /\ d.pending # None /\ WindowFree(d) THEN AcceptCta(d) ELSE d

warp_done(d, wid) ==
  IF d.wid_slot[wid] = NumWarps THEN d
  ELSE [d EXCEPT !.wid_slot[wid] = NumWarps, !.slot_rem[d.wid_slot[wid]] = @ - 1]

DispatcherRunning(c) == cta[c].has_cta \/ cta[c].pending # None \/ kmu.running
=============================================================================
