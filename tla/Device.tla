------------------------------- MODULE Device -------------------------------
(***************************************************************************)
(* The runtime's Device (src/vortex/sw/runtime/common/device.cpp): the     *)
(* submission of command lines to the ring, by any number of threads, one  *)
(* worker per queue.  cp_submit_cl_ looks at cp_in_batch_ without a lock;  *)
(* outside a batch it appends and rings the doorbell under cp_mu_, then    *)
(* polls Q_SEQNUM until its own command has retired.  A batch keeps cp_mu_ *)
(* from cp_batch_begin to the doorbell in cp_batch_end.  DMA goes through  *)
(* staging memory of the calling thread, kernel arguments through slots    *)
(* recycled by a pool, console output through drain_cout.                  *)
(*                                                                         *)
(* A worker's work is todo, the device calls its command still has to      *)
(* make: instructions [i, x, y].                                           *)
(***************************************************************************)
EXTENDS CommandProcessor, MemAlloc

CONSTANTS Workers,     \* worker threads, one per queue
          Slots,       \* argument slots the device memory has room for
          Near,        \* [Workers -> the slots mem_alloc is taken to give it first]
          CoutRing,    \* VX_MEM_IO_COUT_RING, in lines
          MemBase, MemSize,   \* the allocatable device memory
          PinnedSize   \* the slab at its start, for VX_MEM_PHYS; 0 without address translation

VARIABLES cp_tail_, cp_expected_seqnum_, cp_in_batch_, cp_batch_target_,
          cp_mu_,           \* the worker whose batch holds the lock, or None
          args_pool_free_,  \* released slots, last one reused first
          allocated,        \* slots mem_alloc has handed out
          global_mem_, pinned_mem_, \* the heaps of device memory
          cout_rd_, printed, \* console lines drained, lines put on std::cout
          todo,             \* [Workers -> instructions left]
          call,             \* [Workers -> "ready" or "poll"]
          target,           \* [Workers -> seqnum it polls for]
          slots,            \* [Workers -> slots its command holds, in order]
          got,              \* [Workers -> what its last read returned]
          res               \* [Workers -> "OK" or "ERR"]

threads == <<todo, call, target, slots, got, res>>
device == <<cp_tail_, cp_expected_seqnum_, cp_in_batch_, cp_batch_target_, cp_mu_,
            args_pool_free_, allocated, cout_rd_, printed>>

Ins(i, x, y) == [i |-> i, x |-> x, y |-> y]
Stage == [w \in Workers |-> "stage_" \o w]
Current(w) == Head(todo[w])
Cleanup == {"release", "unref"}

(***************************************************************************)
(* What an instruction sends.  The newest slot is the one being filled; a  *)
(* launch's arguments are in the slot before its descriptor.               *)
(***************************************************************************)
Line(w) ==
  LET n == Current(w)
  IN  CASE n.i = "write" -> Cmd("MEM", n.x, Stage[w], n.y.by)
        [] n.i = "stage" -> Cmd("MEM", Last(slots[w]), Stage[w], n.y)
        [] n.i = "read"  -> Cmd("MEM", Stage[w], n.x, n.y)
        [] n.i = "copy"  -> Cmd("MEM", n.x.dst, n.x.src, n.y)
        [] n.i = "dcr"   -> Cmd("DCR_WRITE", n.x.reg,
                                IF n.x.reg = "arg" THEN slots[w][1] ELSE n.x.val, n.y)
        [] n.i = "launch" -> Cmd("LAUNCH", None, None, n.y)
        [] n.i = "qmd"   -> Cmd("LAUNCH_QMD", slots[w][2 * n.x], None, n.y)
        [] n.i = "flush" -> Cmd("CACHE_FLUSH", None, None, n.y)
        [] n.i = "draw"  -> Cmd("DRAW", Last(slots[w]), None, n.y)

\* what memcpy puts in the staging buffer before a write is submitted
Payload(w) ==
  LET n == Current(w)
  IN  CASE n.i = "write" -> n.y.data
        [] n.i = "stage" /\ n.x.what = "args" -> n.x.args
        [] n.i = "stage" /\ n.x.what = "qmd" ->
             [pc |-> n.x.args.kernel, arg |-> slots[w][Len(slots[w]) - 1]]
        [] n.i = "stage" /\ n.x.what = "desc" ->
             [steps |-> FlattenSeq([k \in 1..n.x.steps |->
               << Cmd("LAUNCH_QMD", slots[w][2 * k], None, [n.y EXCEPT !.n = k]),
                  Cmd("CACHE_FLUSH", None, None, n.y) >>])]

Submits == {"write", "stage", "read", "copy", "dcr", "launch", "qmd", "flush", "draw"}
Staged  == {"write", "stage", "read"}

cp_ring_append_(line) ==
  /\ ring' = [ring EXCEPT ![cp_tail_ % RingLines] = line]
  /\ cp_tail_' = cp_tail_ + 1
  /\ cp_expected_seqnum_' = cp_expected_seqnum_ + 1

\* host_free of the staging buffer: its contents are gone
host_free(w) == [mem EXCEPT ![Stage[w]] = None]

Return(w) == /\ todo' = [todo EXCEPT ![w] = Tail(@)]
             /\ call' = [call EXCEPT ![w] = "ready"]

\* mutant: an error return forgets the slots acquired so far
FailBug(w) ==
  /\ todo' = [todo EXCEPT ![w] = <<Last(@)>>]
  /\ res' = [res EXCEPT ![w] = "ERR"]

\* skips what an error return skips: the work lambda goes on with its cleanup
Fail(w) ==
  LET k == CHOOSE k \in DOMAIN todo[w] :
             todo[w][k].i \in Cleanup /\ \A j \in 1..k - 1 : todo[w][j].i \notin Cleanup
  IN  /\ todo' = [todo EXCEPT ![w] = SubSeq(@, k, Len(@))]
      /\ res' = [res EXCEPT ![w] = "ERR"]

(***************************************************************************)
(* cp_submit_cl_, with the staging of cp_submit_mem_write/read around it.  *)
(***************************************************************************)
StagedMem(w) == IF Current(w).i \in {"write", "stage"}
                THEN [mem EXCEPT ![Stage[w]] = Payload(w)] ELSE mem

\* mutant: the expected seqnum is read before the append reserves it
SubmitBug(w) ==
  /\ Current(w).i \in Submits /\ call[w] = "ready"
  /\ cp_ring_append_(Line(w))
  /\ mem' = StagedMem(w)
  /\ \/ /\ cp_in_batch_
        /\ cp_batch_target_' = cp_expected_seqnum_'
        /\ Return(w)
        /\ UNCHANGED <<target, tail>>
     \/ /\ ~cp_in_batch_ /\ cp_mu_ = None
        /\ target' = [target EXCEPT ![w] = cp_expected_seqnum_]
        /\ tail' = cp_tail_'
        /\ call' = [call EXCEPT ![w] = "poll"]
        /\ UNCHANGED <<todo, cp_batch_target_>>
  /\ UNCHANGED <<slots, got, res, cp_in_batch_, cp_mu_, args_pool_free_, allocated,
                 cout_rd_, printed>>

\* cp_in_batch_ is set only while cp_mu_ is held, so a thread that saw it clear and then waited
\* for the lock is one that looked when it got the lock
Submit(w) ==
  /\ Current(w).i \in Submits /\ call[w] = "ready"
  /\ cp_ring_append_(Line(w))
  /\ mem' = StagedMem(w)
  /\ \/ /\ cp_in_batch_
        /\ cp_batch_target_' = cp_expected_seqnum_'
        /\ Return(w)
        /\ UNCHANGED <<target, tail>>
     \/ /\ ~cp_in_batch_ /\ cp_mu_ = None
        /\ target' = [target EXCEPT ![w] = cp_expected_seqnum_']
        /\ tail' = cp_tail_'                        \* Q_TAIL_LO, Q_TAIL_HI
        /\ call' = [call EXCEPT ![w] = "poll"]
        /\ UNCHANGED <<todo, cp_batch_target_>>
  /\ UNCHANGED <<slots, got, res, cp_in_batch_, cp_mu_, args_pool_free_, allocated,
                 cout_rd_, printed>>

\* a poll that finds its command retired; every other poll changes nothing
SubmitPoll(w) ==
  /\ call[w] = "poll" /\ cp_mu_ = None /\ seqnum >= target[w]
  /\ Return(w)
  /\ got' = IF Current(w).i = "read" THEN [got EXCEPT ![w] = mem[Stage[w]]] ELSE got
  /\ mem' = IF Current(w).i \in Staged THEN host_free(w) ELSE mem
  /\ target' = [target EXCEPT ![w] = 0]
  /\ UNCHANGED <<ring, tail, slots, res, device>>

batch_begin(w) ==
  /\ Current(w).i = "begin" /\ cp_mu_ = None
  /\ cp_mu_' = w /\ cp_in_batch_' = TRUE
  /\ cp_batch_target_' = cp_expected_seqnum_
  /\ Return(w)
  /\ UNCHANGED <<ring, tail, mem, target, slots, got, res, cp_tail_, cp_expected_seqnum_,
                 args_pool_free_, allocated, cout_rd_, printed>>

\* mutant: the batch polls with its lock still held
batch_endBug(w) ==
  /\ Current(w).i = "end" /\ call[w] = "ready"
  /\ target' = [target EXCEPT ![w] = cp_batch_target_]
  /\ cp_in_batch_' = FALSE
  /\ tail' = cp_tail_
  /\ call' = [call EXCEPT ![w] = "poll"]
  /\ UNCHANGED <<ring, mem, todo, slots, got, res, cp_tail_, cp_expected_seqnum_, cp_mu_,
                 cp_batch_target_, args_pool_free_, allocated, cout_rd_, printed>>

\* the doorbell for the whole batch; the poll that follows is SubmitPoll
batch_end(w) ==
  /\ Current(w).i = "end" /\ call[w] = "ready"
  /\ target' = [target EXCEPT ![w] = cp_batch_target_]
  /\ cp_in_batch_' = FALSE /\ cp_mu_' = None
  /\ tail' = cp_tail_
  /\ call' = [call EXCEPT ![w] = "poll"]
  /\ UNCHANGED <<ring, mem, todo, slots, got, res, cp_tail_, cp_expected_seqnum_,
                 cp_batch_target_, args_pool_free_, allocated, cout_rd_, printed>>

(***************************************************************************)
(* The argument slots.                                                     *)
(***************************************************************************)
\* which free address mem_alloc returns makes no difference, so the model fixes it with Near
args_slot_acquire(w) ==
  /\ Current(w).i = "acquire"
  /\ \/ /\ args_pool_free_ # <<>>
        /\ slots' = [slots EXCEPT ![w] = Append(@, Last(args_pool_free_))]
        /\ args_pool_free_' = Front(args_pool_free_)
        /\ Return(w) /\ UNCHANGED <<allocated, res>>
     \/ /\ args_pool_free_ = <<>> /\ allocated # Slots
        /\ LET s == CHOOSE s \in Slots \ allocated : s \in Near[w] \/ Near[w] \subseteq allocated
           IN  /\ slots' = [slots EXCEPT ![w] = Append(@, s)]
               /\ allocated' = allocated \union {s}
        /\ Return(w) /\ UNCHANGED <<args_pool_free_, res>>
     \/ /\ args_pool_free_ = <<>> /\ allocated = Slots      \* mem_alloc fails
        /\ Fail(w) /\ UNCHANGED <<slots, args_pool_free_, allocated, call>>
  /\ UNCHANGED <<ring, tail, mem, target, got, cp_tail_, cp_expected_seqnum_, cp_in_batch_,
                 cp_batch_target_, cp_mu_, cout_rd_, printed>>

\* one slot at a time; a draw returns its bundle's slot before the others
args_slot_release(w) ==
  /\ \/ /\ Current(w).i = "release_desc"
        /\ args_pool_free_' = Append(args_pool_free_, Last(slots[w]))
        /\ slots' = [slots EXCEPT ![w] = Front(@)]
        /\ Return(w)
     \/ /\ Current(w).i = "release" /\ slots[w] # <<>>
        /\ args_pool_free_' = Append(args_pool_free_, Head(slots[w]))
        /\ slots' = [slots EXCEPT ![w] = Tail(@)]
        /\ UNCHANGED <<todo, call>>
     \/ /\ Current(w).i = "release" /\ slots[w] = <<>>
        /\ Return(w)
        /\ UNCHANGED <<args_pool_free_, slots>>
  /\ UNCHANGED <<ring, tail, mem, target, got, res, allocated, cp_tail_, cp_expected_seqnum_,
                 cp_in_batch_, cp_batch_target_, cp_mu_, cout_rd_, printed>>

(***************************************************************************)
(* drain_cout, after its read of wr[] (which stands for lost[] and the     *)
(* data too): print what is new, then publish rd[] with a write.           *)
(***************************************************************************)
\* mutant: the host forgets how far it has drained
drain_coutBug(w) ==
  LET wr == got[w].n
      n == IF wr < cout_rd_ \/ wr - cout_rd_ > CoutRing THEN CoutRing ELSE wr - cout_rd_
      publish == Ins("write", "cout_rd", [data |-> got[w], by |-> Current(w).y])
  IN  /\ Current(w).i = "emit"
      /\ IF wr = cout_rd_
         THEN todo' = [todo EXCEPT ![w] = Tail(@)] /\ UNCHANGED <<cout_rd_, printed>>
         ELSE /\ todo' = [todo EXCEPT ![w] = <<publish>> \o Tail(@)]
              /\ UNCHANGED cout_rd_ /\ printed' = printed + n
      /\ UNCHANGED <<ring, tail, mem, call, target, slots, got, res, cp_tail_,
                     cp_expected_seqnum_, cp_in_batch_, cp_batch_target_, cp_mu_,
                     args_pool_free_, allocated>>

drain_cout(w) ==
  LET wr == got[w].n
      n == IF wr < cout_rd_ \/ wr - cout_rd_ > CoutRing THEN CoutRing ELSE wr - cout_rd_
      publish == Ins("write", "cout_rd", [data |-> got[w], by |-> Current(w).y])
  IN  /\ Current(w).i = "emit"
      /\ IF wr = cout_rd_
         THEN todo' = [todo EXCEPT ![w] = Tail(@)] /\ UNCHANGED <<cout_rd_, printed>>
         ELSE /\ todo' = [todo EXCEPT ![w] = <<publish>> \o Tail(@)]
              /\ cout_rd_' = wr /\ printed' = printed + n
      /\ UNCHANGED <<ring, tail, mem, call, target, slots, got, res, cp_tail_,
                     cp_expected_seqnum_, cp_in_batch_, cp_batch_target_, cp_mu_,
                     args_pool_free_, allocated>>

(***************************************************************************)
(* Device memory, [global, pinned, addr] with addr = -1 for an error.  An  *)
(* operation holds mu_ throughout.  Addresses are physical: translation is *)
(* the page table's.                                                       *)
(***************************************************************************)
pinned(addr) == PinnedSize > 0 /\ addr >= MemBase /\ addr < MemBase + PinnedSize

mem_alloc(size, phys) ==
  LET slab == phys /\ PinnedSize > 0
      r == allocate(IF slab THEN pinned_mem_ ELSE global_mem_, alignSize(size, BlockAlign))
  IN  [global |-> IF slab THEN global_mem_ ELSE r.heap,
       pinned |-> IF slab THEN r.heap ELSE pinned_mem_, addr |-> r.addr]

mem_reserve(addr, size) ==
  LET asize == alignSize(size, BlockAlign)
      slab == pinned(addr) /\ addr + asize <= MemBase + PinnedSize
      r == reserve(IF slab THEN pinned_mem_ ELSE global_mem_, addr, asize)
  IN  [global |-> IF slab THEN global_mem_ ELSE r.heap,
       pinned |-> IF slab THEN r.heap ELSE pinned_mem_, addr |-> r.addr]

\* of several buffers in a row (g and r are bound, so that TLC computes each of them once)
mem_free(addrs) ==
  LET of(S, h) == FoldSet(LAMBDA a, f : CHOOSE r \in {release(g, a) : g \in {f}} : TRUE, h, S)
  IN  [global |-> of({a \in addrs : ~pinned(a)}, global_mem_),
       pinned |-> of({a \in addrs : pinned(a)}, pinned_mem_)]

DeviceStep(w) ==
  /\ todo[w] # <<>>
  /\ \/ Submit(w) \/ SubmitPoll(w) \/ batch_begin(w) \/ batch_end(w)
     \/ args_slot_acquire(w) \/ args_slot_release(w) \/ drain_cout(w)
  /\ ran' = {}
  /\ UNCHANGED <<head, seqnum, engine, dcrs, vortex, cached, global_mem_, pinned_mem_>>

\* taken: slots whose memory other allocations hold
DeviceInit(taken) ==
  /\ CpInit
  /\ cp_tail_ = 0 /\ cp_expected_seqnum_ = 0 /\ cp_in_batch_ = FALSE
  /\ cp_batch_target_ = 0 /\ cp_mu_ = None
  /\ args_pool_free_ = <<>> /\ allocated = taken
  /\ cout_rd_ = 0 /\ printed = 0
  /\ global_mem_ = LET all == MemoryAllocator(MemBase, MemSize)
                   IN  IF PinnedSize > 0 THEN reserve(all, MemBase, PinnedSize).heap ELSE all
  /\ pinned_mem_ = MemoryAllocator(MemBase, PinnedSize)
  /\ todo = [w \in Workers |-> <<>>]
  /\ call = [w \in Workers |-> "ready"]
  /\ target = [w \in Workers |-> 0]
  /\ slots = [w \in Workers |-> <<>>]
  /\ got = [w \in Workers |-> None]
  /\ res = [w \in Workers |-> "OK"]
=============================================================================
