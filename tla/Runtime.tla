------------------------------- MODULE Runtime ------------------------------
(***************************************************************************)
(* What the runtime promises an application, over the queues, the device   *)
(* and the command processor together.                                     *)
(***************************************************************************)
EXTENDS Queue

\* lines the engine has copied out of the ring, and the command lines not retired yet
Fetched == head + IF cl_loaded_ THEN 1 ELSE 0
Unretired == {ring[i % RingLines] : i \in Fetched..cp_tail_ - 1}
             \union IF eng_state_ = "Idle" THEN {} ELSE {cur_cmd_}
QueueOf(c) == program.cmds[c].q
\* commands the application enqueued on c's queue before c
Before(c) ==
  LET at(d) == CHOOSE k \in DOMAIN program.ops : program.ops[k] = [do |-> "enqueue", x |-> d]
  IN  {d \in DOMAIN program.cmds : QueueOf(d) = QueueOf(c) /\ at(d) < at(c)}
Succeeded(e) == event[e].counter >= 1 /\ event[e].error = "OK"
Failed == \E e \in Events : event[e].error # "OK"

\* A kernel starts with the entry point and the arguments of the launch that started it,
\* although every queue programs the same KMU registers and recycles the same argument slots
\* (queue.cpp 362-435, cmd_processor.cpp 308-322).
LaunchSeesItsArgs ==
  \A r \in ran : LET l == program.cmds[r.by.c].launches[r.by.n]
                 IN  r.pc = l.kernel /\ r.args = l

\* While a command line is not retired, the worker of its queue is still inside the command it
\* belongs to: an event completes, and the next command of the queue starts, only when all its
\* command's work is done (cp_submit_cl_'s poll, device.cpp 434-454; worker_loop).
RetiredBeforeComplete ==
  \A l \in Unretired : cur[QueueOf(l.by.c)] = l.by.c /\ wpc[QueueOf(l.by.c)] = "work"

\* Nothing of a command reaches the ring unless every event it waits for has completed without
\* an error and every earlier command of its queue has completed (queue.cpp 69-106).
HappensBefore ==
  \A l \in Unretired :
    /\ \A k \in DOMAIN program.cmds[l.by.c].waits : Succeeded(program.cmds[l.by.c].waits[k])
    /\ \A d \in Before(l.by.c) : event[d].counter >= 1

Live(x) ==
  CASE x \in Buffers -> refs_[x] > 0
    [] x \in Slots   -> x \notin Range(args_pool_free_)
    [] x \in Range(Stage) -> \E w \in Workers : Stage[w] = x /\ todo[w] # <<>> /\ Current(w).i \in Staged
    [] OTHER -> TRUE
Operands(l) ==
  CASE l.op = "MEM" -> {l.a, l.b}
    [] l.op = "LAUNCH_QMD" -> {l.a}
    [] l.op = "DRAW" -> {l.a} \union
         {mem[l.a].steps[k].a : k \in {k \in DOMAIN mem[l.a].steps : mem[l.a].steps[k].op = "LAUNCH_QMD"}}
    [] OTHER -> {}

\* Device memory the command processor or a kernel is working on has not been given back:
\* buffers the application released right after enqueueing, argument slots, staging buffers and
\* kernels all outlive the commands that use them (retain in enqueue_*, release in work).
NoUseAfterFree ==
  /\ \A l \in Unretired : \A x \in Operands(l) : Live(x)
  /\ vortex = "running" => Live(dcrs.arg) /\ refs_[dcrs.pc] > 0
  /\ \A x \in Objects : refs_[x] >= 0

\* A read delivers what the commands ordered before it left in the buffer: host data, a copy, the
\* upload of a mapping or a kernel's result, which the flush after the launch made visible.
ReadsReturn ==
  \A c \in DOMAIN program.expect : result[c] # None => result[c] = program.expect[c]

Launchers == {QueueOf(c) : c \in {c \in DOMAIN program.cmds : Launches(c) # <<>>}}
Lines == FoldSet(LAMBDA c, n : n + Len(Launches(c)), 0, DOMAIN program.cmds)
\* When one queue does all the launching, every line its kernels print is put on the console
\* exactly once (drain_cout, "each byte is counted exactly once").
ConsoleOnce ==
  Cardinality(Launchers) = 1 =>
    printed <= Lines /\ (Finished /\ ~Failed => printed = Lines)

\* When the application has released its handles and destroyed its queues, nothing is left: no
\* object has a reference and every argument slot is in the pool, once; after a failed command
\* the slots still are.
NoLeak ==
  Finished => /\ Failed \/ \A x \in Objects : refs_[x] = 0
              /\ IsInjective(args_pool_free_) /\ Range(args_pool_free_) = allocated \ program.taken

Held == {b \in Buffers : buffer[b].addr # -1}
Extent(b) == buffer[b].addr .. buffer[b].addr + alignSize(buffer[b].size, BlockAlign) - 1
Slab == MemBase .. MemBase + PinnedSize - 1

\* No two buffers that somebody still refers to share device memory, whichever thread drops the
\* last reference and when; every buffer lies in the memory, and what was not asked for with
\* VX_MEM_PHYS or by address stays out of the pinned slab ("so the paged-pool side never hands
\* out an address that collides with an identity-mapped pinned buffer", device.cpp 60-63).
BuffersDisjoint ==
  /\ \A b \in Buffers : b \in Held <=> refs_[b] > 0
  /\ \A b, c \in Held : b # c => Extent(b) \cap Extent(c) = {}
  /\ \A b \in Held : /\ Extent(b) \subseteq MemBase .. MemBase + MemSize - 1
                      /\ Extent(b) \cap Slab # {} => buffer[b].phys \/ buffer[b].addr \in Places

Blocks(p) == p.used \union Range(p.freeM)
\* The two free lists of a page hold the same blocks, one by size and one by address; the used
\* and the free blocks cut the page without overlap, and no two free ones are neighbours
\* (page_t::allocate and release keep three lists and merge on both sides).
PageConsistent(p) ==
  /\ Range(p.freeS) = Range(p.freeM) /\ Len(p.freeS) = Len(p.freeM)
  /\ \A i, j \in DOMAIN p.freeM : i < j => /\ End(p.freeM[i]) < p.freeM[j].addr
                                           /\ p.freeS[i].size >= p.freeS[j].size
  /\ \A a \in p.addr .. End(p) - 1 : Cardinality({b \in Blocks(p) : b.addr <= a /\ a < End(b)}) = 1
  /\ p.used # {}

\* Each heap is made of consistent pages that do not overlap, and its used blocks are the
\* buffers that live: nothing is lost, and memory_info's count is exact.
HeapExact ==
  \A h \in {global_mem_, pinned_mem_} :
    LET used == UNION {h.pages[k].used : k \in DOMAIN h.pages}
        slab == IF h = global_mem_ /\ PinnedSize > 0 THEN {MemBase} ELSE {}
    IN  /\ \A k \in DOMAIN h.pages : PageConsistent(h.pages[k])
        /\ \A k \in 2..Len(h.pages) : End(h.pages[k - 1]) <= h.pages[k].addr
        /\ h.allocated = FoldSet(LAMBDA b, n : n + b.size, 0, used)
        /\ {b.addr : b \in used} \ slab =
             {buffer[b].addr : b \in {b \in Held : pinned(buffer[b].addr) <=> h # global_mem_}}

\* a run of size bytes is free inside a page, or a new page fits outside the pages
Room(h, size) ==
  LET page == alignSize(size, PageAlign)
      free(a, n, S) == \A s \in S : End(s) <= a \/ a + n <= s.addr
  IN  \/ \E k \in DOMAIN h.pages : \E a \in h.pages[k].addr .. End(h.pages[k]) - size :
             free(a, size, h.pages[k].used)
      \/ \E a \in h.base .. h.base + h.capacity - page : free(a, page, Range(h.pages))

\* An allocation fails only when there is no room for it: after any history of calls the sorted
\* lists lead to a free block, or to a gap between the pages, whenever there is one.
AllocationComplete ==
  \A size \in {alignSize(s, BlockAlign) : s \in Sizes} :
    /\ Room(global_mem_, size) <=> allocate(global_mem_, size).addr # -1
    /\ size <= PinnedSize => (Room(pinned_mem_, size) <=> allocate(pinned_mem_, size).addr # -1)

Calling == ~Finished /\ program.ops[app_pc].do = "buffers"
\* the kernel ended before the engine looked whether it had started, which nothing rules out
\* (the WaitBusy case of tick_launch, cmd_processor.cpp 377-381)
NeverSeenBusy == launch_state_ = "WaitBusy" /\ ~vortex_busy

\* Every application that destroys its queues gets to the end, unless it goes on or stops among
\* its memory calls, or the engine misses a kernel: each command completes, whether it succeeds,
\* fails or is skipped, and each worker ends (Queue::~Queue joins it).
Terminates == <>(Calling \/ NeverSeenBusy \/ (Finished /\ ~busy))
=============================================================================
