-------------------------------- MODULE Queue -------------------------------
(***************************************************************************)
(* Queues, events and object lifetimes of the runtime                      *)
(* (src/vortex/sw/runtime/common/queue.cpp, event.cpp, buffer.cpp and      *)
(* RefCounted in vortex2_internal.h) over the Device: the application      *)
(* thread enqueues commands, signals user events, drops its handles and    *)
(* destroys the queues; each queue's worker takes commands in order, waits *)
(* for their dependencies, makes their device calls and completes their    *)
(* events.                                                                 *)
(*                                                                         *)
(* program is the application: cmds, what it enqueues, ops, the calls it   *)
(* makes in order, and taken, the argument slots its other buffers leave   *)
(* no room for.  enqueue_mu_ belongs to a queue and is only taken by that  *)
(* queue's worker, so it never makes anyone wait and is left out.          *)
(***************************************************************************)
EXTENDS Device

CONSTANTS Buffers, Kernels, Commands, UserEvents, Programs,
          Sizes, Places   \* buffer sizes, and the addresses asked for by Buffer::reserve

VARIABLES app, app_pc,      \* the application and its position in program.ops
          commands_,        \* [Workers -> commands not taken yet]
          shutdown_,        \* [Workers -> BOOLEAN]
          wpc,              \* [Workers -> "idle", "deps", "work" or "exit"]
          cur,              \* [Workers -> command being processed, or None]
          waits,            \* [Workers -> its dependencies not released yet]
          event,            \* [Events -> [counter, error]]
          refs_,            \* [Objects -> references]
          host_mirror_,     \* [Buffers -> contents of its mapping]
          mapped_,          \* [Buffers -> BOOLEAN]
          buffer,           \* [Buffers -> [addr, size, phys]], addr = -1 if there is none
          result            \* [Commands -> what a read delivered to the host]

Events == Commands \union UserEvents
Objects == Buffers \union Kernels \union Events
queue == <<app, app_pc, commands_, shutdown_, wpc, cur, waits, event, refs_,
           host_mirror_, mapped_, result>>
heaps == <<global_mem_, pinned_mem_, buffer>>
vars == <<cpVars, device, threads, queue, heaps>>

By(c) == [c |-> c, n |-> 1]
program == Programs[app]
Launches(c) == program.cmds[c].launches

NoBuffer == [addr |-> -1, size |-> 0, phys |-> FALSE]

\* mutant: a read or a copy does not keep its source
RetainedBug(c) ==
  LET m == program.cmds[c]
  IN  ({m.dst, m.ev} \union {m.launches[k].kernel : k \in DOMAIN m.launches}) \ {None}

\* the objects enqueue_* retains for the worker
Retained(c) ==
  LET m == program.cmds[c]
  IN  ({m.dst, m.src, m.ev} \union {m.launches[k].kernel : k \in DOMAIN m.launches}) \ {None}

Retain(f, S) == [x \in DOMAIN f |-> IF x \in S THEN f[x] + 1 ELSE f[x]]
Release(f, S) == [x \in DOMAIN f |-> IF x \in S THEN f[x] - 1 ELSE f[x]]

\* ~Buffer, for the buffers whose last reference goes with one reference of each of S
Destroy(S) ==
  LET gone == {b \in S \cap Buffers : refs_[b] = 1}
  IN  /\ \E r \in {mem_free({buffer[b].addr : b \in gone})} :
           global_mem_' = r.global /\ pinned_mem_' = r.pinned
      /\ buffer' = [b \in Buffers |-> IF b \in gone THEN NoBuffer ELSE buffer[b]]

(***************************************************************************)
(* The device calls of each kind of command, up to its release of what     *)
(* enqueue_* retained.                                                     *)
(***************************************************************************)
DrainCout(c) == << Ins("read", "cout_wr", By(c)), Ins("emit", None, By(c)) >>

\* cmd_stage_qmds
StageQmds(c) ==
  FlattenSeq([k \in DOMAIN Launches(c) |->
    << Ins("acquire", None, None),
       Ins("stage", [what |-> "args", args |-> Launches(c)[k]], By(c)),
       Ins("acquire", None, None),
       Ins("stage", [what |-> "qmd", args |-> Launches(c)[k]], By(c)) >>])

enqueue_launch(c) ==
  << Ins("acquire", None, None),
     Ins("stage", [what |-> "args", args |-> Launches(c)[1]], By(c)),
     Ins("dcr", [reg |-> "pc", val |-> Launches(c)[1].kernel], By(c)),
     Ins("dcr", [reg |-> "arg"], By(c)),
     Ins("launch", None, By(c)), Ins("flush", None, By(c)) >>
  \o DrainCout(c) \o << Ins("release", None, None) >>

enqueue_commands(c) ==
  StageQmds(c) \o << Ins("begin", None, None) >>
  \o FlattenSeq([k \in DOMAIN Launches(c) |->
       << Ins("qmd", k, [c |-> c, n |-> k]), Ins("flush", None, By(c)) >>])
  \o << Ins("end", None, None) >> \o DrainCout(c) \o << Ins("release", None, None) >>

enqueue_draw(c) ==
  StageQmds(c)
  \o << Ins("acquire", None, None),
        Ins("stage", [what |-> "desc", steps |-> Len(Launches(c))], By(c)),
        Ins("draw", None, By(c)) >>
  \o DrainCout(c) \o << Ins("release_desc", None, None), Ins("release", None, None) >>

enqueue_write(c, m) == << Ins("write", m.dst, [data |-> m.data, by |-> By(c)]) >>
enqueue_read(c, m) == << Ins("read", m.src, By(c)) >>
enqueue_copy(c, m) == << Ins("copy", [dst |-> m.dst, src |-> m.src], By(c)) >>
enqueue_map(c, m) == << Ins("read", m.src, By(c)), Ins("map", m.src, None) >>
enqueue_unmap(c, m) ==
  << Ins("write", m.dst, [data |-> host_mirror_[m.dst], by |-> By(c)]), Ins("unmap", m.dst, None) >>
enqueue_signal(m) == << Ins("signal", m.ev, m.val) >>
enqueue_wait_value(m) == << Ins("wait_value", m.ev, m.val) >>
enqueue_barrier == << >>

work(c) ==
  LET m == program.cmds[c]
  IN  (CASE m.kind = "write"    -> enqueue_write(c, m)
         [] m.kind = "read"     -> enqueue_read(c, m)
         [] m.kind = "copy"     -> enqueue_copy(c, m)
         [] m.kind = "launch"   -> enqueue_launch(c)
         [] m.kind = "commands" -> enqueue_commands(c)
         [] m.kind = "draw"     -> enqueue_draw(c)
         [] m.kind = "map"      -> enqueue_map(c, m)
         [] m.kind = "unmap"    -> enqueue_unmap(c, m)
         [] m.kind = "signal"     -> enqueue_signal(m)
         [] m.kind = "wait_value" -> enqueue_wait_value(m)
         [] m.kind = "barrier"    -> enqueue_barrier)
      \o << Ins("unref", None, None) >>

(***************************************************************************)
(* Events.                                                                 *)
(***************************************************************************)
signal(e, value) ==
  [event EXCEPT ![e].counter = IF value <= @ THEN @ ELSE value]
complete(e, status) ==
  [event EXCEPT ![e].error = IF status # "OK" /\ @ = "OK" THEN status ELSE @,
                ![e].counter = IF @ >= 1 THEN @ ELSE 1]
Woken(e, value) == event[e].counter >= value \/ event[e].error # "OK"

(***************************************************************************)
(* worker_loop.                                                            *)
(***************************************************************************)
TakeCommand(w) ==
  /\ wpc[w] = "idle" /\ commands_[w] # <<>>
  /\ cur' = [cur EXCEPT ![w] = Head(commands_[w])]
  /\ commands_' = [commands_ EXCEPT ![w] = Tail(@)]
  /\ waits' = [waits EXCEPT ![w] = program.cmds[Head(commands_[w])].waits]
  /\ wpc' = [wpc EXCEPT ![w] = "deps"]
  /\ UNCHANGED <<cpVars, device, threads, app, app_pc, shutdown_, event, refs_,
                 host_mirror_, mapped_, result>>

WorkerExit(w) ==
  /\ wpc[w] = "idle" /\ commands_[w] = <<>> /\ shutdown_[w]
  /\ wpc' = [wpc EXCEPT ![w] = "exit"]
  /\ UNCHANGED <<cpVars, device, threads, app, app_pc, commands_, shutdown_, cur, waits,
                 event, refs_, host_mirror_, mapped_, result>>

\* mutant: a failed dependency is waited for like any other
WaitDependencyBug(w) ==
  LET dep == Head(waits[w])
  IN  /\ wpc[w] = "deps" /\ waits[w] # <<>>
      /\ Woken(dep, 1)
      /\ waits' = [waits EXCEPT ![w] = Tail(@)]
      /\ refs_' = Release(refs_, {dep})
      /\ UNCHANGED <<cpVars, device, todo, call, target, slots, got, res, app, app_pc,
                     commands_, shutdown_, wpc, cur, event, host_mirror_, mapped_, result>>

WaitDependency(w) ==
  LET dep == Head(waits[w])
  IN  /\ wpc[w] = "deps" /\ waits[w] # <<>>
      /\ res[w] = "OK" => Woken(dep, 1)
      /\ res' = [res EXCEPT ![w] = IF @ = "OK" THEN event[dep].error ELSE @]
      /\ waits' = [waits EXCEPT ![w] = Tail(@)]
      /\ refs_' = Release(refs_, {dep})
      /\ UNCHANGED <<cpVars, device, todo, call, target, slots, got, app, app_pc,
                     commands_, shutdown_, wpc, cur, event, host_mirror_, mapped_, result>>

StartWork(w) ==
  /\ wpc[w] = "deps" /\ waits[w] = <<>>
  /\ todo' = [todo EXCEPT ![w] = IF res[w] = "OK" THEN work(cur[w]) ELSE <<>>]
  /\ wpc' = [wpc EXCEPT ![w] = "work"]
  /\ UNCHANGED <<cpVars, device, call, target, slots, got, res, app, app_pc, commands_,
                 shutdown_, cur, waits, event, refs_, host_mirror_, mapped_, result>>

\* the parts of a command's work that are not device calls
HostStep(w) ==
  /\ wpc[w] = "work" /\ todo[w] # <<>>
  /\ LET n == Current(w)
     IN  \/ /\ n.i = "unref"
            /\ refs_' = Release(refs_, Retained(cur[w]))
            /\ Destroy(Retained(cur[w]))
            /\ UNCHANGED <<event, res, host_mirror_, mapped_>>
         \/ /\ n.i = "signal"
            /\ event' = signal(n.x, n.y)
            /\ UNCHANGED <<refs_, res, host_mirror_, mapped_, heaps>>
         \/ /\ n.i = "wait_value" /\ Woken(n.x, n.y)
            /\ res' = [res EXCEPT ![w] = event[n.x].error]
            /\ UNCHANGED <<event, refs_, host_mirror_, mapped_, heaps>>
         \/ /\ n.i = "map"                              \* end of map_commit
            /\ host_mirror_' = [host_mirror_ EXCEPT ![n.x] = got[w]]
            /\ UNCHANGED <<event, refs_, res, mapped_, heaps>>
         \/ /\ n.i = "unmap"                            \* end of unmap
            /\ host_mirror_' = [host_mirror_ EXCEPT ![n.x] = None]
            /\ mapped_' = [mapped_ EXCEPT ![n.x] = FALSE]
            /\ UNCHANGED <<event, refs_, res, heaps>>
  /\ todo' = [todo EXCEPT ![w] = Tail(@)]
  /\ UNCHANGED <<cpVars, device, call, target, slots, got, app, app_pc, commands_,
                 shutdown_, wpc, cur, waits, result>>

CompleteCommand(w) ==
  /\ wpc[w] = "work" /\ todo[w] = <<>>
  /\ event' = complete(cur[w], res[w])
  /\ refs_' = Release(refs_, {cur[w]})
  /\ result' = IF program.cmds[cur[w]].kind = "read" /\ res[w] = "OK"
               THEN [result EXCEPT ![cur[w]] = got[w]] ELSE result
  /\ wpc' = [wpc EXCEPT ![w] = "idle"]
  /\ cur' = [cur EXCEPT ![w] = None]
  /\ res' = [res EXCEPT ![w] = "OK"]
  /\ got' = [got EXCEPT ![w] = None]
  /\ UNCHANGED <<cpVars, device, todo, call, target, slots, app, app_pc, commands_,
                 shutdown_, waits, host_mirror_, mapped_>>

Worker(w) ==
  \/ HostStep(w)
  \/ /\ \/ TakeCommand(w) \/ WorkerExit(w) \/ WaitDependency(w) \/ StartWork(w)
        \/ CompleteCommand(w)
        \/ wpc[w] = "work" /\ DeviceStep(w) /\ UNCHANGED queue
     /\ UNCHANGED heaps

(***************************************************************************)
(* The application thread.                                                 *)
(***************************************************************************)
\* enqueue_*: retain the operands, then Queue::enqueue
Enqueue(c) ==
  LET m == program.cmds[c]
      kept == Retain(Retain(refs_, Retained(c)), {m.waits[k] : k \in DOMAIN m.waits})
  IN  /\ refs_' = [kept EXCEPT ![c] = 2]        \* the caller's and the worker's
      /\ commands_' = [commands_ EXCEPT ![m.q] = Append(@, c)]
      /\ mapped_' = IF m.kind = "map" THEN [mapped_ EXCEPT ![m.src] = TRUE] ELSE mapped_
      /\ UNCHANGED <<event, shutdown_, host_mirror_>>

\* Buffer::create and Buffer::reserve; without memory the application gets no handle
Create(b, size, phys, r) ==
  /\ global_mem_' = r.global /\ pinned_mem_' = r.pinned
  /\ IF r.addr = -1 THEN UNCHANGED <<buffer, refs_>>
     ELSE /\ buffer' = [buffer EXCEPT ![b] = [addr |-> r.addr, size |-> size, phys |-> phys]]
          /\ refs_' = [refs_ EXCEPT ![b] = 1]

\* a call on the memory, with any of the buffers S; they are used for nothing else.  A pinned
\* buffer is not larger than the slab: the first page of a heap is not checked against its size
BufferCall(S) ==
  \/ \E b \in S : refs_[b] = 1 /\ refs_' = Release(refs_, {b}) /\ Destroy({b})
  \/ \E size \in Sizes :
       LET b == CHOOSE b \in S : refs_[b] = 0
       IN  /\ \E b0 \in S : refs_[b0] = 0
           /\ \/ \E phys \in BOOLEAN : /\ phys => size <= PinnedSize
                                   /\ Create(b, size, phys, mem_alloc(size, phys))
              \/ \E addr \in Places : Create(b, size, FALSE, mem_reserve(addr, size))

AppCall(op) ==
  \/ /\ op.do = "create"
     /\ \E r \in {mem_alloc(op.size, FALSE)} : Create(op.x, op.size, FALSE, r)
     /\ UNCHANGED <<commands_, event, shutdown_, host_mirror_, mapped_>>
  \/ /\ op.do = "release" /\ refs_' = Release(refs_, op.x)      \* calls in a row, as one
     /\ Destroy(op.x)
     /\ UNCHANGED <<commands_, event, shutdown_, host_mirror_, mapped_>>
  \/ op.do = "enqueue" /\ Enqueue(op.x) /\ UNCHANGED heaps
  \/ op.do = "signal" /\ event' = signal(op.x, op.v)
       /\ UNCHANGED <<commands_, refs_, shutdown_, host_mirror_, mapped_, heaps>>
  \/ op.do = "wait" /\ Woken(op.x, 1)
       /\ UNCHANGED <<commands_, event, refs_, shutdown_, host_mirror_, mapped_, heaps>>
  \/ op.do = "store" /\ host_mirror_' = [host_mirror_ EXCEPT ![op.x] = op.v]
       /\ UNCHANGED <<commands_, event, refs_, shutdown_, mapped_, heaps>>
  \/ op.do = "shutdown" /\ shutdown_' = [shutdown_ EXCEPT ![op.x] = TRUE]
       /\ UNCHANGED <<commands_, event, refs_, host_mirror_, mapped_, heaps>>
  \/ op.do = "join" /\ wpc[op.x] = "exit"
       /\ UNCHANGED <<commands_, event, refs_, shutdown_, host_mirror_, mapped_, heaps>>

App ==
  /\ app_pc <= Len(program.ops)
  /\ LET op == program.ops[app_pc]
     IN  \/ AppCall(op)
         \/ /\ op.do = "buffers" /\ \A b \in op.x : refs_[b] = 0
            /\ UNCHANGED <<commands_, event, refs_, shutdown_, host_mirror_, mapped_, heaps>>
  /\ app_pc' = app_pc + 1
  /\ UNCHANGED <<cpVars, device, threads, app, wpc, cur, waits, result>>

\* "buffers" stands for any number of calls
MemoryCall ==
  /\ app_pc <= Len(program.ops) /\ program.ops[app_pc].do = "buffers"
  /\ BufferCall(program.ops[app_pc].x)
  /\ UNCHANGED <<app_pc, commands_, event, shutdown_, host_mirror_, mapped_>>
  /\ UNCHANGED <<cpVars, device, threads, app, wpc, cur, waits, result>>

Finished == app_pc > Len(program.ops)

Tick == tick /\ UNCHANGED <<device, threads, queue, heaps>>
Gpu == VortexRun /\ UNCHANGED <<device, threads, queue, heaps>>

Init ==
  /\ app \in DOMAIN Programs /\ app_pc = 1
  /\ DeviceInit(program.taken)
  /\ commands_ = [w \in Workers |-> <<>>]
  /\ shutdown_ = [w \in Workers |-> FALSE]
  /\ wpc = [w \in Workers |-> "idle"]
  /\ cur = [w \in Workers |-> None]
  /\ waits = [w \in Workers |-> <<>>]
  /\ event = [e \in Events |-> [counter |-> 0, error |-> "OK"]]
  /\ refs_ = [x \in Objects |-> IF x \in Commands \union Buffers THEN 0 ELSE 1]
  /\ buffer = [b \in Buffers |-> NoBuffer]
  /\ host_mirror_ = [b \in Buffers |-> None]
  /\ mapped_ = [b \in Buffers |-> FALSE]
  /\ result = [c \in Commands |-> None]

Next == App \/ MemoryCall \/ Tick \/ Gpu \/ \E w \in Workers : Worker(w)

(***************************************************************************)
(* Fairness: a submitter polls until its command retires and every poll    *)
(* ticks the engine, kernels end, threads are scheduled and get the mutex  *)
(* they keep asking for.                                                   *)
(***************************************************************************)
Spec == /\ Init /\ [][Next]_vars
        /\ WF_vars(Tick) /\ WF_vars(Gpu) /\ WF_vars(App)
        /\ \A w \in Workers : SF_vars(Worker(w))
=============================================================================
