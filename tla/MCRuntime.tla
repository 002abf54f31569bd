------------------------------ MODULE MCRuntime -----------------------------
(***************************************************************************)
(* Applications for Runtime.                                               *)
(***************************************************************************)
EXTENDS Runtime

C(q, kind, dst, src, data, launches, deps, ev, val) ==
  [q |-> q, kind |-> kind, dst |-> dst, src |-> src, data |-> data, launches |-> launches,
   waits |-> deps, ev |-> ev, val |-> val]
Write(q, b, v, deps) == C(q, "write", b, None, v, <<>>, deps, None, 0)
Read(q, b, deps) == C(q, "read", None, b, None, <<>>, deps, None, 0)
Copy(q, d, s, deps) == C(q, "copy", d, s, None, <<>>, deps, None, 0)
Launch(q, kind, ls, deps) == C(q, kind, None, None, None, ls, deps, None, 0)
MapRead(q, b) == C(q, "map", None, b, None, <<>>, <<>>, None, 0)
Unmap(q, b) == C(q, "unmap", b, None, None, <<>>, <<>>, None, 0)
OnEvent(q, kind, e, v) == C(q, kind, None, None, None, <<>>, <<>>, e, v)
Barrier(q, deps) == C(q, "barrier", None, None, None, <<>>, deps, None, 0)

K(k, b) == [kernel |-> k, out |-> b, prints |-> 1]
Quiet(k, b) == [kernel |-> k, out |-> b, prints |-> 0]
Of(k) == [result |-> k, of |-> k]
V(n) == [host |-> n]

Enq(cs) == [k \in DOMAIN cs |-> [do |-> "enqueue", x |-> cs[k]]]
Make(bs) == [k \in DOMAIN bs |-> [do |-> "create", x |-> bs[k], size |-> 1]]
\* release everything at once, before anything may have run, and destroy the queues
Bye(cs) == << [do |-> "release", x |-> Range(cs) \union Kernels \union UserEvents],
              [do |-> "shutdown", x |-> "q1"], [do |-> "join", x |-> "q1"],
              [do |-> "shutdown", x |-> "q2"], [do |-> "join", x |-> "q2"] >>

\* one queue launches, the other copies behind an event
Share ==
  [cmds |-> [c1 |-> Write("q1", "b1", V(1), <<>>),
             c2 |-> Launch("q1", "launch", <<K("k1", "b1")>>, <<>>),
             c3 |-> Write("q2", "b2", V(3), <<>>),
             c4 |-> Read("q2", "b2", <<>>),
             c5 |-> Copy("q2", "b2", "b1", <<"c2">>),
             c6 |-> Read("q2", "b2", <<>>)],
   ops |-> Make(<<"b1", "b2">>) \o Enq(<<"c1", "c2", "c3", "c4", "c5", "c6">>)
           \o Bye(<<"c1", "c2", "c3", "c4", "c5", "c6", "b1", "b2">>),
   taken |-> {}, expect |-> [c4 |-> V(3), c6 |-> Of("k1")]]

\* two queues draw at once
Draws ==
  [cmds |-> [c1 |-> Launch("q1", "draw", <<Quiet("k1", "b1")>>, <<>>),
             c2 |-> Launch("q2", "draw", <<Quiet("k2", "b2")>>, <<>>)],
   ops |-> Make(<<"b1", "b2">>) \o Enq(<<"c1", "c2">>) \o << [do |-> "wait", x |-> "c2"], [do |-> "wait", x |-> "c1"] >> \o Bye(<<"c1", "c2", "b1", "b2">>),
   taken |-> {}, expect |-> [c1 |-> None]]

\* not enough slots for the first draw; one command depends on it and one on the second
NoRoom ==
  [cmds |-> [c1 |-> Launch("q1", "draw", <<Quiet("k1", "b1"), Quiet("k2", "b1")>>, <<>>),
             c2 |-> Launch("q1", "draw", <<Quiet("k2", "b2")>>, <<>>),
             c3 |-> Read("q2", "b1", <<"c1">>),
             c4 |-> Read("q2", "b2", <<"c2">>)],
   ops |-> Make(<<"b1", "b2">>) \o Enq(<<"c1", "c2", "c3", "c4">>) \o << [do |-> "wait", x |-> "c4"] >>
           \o Bye(<<"c1", "c2", "c3", "c4", "b1", "b2">>),
   taken |-> {"s4", "s5", "s6"}, expect |-> [c4 |-> Of("k2")]]

\* a batch, a bundle and a plain launch on one queue
Batch ==
  [cmds |-> [c1 |-> Launch("q1", "commands", <<K("k1", "b1"), K("k2", "b2")>>, <<>>),
             c2 |-> Launch("q1", "draw", <<K("k2", "b1"), K("k1", "b2")>>, <<>>),
             c3 |-> Launch("q1", "launch", <<K("k1", "b1")>>, <<>>),
             c4 |-> Read("q1", "b1", <<>>)],
   ops |-> Make(<<"b1", "b2">>) \o Enq(<<"c1", "c2", "c3", "c4">>) \o Bye(<<"c1", "c2", "c3", "c4", "b1", "b2">>),
   taken |-> {}, expect |-> [c4 |-> Of("k1")]]

\* a mapping on one queue, published to the other through a timeline event
Timeline ==
  [cmds |-> [c1 |-> MapRead("q1", "b1"),
             c2 |-> OnEvent("q2", "wait_value", "u", 2),
             c3 |-> Copy("q2", "b2", "b1", <<>>),
             c4 |-> Read("q2", "b2", <<>>),
             c5 |-> Unmap("q1", "b1"),
             c6 |-> OnEvent("q1", "signal", "u", 2),
             c7 |-> Barrier("q1", <<"c4">>)],
   ops |-> Make(<<"b1", "b2">>) \o Enq(<<"c1", "c2", "c3", "c4">>)
           \o << [do |-> "signal", x |-> "u", v |-> 1], [do |-> "wait", x |-> "c1"],
                 [do |-> "store", x |-> "b1", v |-> V(2)] >>
           \o Enq(<<"c5", "c6", "c7">>) \o Bye(<<"c1", "c2", "c3", "c4", "c5", "c6", "c7", "b1", "b2">>),
   taken |-> {}, expect |-> [c4 |-> V(2)]]

\* two queues launch at once, each with enqueue_launch
Launches2 ==
  [cmds |-> [c1 |-> Launch("q1", "launch", <<K("k1", "b1")>>, <<>>),
             c2 |-> Launch("q2", "launch", <<K("k2", "b2")>>, <<>>)],
   ops |-> Make(<<"b1", "b2">>) \o Enq(<<"c1", "c2">>) \o Bye(<<"c1", "c2", "b1", "b2">>),
   taken |-> {}, expect |-> [c1 |-> None]]

\* any calls on the memory, in any order
Heap ==
  [cmds |-> [c1 |-> Barrier("q1", <<>>)],
   ops |-> << [do |-> "buffers", x |-> {"h1", "h2", "h3"}] >> \o Bye(<<>>),
   taken |-> {}, expect |-> [c1 |-> None]]

\* the same while a command holds on to a buffer the application released
HeapInUse ==
  [cmds |-> [c1 |-> Copy("q1", "b1", "b2", <<>>)],
   ops |-> Make(<<"b1", "b2">>) \o Enq(<<"c1">>)
           \o << [do |-> "release", x |-> {"b1"}], [do |-> "buffers", x |-> {"h1"}] >>
           \o Bye(<<"c1", "b2">>),
   taken |-> {}, expect |-> [c1 |-> None]]

MCPrograms == <<Share, Draws, NoRoom, Batch, Timeline, Heap, HeapInUse>>
MCHeap == <<Heap, HeapInUse>>
MCLaunches == <<Launches2>>
MCAddrs == Buffers \union Slots \union {"cout_wr", "cout_rd", "stage_q1", "stage_q2"}
MCNear == [w \in Workers |-> IF w = "q1" THEN {"s1", "s2", "s3"} ELSE {"s4", "s5", "s6"}]
MCPlaces == {4, 10}
=============================================================================
