------------------------------- MODULE MCWarps -------------------------------
(***************************************************************************)
(* Small launches for TLC: two cores of three warps of four threads.       *)
(***************************************************************************)
EXTENDS WarpKernel

MCCores == {0, 1}
MCPick(kind, t) == IF kind = "odd" THEN t % 2 = 1 ELSE t < 2
MCTrips(t) == 1 + (t % 2)

Run(tag) == [op |-> "run", tag |-> tag]
Sync == [op |-> "bar", no |-> 0, global |-> FALSE]
GSync == [op |-> "bar", no |-> 1, global |-> TRUE]
Arrive(g) == [op |-> "arrive", no |-> IF g THEN 1 ELSE 0, global |-> g]
Wait(g) == [op |-> "wait", no |-> IF g THEN 1 ELSE 0, global |-> g, copy |-> FALSE]
WaitCopy == [op |-> "wait", no |-> 1, global |-> FALSE, copy |-> TRUE]
OnCopy(op) == [op |-> op, no |-> 1, global |-> FALSE]
Br(cond, to) == [op |-> "br", cond |-> cond, to |-> to]
Jmp(to) == [op |-> "jmp", to |-> to]
Cond2(op, cond, r) == [op |-> op, cond |-> cond, r |-> r]
Exit == [op |-> "exit"]

\* if (odd) T; else if (low) E;  do L while (more)
Branches ==
  <<Run("P"), Run("B"), [op |-> "mask"],
    Cond2("split", "odd", 1), Br("odd", 8), Run("T"), Jmp(12),
    Cond2("split", "low", 2), Br("low", 11), Run("E"), [op |-> "join", r |-> 2],
    [op |-> "join", r |-> 1],
    Run("L"), Cond2("pred", "more", 1), Br("more", 17), Jmp(13),
    Exit>>
Barriers2 == <<Run("P"), Run("B"), Sync, Sync, Exit>>
Async2 == <<Run("P"), Run("B"), Arrive(FALSE), [op |-> "mask"], Wait(FALSE), Arrive(FALSE), Wait(FALSE), Exit>>
Async3 == <<Run("P"), Arrive(FALSE), Wait(FALSE), Arrive(FALSE), Wait(FALSE), Arrive(FALSE), Wait(FALSE), Run("B"), Exit>>
Global2 == <<Run("P"), Run("B"), GSync, Arrive(TRUE), Wait(TRUE), Exit>>
CopyIn == <<Run("P"), OnCopy("expect"), OnCopy("copy"), OnCopy("arrive"), WaitCopy, Run("B"), Sync, Exit>>

Launch(cores, grid, cluster, block, stride, code) ==
  [cores |-> cores, grid |-> grid, cluster |-> cluster, block |-> block, stride |-> stride,
   code |-> code, nested |-> code = Branches]

One == <<1, 1, 1>>
MCLaunches ==
  {Launch(1, One, One, <<3, 2, 1>>, 1, Branches),
   Launch(1, <<3, 1, 1>>, One, <<5, 1, 1>>, 1, Barriers2),
   Launch(1, <<4, 2, 1>>, <<2, 1, 1>>, <<1, 2, 1>>, 0, <<Run("P"), Run("B"), Exit>>),
   Launch(2, <<1, 1, 3>>, One, <<2, 1, 3>>, 2, <<Run("P"), Run("B"), Exit>>),
   Launch(1, <<2, 1, 1>>, One, <<2, 2, 3>>, 2, <<Run("P"), Run("B"), Exit>>),
   Launch(1, One, One, <<9, 1, 1>>, 1, Async2),
   Launch(2, <<4, 1, 1>>, One, <<1, 1, 1>>, 0, Global2),
   Launch(1, One, One, <<3, 3, 1>>, 1, CopyIn)}
MCAsync == {Launch(1, One, One, <<5, 1, 1>>, 1, Async3)}
=============================================================================
