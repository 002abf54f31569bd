----------------------------- MODULE AtomicPort -----------------------------
(***************************************************************************)
(* What a lane of the SoC promises the agent behind it: each operation it  *)
(* is given takes effect on one line of the shared memory at one instant   *)
(* between its acceptance and its answer, whatever the other ports write.  *)
(* Effect and Result say what an operation does to its line and returns.   *)
(***************************************************************************)
CONSTANTS Op, LineId, Line, Effect(_, _), Result(_, _)

VARIABLES
  mem,        \* contents of every line
  op,         \* the operation in progress, if any
  got,        \* its result, once it has taken effect
  others      \* the write another port has in service, if any

portVars == <<mem, op, got, others>>

ForeignWrite == [line : LineId, data : Line]

Init ==
  /\ mem \in [LineId -> Line]
  /\ op = {}
  /\ got = {}
  /\ others = {}

Issue ==
  /\ op = {}
  /\ \E r \in op' : r \in Op /\ op' = {r}
  /\ UNCHANGED got

Perform ==
  /\ got = {}
  /\ \E r \in op :
       /\ mem' = [mem EXCEPT ![r.line] = Effect(mem[r.line], r)]
       /\ got' = {Result(mem[r.line], r)}
  /\ UNCHANGED op

Reply ==
  /\ got # {}
  /\ op' = {} /\ got' = {}

(* The write of another port reaches the memory. *)
Foreign == \E w \in others : mem' = [mem EXCEPT ![w.line] = w.data]

Next ==
  /\ \/ Perform
     \/ /\ Issue \/ Reply \/ UNCHANGED <<op, got>>
        /\ Foreign \/ UNCHANGED mem
  /\ others' \in SUBSET ForeignWrite

Spec == Init /\ [][Next]_portVars
=============================================================================
