----------------------------- MODULE LineMemory -----------------------------
(***************************************************************************)
(* What the shared memory promises its requesters: an array of lines that  *)
(* serves one request at a time, atomically, and answers the port that     *)
(* issued it.  A write is answered with ZeroLine and a read with the       *)
(* current contents of the line.  No timing, banks, pages or refresh.      *)
(***************************************************************************)
CONSTANTS Requester, LineId, Line, ZeroLine

VARIABLES
  mem,        \* contents of every line
  pending,    \* the request being served, if any
  reply       \* the last answer given, if any

memVars == <<mem, pending, reply>>

Request == [port : Requester, line : LineId, data : Line, isWrite : BOOLEAN]

Init ==
  /\ mem = [l \in LineId |-> ZeroLine]
  /\ pending = {}
  /\ reply = {}

Issue(r) ==
  /\ pending = {}
  /\ pending' = {r}
  /\ UNCHANGED <<mem, reply>>

Perform(r) ==
  IF r.isWrite THEN [mem EXCEPT ![r.line] = r.data] ELSE mem

(* A write may reach the array before its issuer takes the answer. *)
Commit(r) ==
  /\ mem' = Perform(r)
  /\ UNCHANGED <<pending, reply>>

Answer(r) ==
  /\ mem' = Perform(r)
  /\ pending' = {}
  /\ reply' = {[port |-> r.port,
                data |-> IF r.isWrite THEN ZeroLine ELSE mem[r.line]]}

Next ==
  \/ \E r \in Request : Issue(r)
  \/ \E r \in pending : Commit(r) \/ Answer(r)

Spec == Init /\ [][Next]_memVars
=============================================================================
