----------------------------- MODULE RoundRobin -----------------------------
(***************************************************************************)
(* The rotating-priority selection written twice in the code: over the     *)
(* three ports of memory/SplitPrioritizer.scala (pointer rr) and over the  *)
(* clusters of gpu/GPUL2Cache.scala (pointer last).  `reqs' is the set of  *)
(* requesters whose valid is high, `rr' the requester served last.         *)
(***************************************************************************)
EXTENDS Integers

(* chisel3.util.PriorityEncoder: the least index whose bit is set. *)
PriorityEncoder(S) == CHOOSE i \in S : \A j \in S : i <= j

higher(reqs, rr) == {i \in reqs : i > rr}
lower(reqs, rr)  == {i \in reqs : i <= rr}

(* The first requester after rr, wrapping around; reqs is not empty. *)
fairSel(reqs, rr) ==
  IF higher(reqs, rr) # {} THEN PriorityEncoder(higher(reqs, rr))
                           ELSE PriorityEncoder(lower(reqs, rr))

(* How many of the n requesters the rotation looks at before i. *)
Distance(i, rr, n) == IF i > rr THEN i - rr - 1 ELSE i - rr - 1 + n
=============================================================================
