------------------------------ MODULE GemmJob -------------------------------
(***************************************************************************)
(* GemmToMem on a memory port that accepts one access at a time and        *)
(* answers it after any number of cycles; while it waits, resp.bits is any *)
(* line of Noise.  The engine keeps req.valid up while it waits: the port  *)
(* takes the next request only when the last one is answered.              *)
(***************************************************************************)
EXTENDS GemmToMem

CONSTANTS
  MemLines,       \* capacity; line numbers alias modulo it
  Memories,       \* contents the host may have seeded
  Bases,          \* work areas the host may name in a command
  Noise,          \* what resp.bits may show without a response
  MaxJobs         \* bound on the commands

ASSUME JobAssumption ==
  /\ tile \in Nat \ {0} /\ HalfMod \in Nat \ {0}
  /\ elemsPerLine \in Nat \ {0} /\ elemsPerLine % 2 = 0
  /\ n2 % elemsPerLine = 0
  /\ MemLines \in Nat /\ MemLines >= 2 * linesOperand + linesC
  /\ Memories \subseteq
       [0 .. MemLines - 1 -> [0 .. elemsPerLine - 1 -> 0 .. HalfMod - 1]]
  /\ Bases \subseteq Nat

VARIABLES
  mem,            \* contents of the memory
  port,           \* the access accepted and not answered
  jobs,           \* history: commands taken
  before,         \* history: the memory when the last command was taken
  cBefore         \* history: cTile when the last command was taken

jobVars == <<gemmVars, mem, port, jobs, before, cBefore>>

LineOf(n) == n % MemLines

JobInit ==
  /\ Init
  /\ mem \in Memories
  /\ port = {} /\ jobs = 0
  /\ before = mem /\ cBefore = cTile

CommandStep ==
  /\ jobs < MaxJobs
  /\ \E base \in Bases : TakeCmd(base)
  /\ jobs' = jobs + 1 /\ before' = mem /\ cBefore' = cTile
  /\ UNCHANGED <<mem, port>>

IdleStep == cmdReady /\ UNCHANGED jobVars

CalcStep == Calc /\ UNCHANGED <<mem, port, jobs, before, cBefore>>

(* No response in this cycle; the port may take the request. *)
WaitStep ==
  /\ \E bits \in Noise : FetchA(FALSE, bits) \/ FetchB(FALSE, bits) \/ Store(FALSE)
  /\ \/ UNCHANGED port
     \/ port = {} /\ port' = {req}
  /\ UNCHANGED <<mem, jobs, before, cBefore>>

AcceptStep == WaitStep /\ port = {} /\ port' # {}

AnswerStep ==
  /\ \E r \in port :
       LET bits == mem[LineOf(r.line)]
       IN /\ FetchA(TRUE, bits) \/ FetchB(TRUE, bits) \/ Store(TRUE)
          /\ mem' = IF r.isWrite THEN [mem EXCEPT ![LineOf(r.line)] = r.data] ELSE mem
  /\ port' = {}
  /\ UNCHANGED <<jobs, before, cBefore>>

JobNext == CommandStep \/ IdleStep \/ CalcStep \/ WaitStep \/ AnswerStep

(* The clock runs; the memory accepts and answers eventually. *)
JobSpec ==
  /\ JobInit /\ [][JobNext]_jobVars
  /\ WF_jobVars(AcceptStep) /\ WF_jobVars(AnswerStep) /\ WF_jobVars(CalcStep)
----------------------------------------------------------------------------
(* Halfword h of the work area at baseAddr, and the tiles as documented.   *)
Half(m, h) ==
  m[LineOf(baseAddr + h \div elemsPerLine)][h % elemsPerLine]

A(m, r, c) == Half(m, r * tile + c)
B(m, r, c) == Half(m, n2 + r * tile + c)
C(m, r, c) == LET h == 2 * n2 + 2 * (r * tile + c)
              IN Half(m, h) + HalfMod * Half(m, h + 1)

Side == 0 .. tile - 1

(* The sums of the first n terms of t. *)
Sums(t) == LET upTo[n \in Nat] == IF n = 0 THEN 0 ELSE upTo[n - 1] + t[n - 1]
           IN  upTo

Terms(m, r, c) == [s \in Side |-> A(m, r, s) * B(m, s, c)]
Product(m, r, c) == Sums(Terms(m, r, c))[tile]

HoldsProduct ==
  \A r, c \in Side : C(mem, r, c) = Product(before, r, c) % WordMod

(* The first command after reset leaves in its C tile the product of the  *)
(* tiles it found, whatever resp.bits shows between responses: no fetch   *)
(* leaves noise behind, and no line is skipped or stored twice            *)
(* (GemmToMem.scala 66-118).  src/README.md 244-246 says it of every      *)
(* command; the code does not do so from the second one on, since cTile   *)
(* is never cleared.                                                      *)
FirstProduct == jobs = 1 /\ ~busy => HoldsProduct

(* The engine writes nothing outside its C tile.                           *)
OnlyCTileWritten ==
  jobs > 0 =>
    \A l \in 0 .. MemLines - 1 :
      (\A n \in 0 .. linesC - 1 : l # LineOf(baseAddr + 2 * linesOperand + n))
        => mem[l] = before[l]

(* Every command finishes. *)
JobFinishes == busy ~> ~busy
=============================================================================
