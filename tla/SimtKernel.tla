----------------------------- MODULE SimtKernel -----------------------------
(***************************************************************************)
(* SimtCore on a memory port that performs each access at one instant, as  *)
(* the GPU lane does (module AxiLane), after any number of cycles.  The    *)
(* host pulses start with any launch of Launches in any cycle, while a     *)
(* kernel runs and in the cycle it ends included.                          *)
(***************************************************************************)
EXTENDS SimtCore

CONSTANTS
  MemLines,       \* capacity of the memory; line numbers alias modulo it
  Launches        \* [baseX, baseZ, baseY, nLines] the host may ask for

ASSUME KernelAssumption ==
  /\ MemLines \in Nat \ {0} /\ nLanes \in Nat \ {0}
  /\ ElemMod \in Nat \ {0} /\ LineMod \in Nat \ {0}
  /\ Launches \subseteq [baseX : Nat, baseZ : Nat, baseY : Nat,
                         nLines : 0 .. LineMod - 1]

VARIABLES
  mem,            \* contents of the memory
  port,           \* the access the port has accepted and not answered
  current,        \* history: the launch being run, or run last
  before          \* history: the memory when `current' was latched

kernelVars == <<simtVars, mem, port, current, before>>

LineOf(n) == n % MemLines
Memory == [0 .. MemLines - 1 -> [Lane -> Elem]]
NoLaunch == [baseX |-> 0, baseZ |-> 0, baseY |-> 0, nLines |-> 0]

KernelInit ==
  /\ Init
  /\ mem \in Memory
  /\ port = {}
  /\ current = NoLaunch /\ before = mem

(* The launch is not looked at outside s_idle: any one will do there. *)
Starts == {{}} \cup IF state = "s_idle" THEN {{p} : p \in Launches}
                                       ELSE {{CHOOSE p \in Launches : TRUE}}

Host(start) ==
  IF state = "s_idle" /\ start # {}
  THEN current' = (CHOOSE p \in start : TRUE) /\ before' = mem
  ELSE UNCHANGED <<current, before>>

(* The port accepts the request, and later performs and answers it. *)
Accepts(start) ==
  /\ Request(TRUE, start)
  /\ port' = {req}
  /\ UNCHANGED mem

Answers(start) ==
  \E r \in port :
    /\ \/ TakeX(mem[LineOf(r.line)], start)
       \/ TakeZ(mem[LineOf(r.line)], start)
       \/ TakeY(start)
    /\ mem' = IF r.isWrite THEN [mem EXCEPT ![LineOf(r.line)] = r.data] ELSE mem
    /\ port' = {}

Computes(start) == Calc(start) /\ UNCHANGED <<mem, port>>

Quiet(start) ==
  /\ Idle(start) \/ Launch(start) \/ Request(FALSE, start) \/ AwaitResp(start)
  /\ UNCHANGED <<mem, port>>

AcceptStep  == \E start \in Starts : Accepts(start) /\ Host(start)
AnswerStep  == \E start \in Starts : Answers(start) /\ Host(start)
ComputeStep == \E start \in Starts : Computes(start) /\ Host(start)
QuietStep   == \E start \in Starts : Quiet(start) /\ Host(start)

KernelNext == AcceptStep \/ AnswerStep \/ ComputeStep \/ QuietStep

(* The clock runs, and the memory accepts and answers eventually. *)
KernelSpec ==
  /\ KernelInit /\ [][KernelNext]_kernelVars
  /\ WF_kernelVars(AcceptStep) /\ WF_kernelVars(AnswerStep)
  /\ WF_kernelVars(ComputeStep)
----------------------------------------------------------------------------
(* What the kernel should do: line after line, Y[l] = X[l] + Z[l]. *)
StepLine(p, m, l) ==
  [m EXCEPT ![LineOf(p.baseY + l)] =
     [e \in Lane |-> (m[LineOf(p.baseX + l)][e] + m[LineOf(p.baseZ + l)][e])
                       % ElemMod]]

Kernel(p, m) ==
  LET after[n \in Nat] == IF n = 0 THEN m ELSE StepLine(p, after[n - 1], n - 1)
  IN  after

(* The last-line test subtracts one modulo LineMod: a launch of zero lines *)
(* runs over all of them.                                                  *)
LinesRun(p) == IF p.nLines = 0 THEN LineMod ELSE p.nLines

(* Memory always holds the kernel's result up to the line in progress,     *)
(* also where the arrays overlap or alias, and once done is up all of it:  *)
(* a start that comes while the kernel runs disturbs neither.              *)
KernelResult ==
  IF state = "s_idle"
  THEN doneReg => mem = Kernel(current, before)[LinesRun(current)]
  ELSE ~ doneReg /\ mem = Kernel(current, before)[line]

(* Every launch finishes with done up, whenever start is pulsed: nothing   *)
(* but a memory that never answers can keep the core busy.                 *)
KernelFinishes == state # "s_idle" ~> state = "s_idle" /\ doneReg
=============================================================================
