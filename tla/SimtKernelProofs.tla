-------------------------- MODULE SimtKernelProofs --------------------------
(***************************************************************************)
(* The vector core computes its kernel for every number and width of       *)
(* lanes, every memory, every launch and whenever start is pulsed.         *)
(***************************************************************************)
EXTENDS SimtKernel, ArithmeticLemmas

States == {"s_idle", "s_rdX", "s_rdXr", "s_rdZ", "s_rdZr", "s_calc", "s_wrY", "s_wrYr"}

(* The base the access of a state adds to the line number. *)
AccessBase ==
  CASE state = "s_rdXr" -> xBase
    [] state = "s_rdZr" -> zBase
    [] state = "s_wrYr" -> yBase

(* The port holds the access the core waits for, and nothing otherwise. *)
PortInv ==
  port = IF respReady
         THEN {[line |-> line + AccessBase, data |-> yLine,
                isWrite |-> state = "s_wrYr"]}
         ELSE {}

(* The registers of a running kernel are those of the launch being run,    *)
(* and the line counter has not passed its last line.                      *)
RunningInv ==
  state # "s_idle" =>
    /\ current \in Launches
    /\ xBase = current.baseX /\ zBase = current.baseZ /\ yBase = current.baseY
    /\ nReg = current.nLines
    /\ line \in Nat /\ line < LinesRun(current)

(* The operands fetched are still the lines in memory: the core's own      *)
(* store comes after both.                                                 *)
OperandsInv ==
  /\ state \in {"s_rdZ", "s_rdZr", "s_calc", "s_wrY", "s_wrYr"}
       => xLine = mem[LineOf(xBase + line)]
  /\ state \in {"s_calc", "s_wrY", "s_wrYr"}
       => zLine = mem[LineOf(zBase + line)]

KernelInv ==
  /\ state \in States /\ doneReg \in BOOLEAN
  /\ mem \in Memory /\ before \in Memory
  /\ PortInv /\ RunningInv /\ OperandsInv
  /\ KernelResult

----------------------------------------------------------------------------
(* A line of the kernel takes a memory to a memory. *)
LEMMA StepLineTyped ==
  ASSUME NEW p \in Launches, NEW m \in Memory, NEW l \in Nat
  PROVE  StepLine(p, m, l) \in Memory
<1>1. p.baseX \in Nat /\ p.baseZ \in Nat /\ p.baseY \in Nat
  BY KernelAssumption
<1>2. MemLines \in Nat \ {0} /\ ElemMod \in Nat \ {0}
  BY KernelAssumption
<1>3. \A a \in Nat : LineOf(a) \in 0 .. MemLines - 1
  BY <1>2 DEF LineOf
<1>4. p.baseX + l \in Nat /\ p.baseZ + l \in Nat
  BY <1>1
<1> DEFINE x == m[LineOf(p.baseX + l)]
           z == m[LineOf(p.baseZ + l)]
<1>5. x \in [Lane -> Elem] /\ z \in [Lane -> Elem]
  BY <1>3, <1>4 DEF Memory
<1> HIDE DEF x, z
<1>6. ASSUME NEW e \in Lane PROVE (x[e] + z[e]) % ElemMod \in Elem
  <2>1. x[e] \in Nat /\ z[e] \in Nat
    BY <1>5 DEF Elem
  <2> QED BY <1>2, <2>1 DEF Elem
<1>7. [e \in Lane |-> (x[e] + z[e]) % ElemMod] \in [Lane -> Elem]
  BY <1>6
<1>8. StepLine(p, m, l)
        = [m EXCEPT ![LineOf(p.baseY + l)] = [e \in Lane |-> (x[e] + z[e]) % ElemMod]]
  BY DEF StepLine, x, z
<1> QED BY <1>7, <1>8 DEF Memory

(* The reference computation: line after line. *)
LEMMA KernelUnfold ==
  ASSUME NEW p \in Launches, NEW m \in Memory
  PROVE  /\ Kernel(p, m)[0] = m
         /\ \A n \in Nat : Kernel(p, m)[n + 1] = StepLine(p, Kernel(p, m)[n], n)
<1> DEFINE S == [n \in Nat |-> [v \in Memory |-> StepLine(p, v, n)]]
           Is(k) == k = [n \in Nat |-> IF n = 0 THEN m ELSE StepLine(p, k[n - 1], n - 1)]
<1>1. S \in [Nat -> [Memory -> Memory]]
  BY StepLineTyped
<1>2. PICK f : f \in [Nat -> Memory] /\ f[0] = m /\ \A n \in Nat : f[n + 1] = S[n][f[n]]
  <2> HIDE DEF S
  <2>1. \E f : Iterates(f, Memory, m, S)
    BY <1>1, IterationExists
  <2> QED BY <2>1 DEF Iterates
<1>3. ASSUME NEW n \in Nat
      PROVE  f[n] = IF n = 0 THEN m ELSE StepLine(p, f[n - 1], n - 1)
  <2>1. CASE n = 0
    BY <1>2, <2>1
  <2>2. CASE n # 0
    <3>1. n - 1 \in Nat /\ (n - 1) + 1 = n
      BY <2>2
    <3>2. f[(n - 1) + 1] = S[n - 1][f[n - 1]] /\ f[n - 1] \in Memory
      BY <1>2, <3>1
    <3>3. S[n - 1][f[n - 1]] = StepLine(p, f[n - 1], n - 1)
      BY <3>1, <3>2
    <3> QED BY <2>2, <3>1, <3>2, <3>3
  <2> QED BY <2>1, <2>2
<1>4. Is(f)
  BY <1>2, <1>3
<1> DEFINE k == Kernel(p, m)
<1>5. Is(k)
  BY <1>4 DEF Kernel
<1> HIDE DEF k
<1>6. k[0] = m
  BY <1>5
<1>7. ASSUME NEW n \in Nat PROVE k[n + 1] = StepLine(p, k[n], n)
  <2>1. n + 1 \in Nat /\ n + 1 # 0 /\ (n + 1) - 1 = n
    OBVIOUS
  <2>2. k[n + 1] = StepLine(p, k[(n + 1) - 1], (n + 1) - 1)
    BY <1>5, <2>1
  <2> QED BY <2>1, <2>2
<1> QED BY <1>6, <1>7 DEF k

(* A launch runs at least one line, and the last-line test is true at its  *)
(* last line and no other.                                                 *)
LEMMA LastLine ==
  ASSUME NEW p \in Launches, NEW l \in Nat, l < LinesRun(p)
  PROVE  /\ 0 < LinesRun(p) /\ LinesRun(p) \in Nat /\ LinesRun(p) <= LineMod
         /\ l = (p.nLines - 1) % LineMod <=> l + 1 = LinesRun(p)
         /\ l + 1 # LinesRun(p) => (l + 1) % LineMod = l + 1
<1>1. p.nLines \in 0 .. LineMod - 1 /\ LineMod \in Nat \ {0}
  BY KernelAssumption
<1>2. CASE p.nLines = 0
  <2>1. (0 - 1) % LineMod = LineMod - 1
    BY <1>1
  <2> QED BY <1>1, <1>2, <2>1 DEF LinesRun
<1>3. CASE p.nLines # 0
  <2>1. (p.nLines - 1) % LineMod = p.nLines - 1
    BY <1>1, <1>3
  <2> QED BY <1>1, <1>3, <2>1 DEF LinesRun
<1> QED BY <1>2, <1>3

----------------------------------------------------------------------------
(* A latched launch: the kernel is at its first line, memory untouched. *)
LEMMA LaunchStep ==
  ASSUME KernelInv, NEW start \in Starts, Launch(start), Host(start),
         UNCHANGED <<mem, port>>
  PROVE  KernelInv'
<1>1. state = "s_idle" /\ state' = "s_rdX" /\ line' = 0
  BY DEF Launch
<1>2. PICK p \in Launches : start = {p}
  BY <1>1 DEF Launch, Starts
<1>3. (CHOOSE q \in start : TRUE) = p
  BY <1>2
<1>4. current' = p /\ before' = mem /\ doneReg' = FALSE
  BY <1>1, <1>2, <1>3 DEF Host, Launch, Cleared
<1>5. xBase' = p.baseX /\ zBase' = p.baseZ /\ yBase' = p.baseY /\ nReg' = p.nLines
  BY <1>2 DEF Launch
<1>6. PortInv'
  BY <1>1 DEF KernelInv, PortInv, respReady
<1>7. RunningInv'
  <2>1. p.nLines \in 0 .. LineMod - 1 /\ LineMod \in Nat \ {0}
    BY KernelAssumption
  <2>2. 0 < LinesRun(p)
    BY <2>1 DEF LinesRun
  <2> QED BY <1>1, <1>4, <1>5, <2>2 DEF RunningInv, LinesRun
<1>8. KernelResult'
  <2>1. mem \in Memory
    BY DEF KernelInv
  <2>2. Kernel(p, mem)[0] = mem
    BY <2>1, KernelUnfold
  <2>3. Kernel(current, before)' = Kernel(p, mem)
    BY <1>4 DEF Kernel, StepLine, LineOf
  <2> QED BY <1>1, <1>4, <2>2, <2>3 DEF KernelResult
<1> QED BY <1>1, <1>4, <1>6, <1>7, <1>8 DEF KernelInv, States, OperandsInv

(* Outside s_idle the launch on the pins only clears a flag that is down. *)
LEMMA Undisturbed ==
  ASSUME KernelInv, NEW start, state # "s_idle", Host(start)
  PROVE  /\ current' = current /\ before' = before
         /\ doneReg = FALSE
         /\ Cleared(start) => doneReg' = FALSE
         /\ Kernel(current, before)' = Kernel(current, before)
         /\ LinesRun(current)' = LinesRun(current)
<1>1. current' = current /\ before' = before
  BY DEF Host
<1>2. doneReg \in BOOLEAN /\ ~ doneReg
  BY DEF KernelInv, KernelResult
<1>3. Cleared(start) => doneReg' = FALSE
  BY <1>2 DEF Cleared
<1> QED BY <1>1, <1>2, <1>3 DEF Kernel, StepLine, LineOf, LinesRun

(* A step that keeps the registers, the memory and the line being run      *)
(* keeps the kernel's progress.                                            *)
LEMMA ProgressKept ==
  ASSUME KernelInv, NEW start, state # "s_idle", Host(start), Cleared(start),
         state' \in States \ {"s_idle"},
         UNCHANGED <<xBase, zBase, yBase, nReg, line, mem>>
  PROVE  /\ RunningInv' /\ KernelResult'
         /\ mem' \in Memory /\ before' \in Memory /\ doneReg' \in BOOLEAN
<1>1. /\ current' = current /\ before' = before /\ doneReg' = FALSE
      /\ Kernel(current, before)' = Kernel(current, before)
      /\ LinesRun(current)' = LinesRun(current)
  BY Undisturbed
<1>2. RunningInv'
  BY <1>1 DEF KernelInv, RunningInv
<1>3. KernelResult'
  BY <1>1 DEF KernelInv, KernelResult
<1> QED BY <1>1, <1>2, <1>3 DEF KernelInv

(* The port accepts a request: it now holds the access waited for. *)
LEMMA AcceptKeeps ==
  ASSUME KernelInv, NEW start, Accepts(start), Host(start)
  PROVE  KernelInv'
<1>1. /\ state \in {"s_rdX", "s_rdZ", "s_wrY"}
      /\ Cleared(start) /\ port' = {req}
      /\ UNCHANGED <<xBase, zBase, yBase, nReg, line, xLine, zLine, mem>>
  BY DEF Accepts, Request, reqValid
<1>2. /\ state = "s_rdX" => state' = "s_rdXr"
      /\ state = "s_rdZ" => state' = "s_rdZr"
      /\ state = "s_wrY" => state' = "s_wrYr"
  BY DEF Accepts, Request
<1>3. state' \in {"s_rdXr", "s_rdZr", "s_wrYr"}
  BY <1>1, <1>2
<1>4. /\ RunningInv' /\ KernelResult'
      /\ mem' \in Memory /\ before' \in Memory /\ doneReg' \in BOOLEAN
  BY <1>1, <1>3, ProgressKept DEF States
<1>5. yLine' = yLine
  BY <1>1 DEF yLine, AddLines
<1>6. PortInv'
  BY <1>1, <1>2, <1>5 DEF PortInv, respReady, AccessBase, req
<1>7. OperandsInv'
  BY <1>1, <1>2 DEF KernelInv, OperandsInv, LineOf
<1> QED BY <1>3, <1>4, <1>6, <1>7 DEF KernelInv, States

(* A cycle in which the core waits, or moves from s_calc to s_wrY. *)
LEMMA WaitKeeps ==
  ASSUME KernelInv, NEW start, Host(start), UNCHANGED <<mem, port>>,
         Request(FALSE, start) \/ AwaitResp(start) \/ Calc(start)
  PROVE  KernelInv'
<1>1. /\ state # "s_idle" /\ Cleared(start)
      /\ UNCHANGED <<xBase, zBase, yBase, nReg, line, xLine, zLine>>
      /\ \/ state' = state
         \/ state = "s_calc" /\ state' = "s_wrY"
  BY DEF Request, reqValid, AwaitResp, respReady, Calc
<1>2. state' \in States \ {"s_idle"}
  BY <1>1 DEF KernelInv, States
<1>3. /\ RunningInv' /\ KernelResult'
      /\ mem' \in Memory /\ before' \in Memory /\ doneReg' \in BOOLEAN
  BY <1>1, <1>2, ProgressKept
<1>4. yLine' = yLine
  BY <1>1 DEF yLine, AddLines
<1>5. PortInv'
  BY <1>1, <1>4 DEF KernelInv, PortInv, respReady, AccessBase
<1>6. OperandsInv'
  BY <1>1 DEF KernelInv, OperandsInv, LineOf
<1> QED BY <1>2, <1>3, <1>5, <1>6 DEF KernelInv

(* What the access in the port is when the core takes its answer. *)
LEMMA PortHolds ==
  ASSUME KernelInv, NEW r \in port
  PROVE  /\ r.isWrite <=> state = "s_wrYr"
         /\ r.data = yLine
         /\ state = "s_rdXr" => r.line = line + xBase
         /\ state = "s_rdZr" => r.line = line + zBase
         /\ state = "s_wrYr" => r.line = line + yBase
<1>1. r = [line |-> line + AccessBase, data |-> yLine, isWrite |-> state = "s_wrYr"]
  BY DEF KernelInv, PortInv
<1> QED BY <1>1 DEF AccessBase

(* The answer to a read fills the operand with the line as it is now. *)
LEMMA TakeOperand ==
  ASSUME KernelInv, NEW start, Host(start), NEW r \in port,
         \/ TakeX(mem[LineOf(r.line)], start)
         \/ TakeZ(mem[LineOf(r.line)], start),
         mem' = IF r.isWrite THEN [mem EXCEPT ![LineOf(r.line)] = r.data] ELSE mem,
         port' = {}
  PROVE  KernelInv'
<1>1. /\ state \in {"s_rdXr", "s_rdZr"}
      /\ state = "s_rdXr" => /\ state' = "s_rdZ" /\ zLine' = zLine
                             /\ xLine' = mem[LineOf(r.line)]
      /\ state = "s_rdZr" => /\ state' = "s_calc" /\ xLine' = xLine
                             /\ zLine' = mem[LineOf(r.line)]
      /\ Cleared(start)
      /\ UNCHANGED <<xBase, zBase, yBase, nReg, line>>
  BY DEF TakeX, TakeZ
<1>2. mem' = mem
  BY <1>1, PortHolds
<1>3. state' \in {"s_rdZ", "s_calc"}
  BY <1>1
<1>4. /\ RunningInv' /\ KernelResult'
      /\ mem' \in Memory /\ before' \in Memory /\ doneReg' \in BOOLEAN
  BY <1>1, <1>2, <1>3, ProgressKept DEF States
<1>5. PortInv'
  BY <1>3 DEF PortInv, respReady
<1>6. OperandsInv'
  <2>1. /\ line \in Nat /\ xBase \in Nat /\ zBase \in Nat
    BY <1>1, KernelAssumption DEF KernelInv, RunningInv
  <2>2. line + xBase = xBase + line /\ line + zBase = zBase + line
    BY <2>1
  <2>3. CASE state = "s_rdXr"
    BY <1>1, <1>2, <2>2, <2>3, PortHolds DEF OperandsInv, LineOf
  <2>4. CASE state = "s_rdZr"
    BY <1>1, <1>2, <2>2, <2>4, PortHolds DEF KernelInv, OperandsInv, LineOf
  <2> QED BY <1>1, <2>3, <2>4
<1> QED BY <1>3, <1>4, <1>5, <1>6 DEF KernelInv, States

(* The answer to the store completes the line, and the kernel with its     *)
(* last one.                                                               *)
LEMMA TakeResult ==
  ASSUME KernelInv, NEW start, Host(start), NEW r \in port, TakeY(start),
         mem' = IF r.isWrite THEN [mem EXCEPT ![LineOf(r.line)] = r.data] ELSE mem,
         port' = {}
  PROVE  KernelInv'
<1>1. /\ state = "s_wrYr" /\ line' = (line + 1) % LineMod
      /\ UNCHANGED <<xBase, zBase, yBase>>
  BY DEF TakeY
<1>2. /\ current \in Launches
      /\ xBase = current.baseX /\ zBase = current.baseZ /\ yBase = current.baseY
      /\ nReg = current.nLines
      /\ line \in Nat /\ line < LinesRun(current)
  BY <1>1 DEF KernelInv, RunningInv
<1>3. /\ current' = current /\ before' = before
      /\ Cleared(start) => doneReg' = FALSE
      /\ Kernel(current, before)' = Kernel(current, before)
      /\ LinesRun(current)' = LinesRun(current)
  BY <1>1, Undisturbed
<1>4. mem \in Memory /\ before \in Memory
  BY DEF KernelInv
<1>5. mem' = StepLine(current, mem, line)
  <2>1. yBase \in Nat /\ line + yBase = yBase + line
    BY <1>2, KernelAssumption
  <2>2. mem' = [mem EXCEPT ![LineOf(yBase + line)] = yLine]
    BY <1>1, <2>1, PortHolds
  <2>3. xLine = mem[LineOf(xBase + line)] /\ zLine = mem[LineOf(zBase + line)]
    BY <1>1 DEF KernelInv, OperandsInv
  <2> QED BY <1>2, <2>2, <2>3 DEF StepLine, yLine, AddLines
<1>6. mem' \in Memory
  BY <1>2, <1>4, <1>5, StepLineTyped
<1>7. mem' = Kernel(current, before)[line + 1]
  <2>1. mem = Kernel(current, before)[line]
    BY <1>1 DEF KernelInv, KernelResult
  <2> QED BY <1>2, <1>4, <1>5, <2>1, KernelUnfold
<1>8. /\ lastLine <=> line + 1 = LinesRun(current)
      /\ line + 1 # LinesRun(current) => line' = line + 1
      /\ LinesRun(current) \in Nat
  BY <1>1, <1>2, LastLine DEF lastLine
<1>9. CASE lastLine
  <2>1. state' = "s_idle" /\ doneReg' = TRUE
    BY <1>9 DEF TakeY
  <2> QED BY <1>3, <1>4, <1>6, <1>7, <1>8, <1>9, <2>1
      DEF KernelInv, States, PortInv, respReady, RunningInv, OperandsInv, KernelResult
<1>10. CASE ~ lastLine
  <2>1. state' = "s_rdX" /\ doneReg' = FALSE /\ nReg' = nReg
    BY <1>3, <1>10 DEF TakeY
  <2>2. line' = line + 1 /\ line' \in Nat /\ line' < LinesRun(current)
    BY <1>2, <1>8, <1>10
  <2>3. RunningInv'
    BY <1>1, <1>2, <1>3, <2>1, <2>2 DEF RunningInv
  <2>4. KernelResult'
    BY <1>3, <1>7, <2>1, <2>2 DEF KernelResult
  <2> QED BY <1>3, <1>4, <1>6, <2>1, <2>3, <2>4
      DEF KernelInv, States, PortInv, respReady, OperandsInv
<1> QED BY <1>9, <1>10

----------------------------------------------------------------------------
(* The invariant is about the state alone. *)
LEMMA IdleKeeps ==
  ASSUME KernelInv, UNCHANGED kernelVars
  PROVE  KernelInv'
<1>1. UNCHANGED <<state, xBase, zBase, yBase, nReg, line, xLine, zLine, doneReg,
                  mem, port, current, before>>
  BY DEF kernelVars, simtVars
<1>2. PortInv'
  <2>1. yLine' = yLine
    BY <1>1 DEF yLine, AddLines
  <2>2. PortInv
    BY DEF KernelInv
  <2> QED BY ONLY <1>1, <2>1, <2>2 DEF PortInv, respReady, AccessBase
<1>3. RunningInv'
  <2>1. LinesRun(current)' = LinesRun(current)
    BY <1>1 DEF LinesRun
  <2>2. RunningInv
    BY DEF KernelInv
  <2> QED BY ONLY <1>1, <2>1, <2>2 DEF RunningInv
<1>4. OperandsInv'
  BY <1>1 DEF KernelInv, OperandsInv, LineOf
<1>5. KernelResult'
  <2>1. /\ LinesRun(current)' = LinesRun(current)
        /\ Kernel(current, before)' = Kernel(current, before)
    BY <1>1 DEF LinesRun, Kernel, StepLine, LineOf
  <2>2. KernelResult
    BY DEF KernelInv
  <2> QED BY ONLY <1>1, <2>1, <2>2 DEF KernelResult
<1> QED BY <1>1, <1>2, <1>3, <1>4, <1>5 DEF KernelInv

(* Every cycle of the core keeps the invariant. *)
LEMMA KernelInvariant == KernelSpec => []KernelInv
<1>1. KernelInit => KernelInv
  BY DEF KernelInit, Init, KernelInv, States, PortInv, respReady, RunningInv,
         OperandsInv, KernelResult
<1>2. KernelInv /\ [KernelNext]_kernelVars => KernelInv'
  <2> SUFFICES ASSUME KernelInv, [KernelNext]_kernelVars PROVE KernelInv'
    OBVIOUS
  <2>1. CASE AcceptStep
    BY <2>1, AcceptKeeps DEF AcceptStep
  <2>2. CASE AnswerStep
    BY <2>2, TakeOperand, TakeResult DEF AnswerStep, Answers
  <2>3. CASE ComputeStep
    BY <2>3, WaitKeeps DEF ComputeStep, Computes
  <2>4. CASE QuietStep
    <3>1. PICK start \in Starts : Quiet(start) /\ Host(start)
      BY <2>4 DEF QuietStep
    <3>2. CASE Launch(start)
      BY <3>1, <3>2, LaunchStep DEF Quiet
    <3>3. CASE Request(FALSE, start) \/ AwaitResp(start)
      BY <3>1, <3>3, WaitKeeps DEF Quiet
    <3>4. CASE Idle(start)
      <4>1. UNCHANGED kernelVars
        BY <3>1, <3>4 DEF Quiet, Idle, Host, kernelVars
      <4> QED BY <4>1, IdleKeeps
    <3> QED BY <3>1, <3>2, <3>3, <3>4 DEF Quiet
  <2>5. CASE UNCHANGED kernelVars
    BY <2>5, IdleKeeps
  <2> QED BY <2>1, <2>2, <2>3, <2>4, <2>5 DEF KernelNext
<1> QED BY <1>1, <1>2, PTL DEF KernelSpec

(* For every number of lanes, element width, memory and set of launches:   *)
(* memory holds at every instant what Y = X + Z gives, line after line, up *)
(* to the line in progress, and all of it once done is up, whenever start  *)
(* is pulsed and however the three arrays overlap.                         *)
THEOREM SimtComputesKernel == KernelSpec => []KernelResult
<1>1. KernelInv => KernelResult
  BY DEF KernelInv
<1> QED BY <1>1, KernelInvariant, PTL
=============================================================================
