------------------------------ MODULE CpuLane -------------------------------
(***************************************************************************)
(* The CPU lane of Top: RiscVICore behind CoreMemToHBM on the cpu port of  *)
(* SplitPrioritizer.  The host writes a program of Programs into imem word *)
(* by word and then pulses start; the GPU and accelerator ports present    *)
(* any request of the program's `others' in any cycle.  Core, adapter and  *)
(* stack all take a step in every cycle, through the wires between them.   *)
(***************************************************************************)
EXTENDS SplitPrioritizer, Sequences

CONSTANTS
  LaneModes,                          \* QoS modes considered
  PowerUp,                            \* initial contents of the stack's data register
  ByteBits, ImmShift, nRegs, nWords,  \* of the core
  Programs                            \* a set of [code, others]

ASSUME LaneAssumption ==
  /\ LaneModes \subseteq Mode /\ PowerUp \subseteq Line
  /\ \A p \in Programs : p.others \subseteq MemReq

VARIABLES
  imem, rf, pc, running, halted,                                  \* core
  memWait, memRd, memWr, ldByte, ldHalf, ldSigned,
  cState, addrReg, dataReg, isWrReg, sizeReg, lineReg, offReg,    \* cpuAdp
  app, loaded,    \* host: the program, and how many of its words are in imem
  memPc           \* history: address of the last instruction that accessed memory

Core == INSTANCE RiscVICore
Adp  == INSTANCE CoreMemToHBM WITH state <- cState

laneVars == <<splitVars, Core!coreVars, Adp!adpVars, app, loaded, memPc>>

code == app.code

(* The wires of the cycle between core and cpuAdp... *)
word     == IF Core!reqValid THEN {Core!req} ELSE {}
coreResp == IF Adp!wordRespValid THEN {Adp!wordRespBits} ELSE {}

(* ... and between cpuAdp and the fabric. *)
cpuAvail == IF Adp!hbmReqValid THEN {CPU} ELSE {}
Bits(other) == [p \in Port |-> IF p = CPU THEN Adp!hbmReq ELSE other]
cpuResp == IF respPort = CPU THEN {respBits} ELSE {}
respReady == {GPU, ACC} \cup (IF Adp!hbmRespReady THEN {CPU} ELSE {})

LaneInit ==
  /\ SplitInit /\ mode \in LaneModes /\ rData \in PowerUp
  /\ Core!Init /\ Adp!Init
  /\ app \in Programs /\ loaded = 0
  /\ memPc = 0

(* A cycle of the memory, with what the adapter sees of it. *)
MemCycle ==
  \/ \E S \in SUBSET {GPU, ACC}, other \in app.others :
       LET avail == cpuAvail \cup S
       IN  /\ Grant(avail, Bits(other))
           /\ Adp!Cycle(word, sel(avail) = CPU, {}, Core!respReady)
  \/ /\ NoRequest(cpuAvail) \/ Busy
     /\ Adp!Cycle(word, FALSE, {}, Core!respReady)
  \/ /\ Respond(respReady)
     /\ Adp!Cycle(word, FALSE, cpuResp, Core!respReady)

(* What the host drives: the next word of the program, or start once all   *)
(* are in, or nothing.                                                     *)
CoreCycle ==
  \E prog \in {{}} \cup {{[addr |-> loaded, data |-> code[n]]} : n \in DOMAIN code \cap {loaded + 1}},
     start \in {FALSE, loaded = Len(code) /\ ~ running} :
       /\ Core!Cycle(prog, start, Adp!wordReqReady, coreResp)
       /\ loaded' = loaded + IF prog = {} THEN 0 ELSE 1

LaneNext ==
  /\ MemCycle
  /\ CoreCycle
  /\ memPc' = IF Adp!wordReqReady /\ word # {} THEN pc ELSE memPc
  /\ UNCHANGED app

(* The clock runs. *)
LaneSpec == LaneInit /\ [][LaneNext]_laneVars /\ WF_laneVars(LaneNext)
----------------------------------------------------------------------------
(* The read and the write of a store are one step to every other port: the *)
(* line being merged is still, at the address it is written back to, the   *)
(* line in memory.                                                         *)
(* It holds in the CPU-priority modes, where nothing can be granted        *)
(* between the two; a refresh may come between them.                       *)
FetchedLineCurrent ==
  cState \in {"s_wrreq", "s_wrresp"} /\ isWrReg =>
    lineReg = cells[cellOf(lineOf(Adp!hbmReq.addr))]

(* The store's word put into a line, and the cell of the store's line. *)
StoredInto(line) ==
  [b \in Adp!Offset |->
     (IF b - offReg \in 0 .. Adp!bytesOf(sizeReg) - 1 THEN {} ELSE line[b])
       \cup (IF b - offReg \in Adp!Lanes THEN dataReg[b - offReg] ELSE {})]
StoreCell == cellOf(lineOf(Adp!hbmReq.addr))

(* In those modes a store of the CPU changes memory in one step that puts  *)
(* its word into the line as it is at that step: no write of another port  *)
(* between the adapter's read and its write is undone.                     *)
StoreIsOneStep ==
  [][cpu_priority /\ respPort = CPU /\ cells' # cells
       => cells' = [cells EXCEPT ![StoreCell] = StoredInto(cells[StoreCell])]]_laneVars

(* The write another port has in service, if any. *)
Others == IF respValid /\ rW /\ respPort # CPU
          THEN {[line |-> lineOf(rAddr) % Capacity, data |-> rData]} ELSE {}

(* The lane as a programmer sees it: a load or store is executed when the  *)
(* memory performs it, after its pc has moved on and before its register   *)
(* is written.                                                             *)
ISA == INSTANCE Rv32i
         WITH code <- imem, on <- running, stopped <- halted,
              pc <- IF memWait /\ coreResp = {} THEN memPc ELSE pc,
              x <- [r \in DOMAIN rf |->
                      IF memWait /\ coreResp # {} /\ ~ memWr /\ r # 0 /\ r = memRd
                      THEN Core!mres(Adp!wordRespBits) ELSE rf[r]],
              mem <- memView,
              others <- Others

(* The core, its adapter and the shared stack together execute the program *)
(* one instruction at a time as RV32I defines it, although a load or store *)
(* takes many cycles, moves the pc first and its register last, and other  *)
(* ports write the memory meanwhile.                                       *)
CoreImplementsIsa == ISA!Spec

(* A program that ends by itself reaches its halt, whatever the other      *)
(* ports ask for: every load and store is granted and answered.            *)
ProgramHalts == running ~> halted
=============================================================================
