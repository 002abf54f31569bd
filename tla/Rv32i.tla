------------------------------- MODULE Rv32i --------------------------------
(***************************************************************************)
(* What RiscVICore promises a programmer ("implements the RV32I base       *)
(* integer subset", README.md): instructions are executed one at a time,   *)
(* each at one instant and as the RV32I manual defines it, over registers  *)
(* and a memory that other agents write too.  Registers hold numbers below *)
(* 2^XLEN; an instruction has the fields of module RiscVICore, imm being   *)
(* the signed offset or operand it encodes.  An access that crosses the    *)
(* end of a memory line is cut there.                                      *)
(***************************************************************************)
EXTENDS Integers

LOCAL INSTANCE FiniteSetsExt

CONSTANTS
  ByteBits, ImmShift, nRegs, nWords,
  LineBytes, LineId,      \* bytes of a line, lines of the memory
  Line                    \* contents of a line

VARIABLES
  code,           \* the program
  on, stopped,    \* started; halted
  pc, x,          \* program counter and registers
  mem,            \* [LineId -> contents]
  others          \* the write another port has in service, if any

isaVars == <<code, on, stopped, pc, x, mem, others>>

XLEN == 4 * ByteBits
Uns(n) == n % 2^XLEN
Sgn(n) == IF n >= 2^(XLEN - 1) THEN n - 2^XLEN ELSE n
Set(r, v) == [x EXCEPT ![r] = IF r = 0 THEN 0 ELSE Uns(v)]
Bit(n, b) == (n \div 2^b) % 2
PerBit(a, b, f(_, _)) ==
  MapThenSumSet(LAMBDA k : f(Bit(a, k), Bit(b, k)) * 2^k, 0 .. XLEN - 1)

(* Memory accesses of n bytes. *)
lineAt(a) == (a \div LineBytes) % Cardinality(LineId)
Reach(a, n) == {i \in 0 .. n - 1 : (a % LineBytes) + i < LineBytes}
Number(bits) == MapThenSumSet(LAMBDA b : 2^b, bits)
Fetch(a, n) ==
  MapThenSumSet(LAMBDA i : Number(mem[lineAt(a)][(a % LineBytes) + i]) * 2^(ByteBits * i),
                Reach(a, n))
Put(a, n, v) ==
  [mem EXCEPT ![lineAt(a)] =
     [o \in DOMAIN @ |->
        IF o - (a % LineBytes) \in 0 .. n - 1
        THEN {b \in 0 .. ByteBits - 1 : Bit(v, ByteBits * (o - (a % LineBytes)) + b) = 1}
        ELSE @[o]]]

----------------------------------------------------------------------------
cur == code[(pc \div 4) % nWords]
a1 == x[cur.rs1]
a2 == x[cur.rs2]

Operate(b) ==
  CASE cur.f3 = 0 -> IF cur.op = "op" /\ cur.alt THEN a1 - b ELSE a1 + b
    [] cur.f3 = 1 -> a1 * 2^(b % XLEN)
    [] cur.f3 = 2 -> IF Sgn(a1) < Sgn(b) THEN 1 ELSE 0
    [] cur.f3 = 3 -> IF a1 < b THEN 1 ELSE 0
    [] cur.f3 = 4 -> PerBit(a1, b, LAMBDA p, q : (p + q) % 2)
    [] cur.f3 = 5 -> (IF cur.alt THEN Sgn(a1) ELSE a1) \div 2^(b % XLEN)
    [] cur.f3 = 6 -> PerBit(a1, b, LAMBDA p, q : IF p + q > 0 THEN 1 ELSE 0)
    [] cur.f3 = 7 -> PerBit(a1, b, LAMBDA p, q : p * q)

Taken ==
  CASE cur.f3 = 0 -> a1 = a2
    [] cur.f3 = 1 -> a1 # a2
    [] cur.f3 = 4 -> Sgn(a1) < Sgn(a2)
    [] cur.f3 = 5 -> Sgn(a1) >= Sgn(a2)
    [] cur.f3 = 6 -> a1 < a2
    [] cur.f3 = 7 -> a1 >= a2

(* An instruction that stays inside the core. *)
Compute ==
  /\ \/ cur.op = "opimm" /\ x' = Set(cur.rd, Operate(Uns(cur.imm))) /\ pc' = Uns(pc + 4)
     \/ cur.op = "op"    /\ x' = Set(cur.rd, Operate(a2)) /\ pc' = Uns(pc + 4)
     \/ cur.op = "lui"   /\ x' = Set(cur.rd, cur.imm * 2^ImmShift) /\ pc' = Uns(pc + 4)
     \/ cur.op = "auipc" /\ x' = Set(cur.rd, pc + cur.imm * 2^ImmShift) /\ pc' = Uns(pc + 4)
     \/ cur.op = "jal"   /\ x' = Set(cur.rd, pc + 4) /\ pc' = Uns(pc + cur.imm)
     \/ cur.op = "jalr"  /\ x' = Set(cur.rd, pc + 4) /\ pc' = 2 * (Uns(a1 + cur.imm) \div 2)
     \/ cur.op = "branch" /\ x' = x /\ pc' = IF Taken THEN Uns(pc + cur.imm) ELSE Uns(pc + 4)
     \/ cur.op = "none"  /\ x' = x /\ pc' = Uns(pc + 4)
  /\ UNCHANGED stopped

Stop == cur.op = "halt" /\ stopped' = TRUE /\ UNCHANGED <<x, pc>>

(* A load or store: f3 is 0, 1, 2 for a byte, half and word, plus 4 when   *)
(* the load is unsigned.                                                   *)
Access ==
  LET a == Uns(a1 + cur.imm)
      n == 2^(cur.f3 % 4)
      v == Fetch(a, n)
      negative == cur.f3 < 4 /\ v >= 2^(ByteBits * n - 1)
  IN  /\ \/ /\ cur.op = "load"
            /\ x' = Set(cur.rd, IF negative THEN v - 2^(ByteBits * n) ELSE v)
            /\ UNCHANGED mem
         \/ cur.op = "store" /\ mem' = Put(a, n, a2) /\ UNCHANGED x
      /\ pc' = Uns(pc + 4)
      /\ UNCHANGED stopped

(* The write of another port reaches the memory. *)
Foreign == \E w \in others : mem' = [mem EXCEPT ![w.line] = w.data]

Init ==
  /\ DOMAIN code = 0 .. nWords - 1
  /\ ~ on /\ ~ stopped
  /\ pc = 0 /\ x = [r \in 0 .. nRegs - 1 |-> 0]
  /\ mem \in [LineId -> Line]
  /\ others = {}

(* The program is written before the start, and kept from then on. *)
Load ==
  /\ ~ on
  /\ DOMAIN code' = DOMAIN code
  /\ UNCHANGED <<on, stopped, pc, x>>
Start == on' = TRUE /\ UNCHANGED <<code, stopped, pc, x>>
Run == on /\ ~ stopped /\ (Compute \/ Stop) /\ UNCHANGED <<code, on>>
Pause == UNCHANGED <<code, on, stopped, pc, x>>

Next ==
  /\ \/ on /\ ~ stopped /\ Access /\ UNCHANGED <<code, on>>
     \/ /\ Load \/ Start \/ Run \/ Pause
        /\ Foreign \/ UNCHANGED mem
  /\ others' \in SUBSET [line : LineId, data : Line]

Spec == Init /\ [][Next]_isaVars
=============================================================================
