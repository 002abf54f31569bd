------------------------------ MODULE MCCpuLane -----------------------------
(***************************************************************************)
(* Bytes of two bits, words of eight, four registers.  Two lines of five   *)
(* bytes share a bank: a word is at the start, at the end or across the    *)
(* end of one.  The programs with loads and stores run against ports that  *)
(* overwrite either line or read one; the others leave the memory alone.   *)
(***************************************************************************)
EXTENDS CpuLane

MCBytes == 0 .. LineBytes - 1
MCLine == [MCBytes -> SUBSET {0, 1}]
MCZero == [b \in MCBytes |-> {}]
MCPowerUp == {[b \in MCBytes |-> {0}]}
MCAddr == {0, LineBytes}

I(op, rd, f3, rs1, rs2, alt, imm) ==
  [op |-> op, rd |-> rd, f3 |-> f3, rs1 |-> rs1, rs2 |-> rs2, alt |-> alt, imm |-> imm]
addi(rd, rs1, imm)     == I("opimm", rd, 0, rs1, 0, FALSE, imm)
load(f3, rd, rs1, imm) == I("load", rd, f3, rs1, 0, FALSE, imm)
\* the destination field of a store is part of its offset
store(f3, rs2, rs1, imm) == I("store", imm % nRegs, f3, rs1, rs2, FALSE, imm)
branch(f3, rs1, rs2, imm) == I("branch", 0, f3, rs1, rs2, FALSE, imm)
jal(rd, imm)           == I("jal", rd, 0, 0, 0, FALSE, imm)
jalr(rd, rs1, imm)     == I("jalr", rd, 0, rs1, 0, FALSE, imm)
halt                   == I("halt", 0, 7, 0, 0, TRUE, 0)

MCTraffic ==
  {[addr |-> 0, data |-> [b \in MCBytes |-> {1}], isWrite |-> TRUE],
   [addr |-> LineBytes, data |-> MCZero, isWrite |-> TRUE],
   [addr |-> 0, data |-> MCZero, isWrite |-> FALSE]}

\* every width and extension, at both ends of a line; x0 is a destination too
Loads ==
  <<addi(1, 0, -78), store(2, 1, 0, 1), load(0, 2, 0, 1), load(5, 3, 0, 3),
    load(1, 2, 0, 3), load(4, 3, 0, 4), load(2, 0, 0, 1), halt>>
\* a word across the end of its line, then a byte between its neighbours, counted by a loop
Stores ==
  <<addi(1, 0, 1), addi(2, 0, -7), store(2, 2, 1, 2), store(0, 1, 1, 5),
    load(2, 3, 1, 5), addi(1, 1, -1), branch(5, 1, 0, -16), halt>>

\* every operation on registers, then with an immediate
Arith(a, b) ==
  <<addi(1, 0, a), addi(2, 0, b)>>
    \o [k \in 1 .. 8 |-> I("op", 3, k - 1, 1, 2, FALSE, 0)]
    \o <<I("op", 3, 0, 1, 2, TRUE, 0), I("op", 3, 5, 1, 2, TRUE, 0)>>
    \o [k \in 1 .. 8 |-> I("opimm", 3, k - 1, 1, 0, FALSE, b)]
    \o <<I("opimm", 3, 5, 1, 0, TRUE, b), halt>>

\* every branch over the instruction behind it, then a call and its return
Flow(a, b) ==
  <<addi(1, 0, a), addi(2, 0, b)>>
    \o [k \in 1 .. 12 |-> IF k % 2 = 0 THEN addi(3, 3, k)
                          ELSE branch(<<0, 1, 4, 5, 6, 7>>[(k + 1) \div 2], 1, 2, 8)]
    \o <<I("auipc", 3, 0, 0, 0, FALSE, 1), I("lui", 2, 0, 0, 0, FALSE, -3),
         jal(1, 12), addi(2, 3, 1), jal(0, 12), addi(3, 1, 0), jalr(0, 1, 0), halt>>

\* the jump at address 8 goes back to the halt
Back == <<jal(0, 8), halt, jal(1, -4)>>

Pairs == {<<-78, 3>>, <<77, -128>>, <<-1, 9>>, <<5, 5>>, <<-128, 127>>}

\* no load or store, and no other traffic
Alone(p) == [code |-> p, others |-> {}]
MCPrograms ==
  {[code |-> Loads, others |-> MCTraffic], [code |-> Stores, others |-> MCTraffic]}
    \cup {Alone(Arith(p[1], p[2])) : p \in Pairs}
    \cup {Alone(Flow(p[1], p[2])) : p \in Pairs}
MCJump == {Alone(Back)}
=============================================================================
