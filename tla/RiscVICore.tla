----------------------------- MODULE RiscVICore -----------------------------
(***************************************************************************)
(* cpu/RiscVCore.scala: the in-order RV32I core, as Top elaborates it      *)
(* (useExtMem = true: loads and stores go to the word port).  An           *)
(* instruction is the record of the fields the decoder cuts from the word: *)
(* op (the opcode), rd, f3, rs1, rs2, alt (bit 30) and imm, the signed     *)
(* value of the immediate field of its format, sign bit included and       *)
(* fill not.  Words have IW bits, a quarter of them in a byte.             *)
(***************************************************************************)
EXTENDS Integers

LOCAL INSTANCE FiniteSetsExt

CONSTANTS
  ByteBits,       \* 8: bits of a byte
  ImmShift,       \* 12: position of the immediate of LUI and AUIPC
  nRegs,          \* 32
  nWords          \* 256: words of imem

VARIABLES
  imem, rf, pc, running, halted,
  memWait, memRd, memWr, ldByte, ldHalf, ldSigned

coreVars == <<imem, rf, pc, running, halted, memWait, memRd, memWr, ldByte, ldHalf, ldSigned>>

IW    == 4 * ByteBits
Word  == 0 .. 2^IW - 1
Wrap(n) == n % 2^IW
asSInt(w) == IF w < 2^(IW - 1) THEN w ELSE w - 2^IW

(* The bits of a word, and the word of a set of bits. *)
BitsOf(w) == {b \in 0 .. IW - 1 : (w \div 2^b) % 2 = 1}
WordOf(S) == MapThenSumSet(LAMBDA b : 2^b, S)

(* The bytes of a word on the port, each the set of its bits. *)
BytesOf(w) == [i \in 0 .. 3 |-> {b \in 0 .. ByteBits - 1 : ByteBits * i + b \in BitsOf(w)}]
FromBytes(bytes) ==
  WordOf(UNION {{ByteBits * i + b : b \in bytes[i]} : i \in 0 .. 3})

(* The word imem resets to: no opcode of the decoder. *)
Blank == [op |-> "none", rd |-> 0, f3 |-> 0, rs1 |-> 0, rs2 |-> 0, alt |-> FALSE, imm |-> 0]

----------------------------------------------------------------------------
(* Decode. *)
inst == imem[(pc \div 4) % nWords]

Is(op) == inst.op = op
memOp  == inst.op \in {"load", "store"}
rs1v   == rf[inst.rs1]
rs2v   == rf[inst.rs2]

immI == Wrap(inst.imm)
immS == Wrap(inst.imm)
immB == Wrap(inst.imm)
immU == Wrap(inst.imm * 2^ImmShift)
immJ == inst.imm % 2^(IW - 1)     \* Fill(11): 31 bits are put together, not 32

u2       == IF Is("op") THEN rs2v ELSE IF Is("store") THEN immS ELSE immI
addr     == Wrap(rs1v + u2)
shiftAmt == (IF Is("opimm") THEN immI ELSE rs2v) % IW

alu ==
  CASE inst.f3 = 0 -> Wrap(IF Is("op") /\ inst.alt THEN rs1v - rs2v ELSE rs1v + u2)
    [] inst.f3 = 1 -> Wrap(rs1v * 2^shiftAmt)
    [] inst.f3 = 2 -> IF asSInt(rs1v) < asSInt(u2) THEN 1 ELSE 0
    [] inst.f3 = 3 -> IF rs1v < u2 THEN 1 ELSE 0
    [] inst.f3 = 4 -> LET a == BitsOf(rs1v) b == BitsOf(u2)
                      IN  WordOf((a \ b) \cup (b \ a))
    [] inst.f3 = 5 -> Wrap((IF inst.alt THEN asSInt(rs1v) ELSE rs1v) \div 2^shiftAmt)
    [] inst.f3 = 6 -> WordOf(BitsOf(rs1v) \cup BitsOf(u2))
    [] inst.f3 = 7 -> WordOf(BitsOf(rs1v) \cap BitsOf(u2))

wbVal == CASE Is("lui") -> immU
           [] Is("auipc") -> Wrap(pc + immU)
           [] inst.op \in {"jal", "jalr"} -> Wrap(pc + 4)
           [] OTHER -> alu
wbEn  == inst.op \in {"op", "opimm", "lui", "auipc", "jal", "jalr"} /\ inst.rd # 0

brTaken ==
  /\ Is("branch")
  /\ CASE inst.f3 = 0 -> rs1v = rs2v
       [] inst.f3 = 1 -> rs1v # rs2v
       [] inst.f3 = 4 -> asSInt(rs1v) < asSInt(rs2v)
       [] inst.f3 = 5 -> ~ (asSInt(rs1v) < asSInt(rs2v))
       [] inst.f3 = 6 -> rs1v < rs2v
       [] inst.f3 = 7 -> ~ (rs1v < rs2v)
       [] OTHER -> FALSE

nextPc == CASE brTaken -> Wrap(pc + immB)
            [] Is("jal") -> Wrap(pc + immJ)
            [] Is("jalr") -> addr - (addr % 2)
            [] OTHER -> Wrap(pc + 4)

----------------------------------------------------------------------------
(* The word port; size as in WordMemReq, 0 = word, 1 = half, 2 = byte. *)
byteAccess == inst.f3 \in {0, 4}
halfAccess == inst.f3 \in {1, 5}

reqValid  == running /\ ~ halted /\ ~ memWait /\ memOp
req       == [addr |-> addr, data |-> BytesOf(rs2v), isWrite |-> Is("store"),
              size |-> IF byteAccess THEN 2 ELSE IF halfAccess THEN 1 ELSE 0]
respReady == memWait

(* What a load leaves in its register of the bytes it is answered. *)
Extended(w, width) ==
  LET low == w % 2^width
  IN  IF ldSigned /\ low >= 2^(width - 1) THEN low + 2^IW - 2^width ELSE low
mres(bytes) ==
  LET w == FromBytes(bytes)
  IN  IF ldByte THEN Extended(w, ByteBits)
      ELSE IF ldHalf THEN Extended(w, 2 * ByteBits) ELSE w

----------------------------------------------------------------------------
Init ==
  /\ imem = [a \in 0 .. nWords - 1 |-> Blank]
  /\ rf = [r \in 0 .. nRegs - 1 |-> 0]
  /\ pc = 0 /\ running = FALSE /\ halted = FALSE
  /\ memWait = FALSE /\ memRd = 0 /\ memWr = FALSE
  /\ ldByte = FALSE /\ ldHalf = FALSE /\ ldSigned = FALSE

waitVars == <<memWait, memRd, memWr, ldByte, ldHalf, ldSigned>>

(* The request is taken: the pc moves on and what the answer is for is     *)
(* kept.                                                                   *)
Issue ==
  /\ memRd' = inst.rd /\ memWr' = Is("store")
  /\ ldByte' = byteAccess /\ ldHalf' = halfAccess
  /\ ldSigned' = (inst.f3 \in {0, 1, 2})
  /\ memWait' = TRUE
  /\ pc' = nextPc
  /\ UNCHANGED <<rf, halted>>

(* Mutants: a store's answer is written to the register its word has where *)
(* a load has rd; the answer of a store is never taken.                    *)
AnswerStore(bytes) ==
  /\ rf' = IF memRd # 0 THEN [rf EXCEPT ![memRd] = mres(bytes)] ELSE rf
  /\ memWait' = FALSE
  /\ UNCHANGED <<pc, halted, memRd, memWr, ldByte, ldHalf, ldSigned>>

AnswerLoadOnly(bytes) ==
  /\ rf' = IF ~ memWr /\ memRd # 0 THEN [rf EXCEPT ![memRd] = mres(bytes)] ELSE rf
  /\ memWait' = memWr
  /\ UNCHANGED <<pc, halted, memRd, memWr, ldByte, ldHalf, ldSigned>>

Answer(bytes) ==
  /\ rf' = IF ~ memWr /\ memRd # 0 THEN [rf EXCEPT ![memRd] = mres(bytes)] ELSE rf
  /\ memWait' = FALSE
  /\ UNCHANGED <<pc, halted, memRd, memWr, ldByte, ldHalf, ldSigned>>

Halt ==
  /\ halted' = TRUE
  /\ UNCHANGED <<rf, pc, waitVars>>

Execute ==
  /\ rf' = IF wbEn THEN [rf EXCEPT ![inst.rd] = wbVal] ELSE rf
  /\ pc' = nextPc
  /\ UNCHANGED <<halted, waitVars>>

(* One cycle: `prog' holds the word written to imem, if any; `start' is    *)
(* the pin; reqReady and `resp' are what the word port sees.               *)
Cycle(prog, start, reqReady, resp) ==
  /\ running' = (running \/ start)
  /\ imem' = [a \in DOMAIN imem |->
                IF \E p \in prog : p.addr = a THEN (CHOOSE p \in prog : TRUE).data
                ELSE imem[a]]
  /\ \/ running /\ ~ halted /\ memWait /\ \E bytes \in resp : Answer(bytes)
     \/ reqValid /\ reqReady /\ Issue
     \/ running /\ ~ halted /\ ~ memWait /\ Is("halt") /\ Halt
     \/ running /\ ~ halted /\ ~ memWait /\ ~ memOp /\ ~ Is("halt") /\ Execute
     \/ /\ running /\ ~ halted =>
             IF memWait THEN resp = {} ELSE memOp /\ ~ reqReady
        /\ UNCHANGED <<rf, pc, halted, waitVars>>
=============================================================================
