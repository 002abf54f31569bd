------------------------------ MODULE HBM3Stack ------------------------------
(***************************************************************************)
(* memory/HBM3Stack.scala: the banked DRAM model behind the SoC's single   *)
(* memory port.  One action is one clock cycle in one state of the FSM.    *)
(* The inputs of a cycle (the request offered, the ready of the response   *)
(* channel and the page-policy pin) are parameters of the actions.         *)
(*                                                                         *)
(* The array is indexed by <<bank, row, col>>, the three fields that       *)
(* rIdx = Cat(rBank, rRow, rCol) concatenates.  A 512-bit word is an       *)
(* opaque element of Line.  The size field of a request is never read by   *)
(* the stack and is left out.                                              *)
(***************************************************************************)
EXTENDS Integers

CONSTANTS
  nBanks, nRows, nCols,   \* geometry; powers of two in the code
  LineBytes,              \* bytes per line, 2^offBits
  tACT, tPRE, tREF,       \* activate, precharge and refresh times, in cycles
  Addr,                   \* byte addresses a requester may present
  Line, ZeroLine          \* 512-bit words, and the word 0.U

CntMod == 32              \* cnt is a 5-bit register

ASSUME HBMAssumption ==
  /\ nBanks \in Nat \ {0} /\ nRows \in Nat \ {0} /\ nCols \in Nat \ {0}
  /\ LineBytes \in Nat \ {0}
  /\ tACT \in 1 .. CntMod - 1 /\ tPRE \in 1 .. CntMod - 1
  /\ tREF \in 1 .. CntMod - 1
  /\ Addr \subseteq Nat
  /\ ZeroLine \in Line

MemReq == [addr : Addr, data : Line, isWrite : BOOLEAN]

VARIABLES
  cells,                  \* the DRAM array
  pageOpen, pageRow,      \* per-bank open-row table
  rAddr, rData, rW,       \* the captured request
  state, cnt, refCnt

hbmVars == <<cells, pageOpen, pageRow, rAddr, rData, rW, state, cnt, refCnt>>

Bank == 0 .. nBanks - 1
Row  == 0 .. nRows - 1
Col  == 0 .. nCols - 1
Cell == Bank \X Row \X Col

----------------------------------------------------------------------------
(* Linear address -> bank, row and column. *)

lineOf(addr) == addr \div LineBytes
colOf(line)  == line % nCols
bankOf(line) == (line \div nCols) % nBanks
rowOf(line)  == ((line \div nCols) \div nBanks) % nRows
cellOf(line) == <<bankOf(line), rowOf(line), colOf(line)>>

(* The array seen by line number: addresses alias modulo the capacity. *)
Capacity == nCols * (nBanks * nRows)
LineId   == 0 .. Capacity - 1
memView  == [l \in LineId |-> cells[cellOf(l)]]

rBank == bankOf(lineOf(rAddr))
rRow  == rowOf(lineOf(rAddr))
rIdx  == cellOf(lineOf(rAddr))

(* Mutant: a closed bank whose last row matches counts as a hit. *)
qHitStaleRow(addr) == pageRow[bankOf(lineOf(addr))] = rowOf(lineOf(addr))

qHit(addr) ==
  LET qBank == bankOf(lineOf(addr))
  IN  pageOpen[qBank] /\ pageRow[qBank] = rowOf(lineOf(addr))

(* Outputs of the handshake channels. *)
reqReady  == state = "s_idle" /\ refCnt # 0
respValid == state = "s_cmd"
respBits  == IF rW THEN ZeroLine ELSE cells[rIdx]

----------------------------------------------------------------------------
(* rAddr, rData and rW have no reset value: they start with any contents. *)
HBMInit ==
  /\ cells = [c \in Cell |-> ZeroLine]
  /\ pageOpen = [b \in Bank |-> FALSE]
  /\ pageRow = [b \in Bank |-> 0]
  /\ rAddr \in Addr /\ rData \in Line /\ rW \in BOOLEAN
  /\ state = "s_idle"
  /\ cnt = 0
  /\ refCnt = tREF

(* s_idle with the refresh counter expired: refresh before any request. *)
StartRefresh ==
  /\ state = "s_idle" /\ refCnt = 0
  /\ state' = "s_ref"
  /\ cnt' = 0
  /\ UNCHANGED <<cells, pageOpen, pageRow, rAddr, rData, rW, refCnt>>

(* s_idle, no request offered: only the refresh counter runs. *)
IdleCycle ==
  /\ reqReady
  /\ refCnt' = refCnt - 1
  /\ UNCHANGED <<cells, pageOpen, pageRow, rAddr, rData, rW, state, cnt>>

(* Mutant: the refresh counter stops while requests keep arriving. *)
AcceptHoldsRefresh(req) ==
  /\ reqReady
  /\ rAddr' = req.addr /\ rData' = req.data /\ rW' = req.isWrite
  /\ state' = IF qHit(req.addr) THEN "s_cmd" ELSE "s_act"
  /\ cnt' = 0
  /\ UNCHANGED <<cells, pageOpen, pageRow, refCnt>>

(* s_idle, io.req.fire: capture the request; a row hit goes straight to    *)
(* the column command, a bank open on another row is precharged first.     *)
Accept(req) ==
  /\ reqReady
  /\ rAddr' = req.addr /\ rData' = req.data /\ rW' = req.isWrite
  /\ state' = CASE qHit(req.addr)                      -> "s_cmd"
                [] ~ qHit(req.addr) /\ pageOpen[bankOf(lineOf(req.addr))]
                                                       -> "s_prech"
                [] OTHER                               -> "s_act"
  /\ cnt' = IF qHit(req.addr) THEN cnt ELSE 0
  /\ refCnt' = refCnt - 1
  /\ UNCHANGED <<cells, pageOpen, pageRow>>

(* A cycle of a timed state that is not its last. *)
Count(s, last) ==
  /\ state = s /\ cnt # last
  /\ cnt' = (cnt + 1) % CntMod
  /\ UNCHANGED <<cells, pageOpen, pageRow, rAddr, rData, rW, state, refCnt>>

PrechargeDone ==
  /\ state = "s_prech" /\ cnt = tPRE - 1
  /\ pageOpen' = [pageOpen EXCEPT ![rBank] = FALSE]
  /\ cnt' = 0
  /\ state' = "s_act"
  /\ UNCHANGED <<cells, pageRow, rAddr, rData, rW, refCnt>>

ActivateDone ==
  /\ state = "s_act" /\ cnt = tACT - 1
  /\ pageOpen' = [pageOpen EXCEPT ![rBank] = TRUE]
  /\ pageRow' = [pageRow EXCEPT ![rBank] = rRow]
  /\ cnt' = 0
  /\ state' = "s_cmd"
  /\ UNCHANGED <<cells, rAddr, rData, rW, refCnt>>

(* s_cmd: the write and the page close happen on every cycle spent here,   *)
(* whether or not the response is taken.                                   *)
Command(open_page, ready) ==
  /\ respValid
  /\ cells' = IF rW THEN [cells EXCEPT ![rIdx] = rData] ELSE cells
  /\ pageOpen' = IF open_page THEN pageOpen
                              ELSE [pageOpen EXCEPT ![rBank] = FALSE]
  /\ state' = IF ready THEN "s_idle" ELSE "s_cmd"
  /\ UNCHANGED <<pageRow, rAddr, rData, rW, cnt, refCnt>>

RefreshDone ==
  /\ state = "s_ref" /\ cnt = tREF
  /\ cnt' = 0
  /\ refCnt' = tREF
  /\ state' = "s_idle"
  /\ UNCHANGED <<cells, pageOpen, pageRow, rAddr, rData, rW>>

(* The cycles that look at no input. *)
Internal ==
  \/ StartRefresh
  \/ Count("s_prech", tPRE - 1) \/ PrechargeDone
  \/ Count("s_act", tACT - 1)   \/ ActivateDone
  \/ Count("s_ref", tREF)       \/ RefreshDone

HBMNext ==
  \/ Internal
  \/ IdleCycle
  \/ \E req \in MemReq : Accept(req)
  \/ \E open_page, ready \in BOOLEAN : Command(open_page, ready)

HBMSpec == HBMInit /\ [][HBMNext]_hbmVars
----------------------------------------------------------------------------
(* Every register holds a value of its width; cnt never wraps and never    *)
(* passes the comparison that ends the state it times, which would leave   *)
(* the FSM counting for ever.                                              *)
HBMTypeOK ==
  /\ cells \in [Cell -> Line]
  /\ pageOpen \in [Bank -> BOOLEAN] /\ pageRow \in [Bank -> Row]
  /\ rAddr \in Addr /\ rData \in Line /\ rW \in BOOLEAN
  /\ state \in {"s_idle", "s_prech", "s_act", "s_cmd", "s_ref"}
  /\ refCnt \in 0 .. tREF
  /\ cnt \in Nat
  /\ state = "s_prech" => cnt < tPRE
  /\ state = "s_act" => cnt < tACT
  /\ state = "s_ref" => cnt <= tREF
  /\ state \in {"s_idle", "s_cmd"} => cnt = 0

(* DRAM command legality: a bank is precharged only when it holds another  *)
(* row than the one wanted, and activated only when it is precharged.      *)
BankCommandsLegal ==
  /\ state = "s_prech" => pageOpen[rBank] /\ pageRow[rBank] # rRow
  /\ state = "s_act" => ~ pageOpen[rBank]

(* A column command is entered only with the captured request's row open   *)
(* in its bank: the hit taken on the live request (qHit) and the           *)
(* activation of the captured one agree on what is in the row buffer.      *)
ColumnNeedsOpenRow ==
  [][state # "s_cmd" /\ state' = "s_cmd"
       => (pageOpen[rBank] /\ pageRow[rBank] = rRow)']_hbmVars

(* The response offered and not taken does not change under the requester, *)
(* although s_cmd rewrites the cell and closes the page on every cycle.    *)
ResponseStable ==
  [][respValid /\ respValid' => respBits' = respBits]_hbmVars

(* With the open_page pin low no row is open outside s_cmd, so nothing is  *)
(* ever precharged (a lemma of the timing arguments).                      *)
PagesClosed ==
  /\ state # "s_prech"
  /\ \A b \in Bank : pageOpen[b] => state = "s_cmd" /\ b = rBank
=============================================================================
