--------------------------- MODULE MemoryProofs -----------------------------
(***************************************************************************)
(* Proofs about HBM3Stack for every geometry, timing and set of addresses: *)
(* type correctness with the bounds of the timers, the legality of the     *)
(* DRAM commands, the stability of a stalled response, the address decode; *)
(* and about the selection of SplitPrioritizer.                            *)
(***************************************************************************)
EXTENDS SplitPrioritizer, ArithmeticLemmas

(* The decoded fields of any address lie inside the geometry. *)
LEMMA DecodeInRange ==
  ASSUME NEW a \in Addr
  PROVE  /\ lineOf(a) \in Nat
         /\ bankOf(lineOf(a)) \in Bank
         /\ rowOf(lineOf(a)) \in Row
         /\ colOf(lineOf(a)) \in Col
         /\ cellOf(lineOf(a)) \in Cell
<1>1. lineOf(a) \in Nat
  BY HBMAssumption DEF lineOf
<1>2. bankOf(lineOf(a)) \in Bank
  BY <1>1, HBMAssumption DEF bankOf, Bank
<1>3. rowOf(lineOf(a)) \in Row
  BY <1>1, HBMAssumption DEF rowOf, Row
<1>4. colOf(lineOf(a)) \in Col
  BY <1>1, HBMAssumption DEF colOf, Col
<1> QED BY <1>1, <1>2, <1>3, <1>4 DEF cellOf, Cell

(* The registers start in their ranges. *)
LEMMA TypeInit == HBMInit => HBMTypeOK
BY HBMAssumption DEF HBMInit, HBMTypeOK, CntMod, Row

(* Each action separately, for use by the modules built on HBM3Stack. *)
LEMMA TypeInternal == HBMTypeOK /\ Internal => HBMTypeOK'
<1> SUFFICES ASSUME HBMTypeOK, Internal PROVE HBMTypeOK'
  OBVIOUS
<1> USE HBMAssumption DEF CntMod
<1>1. CASE StartRefresh
  BY <1>1 DEF StartRefresh, HBMTypeOK
<1>2. CASE Count("s_prech", tPRE - 1)
  BY <1>2 DEF Count, HBMTypeOK
<1>3. CASE PrechargeDone
  <2>1. pageOpen' \in [Bank -> BOOLEAN]
    BY <1>3 DEF PrechargeDone, HBMTypeOK
  <2> QED BY <1>3, <2>1 DEF PrechargeDone, HBMTypeOK
<1>4. CASE Count("s_act", tACT - 1)
  BY <1>4 DEF Count, HBMTypeOK
<1>5. CASE ActivateDone
  BY <1>5, DecodeInRange DEF ActivateDone, HBMTypeOK, rRow
<1>6. CASE Count("s_ref", tREF)
  BY <1>6 DEF Count, HBMTypeOK
<1>7. CASE RefreshDone
  BY <1>7 DEF RefreshDone, HBMTypeOK
<1> QED BY <1>1, <1>2, <1>3, <1>4, <1>5, <1>6, <1>7 DEF Internal

(* An idle cycle keeps the types: refCnt does not pass zero. *)
LEMMA TypeIdle == HBMTypeOK /\ IdleCycle => HBMTypeOK'
BY HBMAssumption DEF HBMTypeOK, IdleCycle, reqReady, CntMod

(* Accepting a request keeps the types. *)
LEMMA TypeAccept ==
  ASSUME NEW req \in MemReq, HBMTypeOK, Accept(req)
  PROVE  HBMTypeOK'
BY HBMAssumption DEF HBMTypeOK, Accept, reqReady, MemReq, CntMod

(* A cycle of the column command keeps the types. *)
LEMMA TypeCommand ==
  ASSUME NEW keep \in BOOLEAN, NEW ready \in BOOLEAN,
         HBMTypeOK, Command(keep, ready)
  PROVE  HBMTypeOK'
BY HBMAssumption DEF HBMTypeOK, Command, respValid, CntMod

(* Type correctness of the stack: every register keeps its width, cnt      *)
(* stays below the value each timed state waits for.                       *)
THEOREM HBMTypeCorrect == HBMSpec => []HBMTypeOK
<1>1. HBMTypeOK /\ [HBMNext]_hbmVars => HBMTypeOK'
  <2> SUFFICES ASSUME HBMTypeOK, [HBMNext]_hbmVars PROVE HBMTypeOK'
    OBVIOUS
  <2>1. CASE UNCHANGED hbmVars
    BY <2>1 DEF HBMTypeOK, hbmVars
  <2>2. CASE HBMNext
    BY <2>2, TypeInternal, TypeIdle, TypeAccept, TypeCommand DEF HBMNext
  <2> QED BY <2>1, <2>2
<1> QED BY TypeInit, <1>1, PTL DEF HBMSpec
----------------------------------------------------------------------------
(* A bank is precharged only when it holds the wrong row and activated     *)
(* only when it is closed.  Inductive together with HBMTypeOK: Accept      *)
(* decides on the live request, the later states use the captured one.     *)
LEMMA LegalStep ==
  HBMTypeOK /\ BankCommandsLegal /\ [HBMNext]_hbmVars => BankCommandsLegal'
<1> SUFFICES ASSUME HBMTypeOK, BankCommandsLegal, [HBMNext]_hbmVars
             PROVE  BankCommandsLegal'
  OBVIOUS
<1> USE DEF BankCommandsLegal, rBank, rRow
<1>1. CASE UNCHANGED hbmVars
  BY <1>1 DEF hbmVars
<1>2. ASSUME NEW req \in MemReq, Accept(req) PROVE BankCommandsLegal'
  BY <1>2 DEF Accept, qHit
<1>3. CASE PrechargeDone
  BY <1>3, DecodeInRange DEF PrechargeDone, HBMTypeOK
<1>4. CASE IdleCycle
  BY <1>4 DEF IdleCycle, reqReady
<1>5. ASSUME NEW keep \in BOOLEAN, NEW ready \in BOOLEAN,
             Command(keep, ready)
      PROVE  BankCommandsLegal'
  BY <1>5 DEF Command
<1>6. CASE Count("s_prech", tPRE - 1) \/ Count("s_act", tACT - 1)
             \/ Count("s_ref", tREF)
  BY <1>6 DEF Count
<1>7. CASE StartRefresh \/ ActivateDone \/ RefreshDone
  BY <1>7 DEF StartRefresh, ActivateDone, RefreshDone
<1> QED
  BY <1>1, <1>2, <1>3, <1>4, <1>5, <1>6, <1>7 DEF HBMNext, Internal

(* The precharges and activations of the FSM are always legal. *)
THEOREM HBMCommandsLegal == HBMSpec => []BankCommandsLegal
<1>1. HBMInit => BankCommandsLegal
  BY DEF HBMInit, BankCommandsLegal
<1> QED BY HBMTypeCorrect, LegalStep, <1>1, PTL DEF HBMSpec

(* The two ways into s_cmd, a row hit and the end of an activation, both   *)
(* leave the captured request's row open.                                  *)
THEOREM HBMColumnNeedsOpenRow == HBMSpec => ColumnNeedsOpenRow
<1> DEFINE Opens == state # "s_cmd" /\ state' = "s_cmd"
                      => (pageOpen[rBank] /\ pageRow[rBank] = rRow)'
<1>1. HBMTypeOK /\ [HBMNext]_hbmVars => [Opens]_hbmVars
  <2> SUFFICES ASSUME HBMTypeOK, HBMNext, state # "s_cmd", state' = "s_cmd"
               PROVE  (pageOpen[rBank] /\ pageRow[rBank] = rRow)'
    OBVIOUS
  <2> USE DEF rBank, rRow
  <2>1. ASSUME NEW req \in MemReq, Accept(req)
        PROVE  (pageOpen[rBank] /\ pageRow[rBank] = rRow)'
    BY <2>1 DEF Accept, qHit
  <2>2. CASE ActivateDone
    BY <2>2, DecodeInRange DEF ActivateDone, HBMTypeOK
  <2> QED
    BY <2>1, <2>2 DEF HBMNext, Internal, IdleCycle, reqReady, Command,
       respValid, StartRefresh, Count, PrechargeDone, RefreshDone
<1> QED BY HBMTypeCorrect, <1>1, PTL DEF HBMSpec, ColumnNeedsOpenRow

(* A response that is not taken is offered again unchanged: the repeated   *)
(* write of s_cmd is idempotent and shows in no response.                  *)
THEOREM HBMResponseStable == HBMSpec => ResponseStable
<1> DEFINE Stable == respValid /\ respValid' => respBits' = respBits
<1>1. [HBMNext]_hbmVars => [Stable]_hbmVars
  <2> SUFFICES ASSUME HBMNext, respValid, respValid' PROVE respBits' = respBits
    OBVIOUS
  <2>1. PICK keep \in BOOLEAN, ready \in BOOLEAN :
          Command(keep, ready)
    BY DEF HBMNext, Internal, respValid, IdleCycle, reqReady, Accept,
       StartRefresh, Count, PrechargeDone, ActivateDone, RefreshDone
  <2> QED BY <2>1 DEF Command, respBits, rIdx
<1> QED BY <1>1, PTL DEF HBMSpec, ResponseStable
----------------------------------------------------------------------------
(* The page-close of s_cmd keeps every bank closed between commands. *)
LEMMA PagesClosedStep ==
  ASSUME HBMTypeOK, PagesClosed,
         \/ Internal \/ IdleCycle
         \/ \E req \in MemReq : Accept(req)
         \/ \E ready \in BOOLEAN : Command(FALSE, ready)
  PROVE  PagesClosed'
<1> USE DEF PagesClosed, rBank
<1>1. ASSUME NEW req \in MemReq, Accept(req) PROVE PagesClosed'
  <2>1. bankOf(lineOf(req.addr)) \in Bank
    BY DecodeInRange DEF MemReq
  <2> QED BY <1>1, <2>1 DEF Accept, reqReady
<1>2. CASE IdleCycle
  BY <1>2 DEF IdleCycle, reqReady
<1>3. ASSUME NEW ready \in BOOLEAN, Command(FALSE, ready) PROVE PagesClosed'
  BY <1>3, DecodeInRange DEF Command, respValid, HBMTypeOK
<1>4. CASE ActivateDone
  BY <1>4, DecodeInRange DEF ActivateDone, HBMTypeOK
<1>5. CASE Internal /\ ~ ActivateDone
  BY <1>5 DEF Internal, StartRefresh, Count, PrechargeDone, RefreshDone
<1> QED BY <1>1, <1>2, <1>3, <1>4, <1>5

LEMMA PagesClosedInit == HBMInit => PagesClosed
BY DEF HBMInit, PagesClosed

(* A request accepted with every bank closed is not precharged. *)
LEMMA NoPrecharge ==
  ASSUME NEW req \in MemReq, PagesClosed, Accept(req)
  PROVE  state' \in {"s_act", "s_cmd"}
<1>1. bankOf(lineOf(req.addr)) \in Bank
  BY DecodeInRange DEF MemReq
<1> QED BY <1>1 DEF Accept, reqReady, PagesClosed

----------------------------------------------------------------------------
(* The address decode is a bijection between the lines of the stack and    *)
(* its cells, and drops the multiples of the capacity.                     *)

(* A line number is its row, bank and column, and a multiple of the        *)
(* capacity that the decode drops.                                         *)
LEMMA DecodeSplits ==
  ASSUME NEW n \in Nat
  PROVE  \E z \in Nat :
           /\ n = Capacity * z + (nCols * (nBanks * rowOf(n) + bankOf(n)) + colOf(n))
           /\ n % Capacity = nCols * (nBanks * rowOf(n) + bankOf(n)) + colOf(n)
           /\ n \div Capacity = z
<1> DEFINE x == n \div nCols
           y == x \div nBanks
           z == y \div nRows
<1>1. /\ x \in Nat /\ colOf(n) \in 0 .. nCols - 1
      /\ n = nCols * x + colOf(n)
  BY DivModEq, HBMAssumption DEF colOf
<1>2. /\ y \in Nat /\ bankOf(n) \in 0 .. nBanks - 1
      /\ x = nBanks * y + bankOf(n)
  BY <1>1, DivModEq, HBMAssumption DEF bankOf
<1>3. /\ z \in Nat /\ rowOf(n) \in 0 .. nRows - 1
      /\ y = nRows * z + rowOf(n)
  BY <1>2, DivModEq, HBMAssumption DEF rowOf
<1> HIDE DEF x, y, z
<1>c. nCols \in Nat \ {0} /\ nBanks \in Nat \ {0} /\ nRows \in Nat \ {0}
  BY HBMAssumption
<1> DEFINE u == nBanks * rowOf(n) + bankOf(n)
           m == nCols * u + colOf(n)
<1>4. u \in Nat /\ u < nBanks * nRows
  <2>1. rowOf(n) \in Nat /\ rowOf(n) < nRows /\ bankOf(n) \in Nat
        /\ bankOf(n) < nBanks /\ nBanks * rowOf(n) \in Nat
        /\ nBanks * nRows \in Nat
    BY <1>2, <1>3, <1>c
  <2>2. nBanks * rowOf(n) + nBanks <= nBanks * nRows
    BY <2>1, <1>c, MulLe
  <2> QED BY <2>1, <2>2, <1>c
<1>5. m \in Nat /\ m < Capacity
  <2>1. nBanks * nRows \in Nat /\ nCols * u \in Nat
        /\ nCols * (nBanks * nRows) \in Nat
    BY <1>4, <1>c
  <2>2. nCols * u + nCols <= nCols * (nBanks * nRows)
    BY <1>4, <1>c, <2>1, MulLe
  <2> QED BY <1>1, <1>c, <2>1, <2>2 DEF Capacity
<1>6. n = Capacity * z + m
  <2>1. nBanks * y = nBanks * (nRows * z) + nBanks * rowOf(n)
    BY <1>3, <1>c
  <2>2. x = (nBanks * nRows) * z + u
    BY <1>2, <1>3, <1>c, <2>1
  <2>3. nCols * x = nCols * ((nBanks * nRows) * z) + nCols * u
    BY <1>3, <1>4, <1>c, <2>2
  <2> QED BY <1>1, <1>3, <1>4, <1>c, <2>3 DEF Capacity
<1>7. Capacity \in Nat \ {0}
  BY <1>5, <1>c DEF Capacity
<1>8. (Capacity * z + m) \div Capacity = z /\ (Capacity * z + m) % Capacity = m
  <2>1. m \in 0 .. Capacity - 1
    BY <1>5, <1>7
  <2> QED BY <1>3, <1>7, <2>1, DivModUnique
<1> QED BY <1>3, <1>6, <1>8

(* The decode of any line number is a cell of the array. *)
LEMMA CellInRange ==
  ASSUME NEW n \in Nat
  PROVE  bankOf(n) \in Bank /\ rowOf(n) \in Row /\ colOf(n) \in Col
         /\ cellOf(n) \in Cell
<1>1. nCols \in Nat \ {0} /\ nBanks \in Nat \ {0} /\ nRows \in Nat \ {0}
  BY HBMAssumption
<1>2. n \div nCols \in Nat /\ (n \div nCols) \div nBanks \in Nat
  BY <1>1, DivModEq
<1> QED BY <1>1, <1>2, DivModEq
        DEF bankOf, rowOf, colOf, cellOf, Bank, Row, Col, Cell

(* Addresses alias modulo the capacity. *)
LEMMA DecodeAliases ==
  ASSUME NEW n \in Nat
  PROVE  n % Capacity \in LineId /\ cellOf(n % Capacity) = cellOf(n)
         /\ Capacity \in Nat \ {0}
<1> DEFINE b == bankOf(n)
           r == rowOf(n)
           c == colOf(n)
           m == n % Capacity
<1>c. nCols \in Nat \ {0} /\ nBanks \in Nat \ {0} /\ nRows \in Nat \ {0}
  BY HBMAssumption
<1>1. b \in 0 .. nBanks - 1 /\ r \in 0 .. nRows - 1 /\ c \in 0 .. nCols - 1
  BY CellInRange DEF Bank, Row, Col
<1>2. m = nCols * (nBanks * r + b) + c
  BY DecodeSplits
<1>3. Capacity \in Nat \ {0}
  BY <1>c DEF Capacity
<1>4. m \in 0 .. Capacity - 1
  BY <1>3, DivModEq
<1> HIDE DEF b, r, c, m
<1>5. nBanks * r + b \in Nat
  BY <1>1, <1>c
<1>6. colOf(m) = c /\ m \div nCols = nBanks * r + b
  BY <1>1, <1>2, <1>5, <1>c, DivModUnique DEF colOf
<1>7. bankOf(m) = b /\ (m \div nCols) \div nBanks = r
  <2>1. r \in Nat
    BY <1>1, <1>c
  <2>2. (nBanks * r + b) \div nBanks = r /\ (nBanks * r + b) % nBanks = b
    BY <1>1, <1>c, <2>1, DivModUnique
  <2> QED BY <1>6, <2>2, Zenon DEF bankOf
<1>8. rowOf(m) = r
  <2>1. r % nRows = r
    <3>1. nRows * 0 + r = r /\ 0 \in Nat
      BY <1>1, <1>c
    <3> QED BY <1>1, <1>c, <3>1, DivModUnique
  <2> QED BY <1>7, <2>1 DEF rowOf
<1> QED BY <1>3, <1>4, <1>6, <1>7, <1>8 DEF cellOf, LineId, b, r, c, m

(* Two lines of the stack never share a cell. *)
LEMMA DecodeInjective ==
  ASSUME NEW l \in LineId, NEW m \in LineId, cellOf(l) = cellOf(m)
  PROVE  l = m
<1>1. Capacity \in Nat \ {0} /\ l \in Nat /\ m \in Nat
  BY DecodeAliases DEF LineId
<1>2. \A k \in LineId : k % Capacity = k
  <2> SUFFICES ASSUME NEW k \in LineId PROVE k % Capacity = k
    OBVIOUS
  <2>1. Capacity * 0 + k = k /\ k \in 0 .. Capacity - 1
    BY <1>1 DEF LineId
  <2> QED BY <1>1, <2>1, DivModUnique
<1>3. bankOf(l) = bankOf(m) /\ rowOf(l) = rowOf(m) /\ colOf(l) = colOf(m)
  BY DEF cellOf
<1>4. l % Capacity = m % Capacity
  BY <1>1, <1>3, DecodeSplits
<1> QED BY <1>2, <1>4

(* By line number, a cycle of the column command writes or reads the one   *)
(* line of the captured address.                                           *)
LEMMA CommandOnView ==
  ASSUME HBMTypeOK, NEW keep, NEW ready, Command(keep, ready)
  PROVE  LET line == lineOf(rAddr) % Capacity
         IN  /\ line \in LineId
             /\ memView' = IF rW THEN [memView EXCEPT ![line] = rData] ELSE memView
             /\ respBits = IF rW THEN ZeroLine ELSE memView[line]
<1> DEFINE line == lineOf(rAddr) % Capacity
<1>1. lineOf(rAddr) \in Nat /\ rIdx \in Cell
  BY DecodeInRange DEF HBMTypeOK, rIdx
<1>2. line \in LineId /\ cellOf(line) = rIdx
  BY <1>1, DecodeAliases DEF rIdx
<1>3. \A l \in LineId : cellOf(l) = rIdx <=> l = line
  BY <1>2, DecodeInjective
<1>4. \A l \in LineId : cellOf(l) \in Cell
  BY CellInRange, DecodeAliases DEF LineId
<1>5. /\ cells' = IF rW THEN [cells EXCEPT ![rIdx] = rData] ELSE cells
      /\ cells \in [Cell -> Line]
  BY DEF Command, HBMTypeOK
<1> HIDE DEF line
<1>6. memView' = IF rW THEN [memView EXCEPT ![line] = rData] ELSE memView
  BY <1>1, <1>2, <1>3, <1>4, <1>5 DEF memView
<1>7. respBits = IF rW THEN ZeroLine ELSE memView[line]
  BY <1>2 DEF respBits, memView
<1> QED BY <1>2, <1>6, <1>7 DEF line

----------------------------------------------------------------------------
(* What the arbiter's rotating-priority selection returns: first for any   *)
(* number of ports, then for the three of SplitPrioritizer.                *)

(* PriorityEncoder returns the least index whose bit is set. *)
LEMMA PriorityEncoderLeast ==
  ASSUME NEW S \in SUBSET Nat, S # {}
  PROVE  /\ PriorityEncoder(S) \in S
         /\ \A j \in S : PriorityEncoder(S) <= j
BY LeastElement DEF PriorityEncoder

(* The selection is a requester, and the nearest one after the pointer. *)
LEMMA FairSelNearest ==
  ASSUME NEW n \in Nat, NEW reqs \in SUBSET (0 .. n - 1), reqs # {},
         NEW ptr \in 0 .. n - 1
  PROVE  /\ fairSel(reqs, ptr) \in reqs
         /\ \A j \in reqs : Distance(fairSel(reqs, ptr), ptr, n)
                              <= Distance(j, ptr, n)
<1>1. /\ \A j \in reqs : j \in Nat /\ j < n
      /\ ptr \in Nat /\ ptr < n
  OBVIOUS
<1>2. \A j : j \in higher(reqs, ptr) <=> j \in reqs /\ j > ptr
  BY DEF higher
<1>3. \A j : j \in lower(reqs, ptr) <=> j \in reqs /\ j <= ptr
  BY DEF lower
<1> DEFINE s == fairSel(reqs, ptr)
<1> HIDE DEF s
<1> SUFFICES /\ s \in reqs
             /\ \A j \in reqs : Distance(s, ptr, n) <= Distance(j, ptr, n)
  BY DEF s
<1>4. CASE higher(reqs, ptr) # {}
  <2>1. higher(reqs, ptr) \in SUBSET Nat
    BY <1>1, <1>2
  <2>2. /\ s \in higher(reqs, ptr)
        /\ \A j \in higher(reqs, ptr) : s <= j
    BY <1>4, <2>1, PriorityEncoderLeast DEF fairSel, s
  <2>3. s \in reqs /\ s \in Nat /\ s < n /\ s > ptr
    BY <1>1, <1>2, <2>2
  <2>4. ASSUME NEW j \in reqs PROVE Distance(s, ptr, n) <= Distance(j, ptr, n)
    <3>1. j \in Nat /\ (j > ptr => s <= j)
      BY <1>1, <1>2, <2>2
    <3> QED BY <1>1, <2>3, <3>1 DEF Distance
  <2> QED BY <2>3, <2>4
<1>5. CASE higher(reqs, ptr) = {}
  <2>1. \A j \in reqs : j <= ptr
    BY <1>1, <1>2, <1>5
  <2>2. lower(reqs, ptr) = reqs
    BY <1>3, <2>1
  <2>3. s \in reqs /\ \A j \in reqs : s <= j
    BY <1>1, <1>5, <2>2, PriorityEncoderLeast DEF fairSel, s
  <2> QED BY <1>1, <2>1, <2>3 DEF Distance
<1> QED BY <1>4, <1>5

(* The rotation: when the pointer moves to a requester that was served     *)
(* before w, whoever stood behind w still stands behind w, and the one     *)
(* just served goes to the back.                                           *)
LEMMA RotationKeepsOrder ==
  ASSUME NEW n \in Nat, NEW ptr \in 0 .. n - 1, NEW w \in 0 .. n - 1,
         NEW s \in 0 .. n - 1, NEW p \in 0 .. n - 1,
         Distance(s, ptr, n) < Distance(w, ptr, n)
  PROVE  /\ Distance(w, s, n) < Distance(s, s, n)
         /\ Distance(w, ptr, n) < Distance(p, ptr, n)
              => Distance(w, s, n) < Distance(p, s, n)
BY DEF Distance

(* The three ports are numbered from zero. *)
LEMMA PortIsRange == Port = 0 .. 2
BY DEF Port, CPU, GPU, ACC

(* The selected port is a requester: the CPU if it has priority and asks,  *)
(* otherwise the one nearest after the pointer.                            *)
LEMMA Selection ==
  ASSUME rr \in Port, NEW avail \in SUBSET Port, avail # {}
  PROVE  /\ sel(avail) \in avail /\ sel(avail) \in Port
         /\ cpu_priority /\ CPU \in avail => sel(avail) = CPU
         /\ ~ (cpu_priority /\ CPU \in avail) =>
              \A j \in avail : Distance(sel(avail), rr, 3) <= Distance(j, rr, 3)
<1>1. avail \in SUBSET (0 .. 3 - 1) /\ rr \in 0 .. 3 - 1
  BY PortIsRange
<1>2. /\ fairSel(avail, rr) \in avail
      /\ \A j \in avail : Distance(fairSel(avail, rr), rr, 3)
                            <= Distance(j, rr, 3)
  BY <1>1, FairSelNearest
<1> QED BY <1>2 DEF sel
=============================================================================
