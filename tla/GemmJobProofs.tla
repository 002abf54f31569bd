--------------------------- MODULE GemmJobProofs ----------------------------
(***************************************************************************)
(* The matrix engine stores the product on its first command, the product  *)
(* added to what it had accumulated on every later one, and writes nothing *)
(* outside its C tile, for every size of the tile, the line and the        *)
(* halfword, every contents of the memory, every work area and any number  *)
(* of commands.                                                            *)
(***************************************************************************)
EXTENDS GemmJob, ArithmeticLemmas

(* The line that holds words n * elemsCPerLine onwards of cTile, and where *)
(* it goes.                                                                *)
StoredLine(n) ==
  [e \in 0 .. elemsPerLine - 1 |->
     LET w == cTile[n * elemsCPerLine + e \div 2]
     IN IF e % 2 = 0 THEN w % HalfMod ELSE w \div HalfMod]
CLine(n) == LineOf(baseAddr + 2 * linesOperand + n)

(* The multiply-accumulates done so far on word r, c. *)
MacsDone(r, c) ==
  CASE state \in {"s_fetchA", "s_fetchB"} -> 0
    [] state = "s_calc" -> IF r < i THEN tile
                           ELSE IF r > i THEN 0
                           ELSE IF c < j THEN k + 1 ELSE k
    [] OTHER -> tile

HalfWord == 0 .. HalfMod - 1
Word     == 0 .. WordMod - 1
Memory   == [0 .. MemLines - 1 -> [0 .. elemsPerLine - 1 -> HalfWord]]

JobTypeOK ==
  /\ state \in {"s_idle", "s_fetchA", "s_fetchB", "s_calc", "s_store"}
  /\ baseAddr \in Nat /\ lineCnt \in Nat /\ jobs \in Nat
  /\ i \in Side /\ j \in Side /\ k \in Side
  /\ cTile \in [TileIdx -> Word] /\ cBefore \in [TileIdx -> Word]
  /\ mem \in Memory /\ before \in Memory
  /\ state \in {"s_fetchA", "s_fetchB"} => lineCnt < linesOperand
  /\ state = "s_store" => lineCnt < linesC

(* The port holds the engine's present request, or none. *)
PortInv == port = {} \/ (reqValid /\ port = {req})

(* The lines fetched so far are those the command found: the noise of the  *)
(* cycles without a response has been overwritten.                         *)
TilesFetched ==
  /\ \A e \in TileIdx :
       (state = "s_fetchA" => e \div elemsPerLine < lineCnt)
         => aTile[e] = Half(before, e)
  /\ state # "s_fetchA" =>
       \A e \in TileIdx :
         (state = "s_fetchB" => e \div elemsPerLine < lineCnt)
           => bTile[e] = Half(before, n2 + e)

(* cTile is the sum of the terms accumulated so far. *)
PartialProducts ==
  \A r, c \in Side :
    cTile[r * tile + c] =
      (cBefore[r * tile + c] + Sums(Terms(before, r, c))[MacsDone(r, c)]) % WordMod

(* The memory is untouched until the first store, and then holds the lines *)
(* stored so far.                                                          *)
LinesStored ==
  /\ state \in {"s_fetchA", "s_fetchB", "s_calc"} => mem = before
  /\ state = "s_idle" => lineCnt = linesC
  /\ state \in {"s_store", "s_idle"} =>
       \A n \in 0 .. lineCnt - 1 : mem[CLine(n)] = StoredLine(n)
  /\ OnlyCTileWritten

JobInv ==
  /\ JobTypeOK /\ PortInv
  /\ jobs = 0 => state = "s_idle"
  /\ jobs > 0 => TilesFetched /\ PartialProducts /\ LinesStored

----------------------------------------------------------------------------
(* The recursive definition of Sums has a solution, so that it may be      *)
(* unfolded: prefixes of it exist, agree with each other, and make it up.  *)
LEMMA SumsExist ==
  ASSUME NEW t
  PROVE  \E f : f = [n \in Nat |-> IF n = 0 THEN 0 ELSE f[n - 1] + t[n - 1]]
<1> DEFINE Prefix(g, n) ==
             g = [x \in 0 .. n |-> IF x = 0 THEN 0 ELSE g[x - 1] + t[x - 1]]
           Without == {n \in Nat : ~ \E g : Prefix(g, n)}
<1>1. Without = {}
  <2> SUFFICES ASSUME Without # {} PROVE FALSE
    OBVIOUS
  <2>1. PICK m \in Without : \A n \in Without : m <= n
    BY LeastElement
  <2>2. m \in Nat /\ ~ \E g : Prefix(g, m)
    BY <2>1
  <2>3. CASE m = 0
    <3>1. Prefix([x \in 0 .. 0 |-> 0], 0)
      OBVIOUS
    <3> QED BY <2>2, <2>3, <3>1
  <2>4. CASE m # 0
    <3>1. m - 1 \in Nat /\ m - 1 \notin Without
      BY <2>1, <2>2, <2>4
    <3>2. PICK g : Prefix(g, m - 1)
      BY <3>1
    <3> DEFINE h == [x \in 0 .. m |-> IF x = m THEN g[m - 1] + t[m - 1] ELSE g[x]]
    <3>3. ASSUME NEW x \in 0 .. m
          PROVE  h[x] = IF x = 0 THEN 0 ELSE h[x - 1] + t[x - 1]
      <4>1. CASE x = m
        BY <2>2, <2>4, <4>1
      <4>2. CASE x # m
        <5>1. x \in 0 .. m - 1 /\ (x # 0 => x - 1 \in 0 .. m - 1)
          BY <2>2, <4>2
        <5>2. g[x] = IF x = 0 THEN 0 ELSE g[x - 1] + t[x - 1]
          BY <3>2, <5>1
        <5> QED BY <2>2, <4>2, <5>1, <5>2
      <4> QED BY <4>1, <4>2
    <3>4. Prefix(h, m)
      BY <3>3
    <3> QED BY <2>2, <3>4
  <2> QED BY <2>3, <2>4
<1>2. \A n \in Nat : \E g : Prefix(g, n)
  BY <1>1
<1>3. ASSUME NEW n \in Nat, NEW g, Prefix(g, n), NEW h, Prefix(h, n + 1)
      PROVE  g[n] = h[n]
  <2> DEFINE Differ == {x \in Nat : x <= n /\ g[x] # h[x]}
  <2>1. ASSUME Differ # {} PROVE FALSE
    <3>1. PICK m \in Differ : \A x \in Differ : m <= x
      BY <2>1, LeastElement
    <3>2. m \in Nat /\ m <= n /\ g[m] # h[m]
      BY <3>1
    <3>3. m # 0 => g[m - 1] = h[m - 1]
      <4> SUFFICES ASSUME m # 0 PROVE g[m - 1] = h[m - 1]
        OBVIOUS
      <4>1. m - 1 \in Nat /\ m - 1 <= n /\ ~ (m <= m - 1)
        BY <3>2
      <4>2. m - 1 \notin Differ
        BY <3>1, <4>1
      <4> QED BY <4>1, <4>2
    <3>4. m \in 0 .. n /\ m \in 0 .. n + 1
      BY <3>2
    <3>5. g[m] = IF m = 0 THEN 0 ELSE g[m - 1] + t[m - 1]
      BY <1>3, <3>4
    <3>6. h[m] = IF m = 0 THEN 0 ELSE h[m - 1] + t[m - 1]
      BY <1>3, <3>4
    <3> QED BY <3>2, <3>3, <3>5, <3>6
  <2> QED BY <2>1
<1> DEFINE p(n) == CHOOSE g : Prefix(g, n)
           f == [n \in Nat |-> p(n)[n]]
<1>4. \A n \in Nat : Prefix(p(n), n)
  BY <1>2
<1>5. ASSUME NEW n \in Nat
      PROVE  f[n] = IF n = 0 THEN 0 ELSE f[n - 1] + t[n - 1]
  <2>1. Prefix(p(n), n)
    BY <1>4
  <2>2. n \in 0 .. n
    OBVIOUS
  <2>3. p(n)[n] = IF n = 0 THEN 0 ELSE p(n)[n - 1] + t[n - 1]
    <3> HIDE DEF p
    <3> QED BY <2>1, <2>2
  <2>4. n # 0 => p(n)[n - 1] = p(n - 1)[n - 1]
    <3> SUFFICES ASSUME n # 0 PROVE p(n)[n - 1] = p(n - 1)[n - 1]
      OBVIOUS
    <3>1. n - 1 \in Nat /\ (n - 1) + 1 = n
      OBVIOUS
    <3>2. Prefix(p(n - 1), n - 1)
      BY <1>4, <3>1
    <3> HIDE DEF p, Prefix
    <3> QED BY <1>3, <2>1, <3>1, <3>2
  <2> HIDE DEF p
  <2> QED BY <2>3, <2>4
<1> HIDE DEF p
<1>6. f = [n \in Nat |-> IF n = 0 THEN 0 ELSE f[n - 1] + t[n - 1]]
  BY <1>5
<1> QED BY <1>6

(* Sums unfolded. *)
LEMMA SumsUnfold ==
  ASSUME NEW t
  PROVE  /\ Sums(t)[0] = 0
         /\ \A n \in Nat : Sums(t)[n + 1] = Sums(t)[n] + t[n]
<1> DEFINE s == Sums(t)
<1>1. s = [n \in Nat |-> IF n = 0 THEN 0 ELSE s[n - 1] + t[n - 1]]
  BY SumsExist DEF Sums
<1> HIDE DEF s
<1>2. s[0] = 0
  BY <1>1
<1>3. ASSUME NEW n \in Nat PROVE s[n + 1] = s[n] + t[n]
  <2>1. n + 1 \in Nat /\ n + 1 # 0 /\ (n + 1) - 1 = n
    OBVIOUS
  <2>2. s[n + 1] = s[(n + 1) - 1] + t[(n + 1) - 1]
    BY <1>1, <2>1
  <2> QED BY <2>1, <2>2
<1> QED BY <1>2, <1>3 DEF s

(* The sums of natural numbers are natural numbers. *)
LEMMA SumsType ==
  ASSUME NEW T \in Nat, NEW t, \A x \in 0 .. T - 1 : t[x] \in Nat,
         NEW n \in 0 .. T
  PROVE  Sums(t)[n] \in Nat
<1> DEFINE Odd == {x \in Nat : x <= T /\ Sums(t)[x] \notin Nat}
<1>1. ASSUME Odd # {} PROVE FALSE
  <2>1. PICK m \in Odd : \A x \in Odd : m <= x
    BY <1>1, LeastElement
  <2>2. m \in Nat /\ m <= T /\ Sums(t)[m] \notin Nat
    BY <2>1
  <2>3. m # 0
    BY <2>2, SumsUnfold
  <2>4. m - 1 \in Nat /\ m - 1 \in 0 .. T - 1 /\ (m - 1) + 1 = m
    BY <2>2, <2>3
  <2>5. Sums(t)[m - 1] \in Nat
    <3>1. m - 1 \notin Odd
      BY <2>1, <2>2, <2>4
    <3> QED BY <2>2, <2>4, <3>1
  <2>6. Sums(t)[m] = Sums(t)[m - 1] + t[m - 1]
    BY <2>4, SumsUnfold
  <2> QED BY <2>2, <2>4, <2>5, <2>6
<1> QED BY <1>1

----------------------------------------------------------------------------
(* The sizes: a tile fills linesOperand lines of halfwords, and twice as   *)
(* many of words.                                                          *)
LEMMA Geometry ==
  /\ tile \in Nat \ {0} /\ HalfMod \in Nat \ {0} /\ WordMod \in Nat \ {0}
  /\ elemsPerLine \in Nat \ {0} /\ elemsCPerLine \in Nat \ {0}
  /\ elemsPerLine = 2 * elemsCPerLine
  /\ linesOperand \in Nat \ {0} /\ linesC = 2 * linesOperand
  /\ n2 \in Nat \ {0} /\ n2 = elemsPerLine * linesOperand
  /\ n2 = elemsCPerLine * linesC
  /\ MemLines \in Nat \ {0} /\ linesC <= MemLines
<1>1. /\ tile \in Nat \ {0} /\ HalfMod \in Nat \ {0}
      /\ elemsPerLine \in Nat \ {0} /\ elemsPerLine % 2 = 0
      /\ n2 % elemsPerLine = 0
      /\ MemLines \in Nat /\ MemLines >= 2 * linesOperand + linesC
  BY JobAssumption
<1>2. WordMod \in Nat \ {0} /\ n2 \in Nat \ {0}
  BY <1>1 DEF WordMod, n2
<1>3. elemsCPerLine \in Nat \ {0} /\ elemsPerLine = 2 * elemsCPerLine
  BY <1>1 DEF elemsCPerLine
<1>4. linesOperand \in Nat /\ n2 = elemsPerLine * linesOperand
  <2>1. n2 = elemsPerLine * (n2 \div elemsPerLine) + (n2 % elemsPerLine)
        /\ n2 \div elemsPerLine \in Nat
    BY <1>1, <1>2, DivModEq
  <2> QED BY <1>1, <2>1 DEF linesOperand
<1>5. linesOperand # 0
  BY <1>1, <1>2, <1>4
<1>6. n2 = elemsCPerLine * (2 * linesOperand)
  BY <1>3, <1>4
<1>7. linesC = 2 * linesOperand
  <2>1. (elemsCPerLine * (2 * linesOperand) + 0) \div elemsCPerLine = 2 * linesOperand
    <3>1. 2 * linesOperand \in Nat /\ 0 \in 0 .. elemsCPerLine - 1
      BY <1>3, <1>4
    <3> QED BY <1>3, <3>1, DivModUnique
  <2>2. elemsCPerLine * (2 * linesOperand) + 0 = n2
    BY <1>2, <1>6
  <2> QED BY <2>1, <2>2 DEF linesC
<1> QED BY <1>1, <1>2, <1>3, <1>4, <1>5, <1>6, <1>7

(* Halfword e of the first tile and of the one behind it. *)
LEMMA HalfIndex ==
  ASSUME NEW e \in TileIdx
  PROVE  /\ e \div elemsPerLine \in 0 .. linesOperand - 1
         /\ e % elemsPerLine \in 0 .. elemsPerLine - 1
         /\ (n2 + e) \div elemsPerLine = linesOperand + (e \div elemsPerLine)
         /\ (n2 + e) % elemsPerLine = e % elemsPerLine
<1> DEFINE E == elemsPerLine
           L == linesOperand
<1>1. E \in Nat \ {0} /\ L \in Nat \ {0} /\ n2 = E * L /\ e \in Nat /\ e < n2
  BY Geometry DEF TileIdx
<1> HIDE DEF E, L
<1>2. PICK q \in Nat, r \in 0 .. E - 1 : q = e \div E /\ r = e % E /\ e = E * q + r
  <2>1. E \in Nat \ {0} /\ e \in Nat
    BY <1>1
  <2> QED BY ONLY <2>1, DivModEq
<1>3. E * q \in Nat /\ E * L \in Nat
  BY <1>1
<1>4. q < L
  <2> SUFFICES ASSUME ~ (q < L) PROVE FALSE
    OBVIOUS
  <2>1. CASE q = L
    BY <1>1, <1>2, <1>3, <2>1
  <2>2. CASE q > L
    <3>1. E * L + E <= E * q
      BY <1>1, <2>2, MulLe
    <3> QED BY <1>1, <1>2, <1>3, <3>1
  <2> QED BY <1>1, <2>1, <2>2
<1>5. n2 + e = E * (L + q) + r
  <2>1. E * (L + q) = E * L + E * q
    BY <1>1
  <2> QED BY <1>1, <1>2, <1>3, <2>1
<1>6. (E * (L + q) + r) \div E = L + q /\ (E * (L + q) + r) % E = r
  <2>1. L + q \in Nat
    BY <1>1
  <2> QED BY <1>1, <2>1, DivModUnique
<1>7. q \in 0 .. L - 1
  BY <1>1, <1>4
<1> QED BY <1>2, <1>5, <1>6, <1>7 DEF E, L

(* The two halfwords of word x of the C tile. *)
LEMMA WordIndex ==
  ASSUME NEW x \in TileIdx
  PROVE  LET n == x \div elemsCPerLine
             h == 2 * n2 + 2 * x
             o == 2 * (x % elemsCPerLine)
         IN  /\ n \in 0 .. linesC - 1 /\ o \in 0 .. elemsPerLine - 1
             /\ o + 1 \in 0 .. elemsPerLine - 1
             /\ h \div elemsPerLine = 2 * linesOperand + n /\ h % elemsPerLine = o
             /\ (h + 1) \div elemsPerLine = 2 * linesOperand + n
             /\ (h + 1) % elemsPerLine = o + 1
             /\ n * elemsCPerLine + o \div 2 = x /\ o % 2 = 0
             /\ n * elemsCPerLine + (o + 1) \div 2 = x /\ (o + 1) % 2 = 1
<1> DEFINE E == elemsPerLine
           F == elemsCPerLine
           L == linesOperand
<1>1. /\ F \in Nat \ {0} /\ L \in Nat \ {0} /\ E = 2 * F /\ E \in Nat \ {0}
      /\ linesC = 2 * L
      /\ n2 = F * (2 * L) /\ x \in Nat /\ x < n2 /\ n2 \in Nat
  BY Geometry DEF TileIdx
<1> HIDE DEF E, F, L
<1>2. PICK n \in Nat, r \in 0 .. F - 1 : n = x \div F /\ r = x % F /\ x = F * n + r
  <2>1. F \in Nat \ {0} /\ x \in Nat
    BY <1>1
  <2> QED BY ONLY <2>1, DivModEq
<1>3. F * n \in Nat /\ F * (2 * L) \in Nat /\ 2 * L \in Nat /\ r \in Nat /\ r < F
  BY <1>1
<1>4. n < 2 * L
  <2> SUFFICES ASSUME ~ (n < 2 * L) PROVE FALSE
    OBVIOUS
  <2>1. CASE n = 2 * L
    BY <1>1, <1>2, <1>3, <2>1
  <2>2. CASE n > 2 * L
    <3>1. F * (2 * L) + F <= F * n
      BY <1>1, <1>3, <2>2, MulLe
    <3> QED BY <1>1, <1>2, <1>3, <3>1
  <2> QED BY <1>1, <2>1, <2>2
<1>5. 2 * n2 + 2 * x = E * (2 * L + n) + 2 * r
  <2>1. E * (2 * L + n) = 2 * (F * (2 * L)) + 2 * (F * n)
    BY <1>1
  <2> QED BY <1>1, <1>2, <1>3, <2>1
<1>6. /\ 2 * L + n \in Nat /\ 2 * r \in 0 .. E - 1 /\ 2 * r + 1 \in 0 .. E - 1
  BY <1>1, <1>3
<1> DEFINE m == 2 * L + n
<1>7. /\ (E * m + 2 * r) \div E = m /\ (E * m + 2 * r) % E = 2 * r
      /\ (E * m + (2 * r + 1)) \div E = m /\ (E * m + (2 * r + 1)) % E = 2 * r + 1
  <2> HIDE DEF m
  <2>1. E \in Nat \ {0} /\ m \in Nat
    BY <1>1, <1>6 DEF m
  <2> DEFINE s == 2 * r
             u == 2 * r + 1
  <2>2. s \in 0 .. E - 1 /\ u \in 0 .. E - 1
    BY <1>6
  <2> HIDE DEF s, u
  <2>3. (E * m + s) \div E = m /\ (E * m + s) % E = s
    BY ONLY <2>1, <2>2, DivModUnique
  <2>4. (E * m + u) \div E = m /\ (E * m + u) % E = u
    BY ONLY <2>1, <2>2, DivModUnique
  <2> QED BY <2>3, <2>4 DEF s, u
<1>8. (2 * n2 + 2 * x) + 1 = E * m + (2 * r + 1)
  <2>1. E * m \in Nat
    BY <1>1, <1>6
  <2> QED BY <1>3, <1>5, <2>1
<1>9. /\ (2 * r) \div 2 = r /\ (2 * r) % 2 = 0
      /\ (2 * r + 1) \div 2 = r /\ (2 * r + 1) % 2 = 1
  BY <1>3
<1>10. n * F + r = x
  BY <1>1, <1>2
<1>11. n \in 0 .. linesC - 1
  BY <1>1, <1>4
<1> QED BY <1>2, <1>5, <1>6, <1>7, <1>8, <1>9, <1>10, <1>11 DEF E, F, L

(* A line number modulo the capacity is a line. *)
LEMMA LineOfType ==
  ASSUME NEW a \in Nat
  PROVE  LineOf(a) \in 0 .. MemLines - 1
BY Geometry, DivModEq DEF LineOf

(* The halfwords of the two operand tiles are halfwords. *)
LEMMA HalfType ==
  ASSUME NEW m \in Memory, baseAddr \in Nat, NEW e \in TileIdx
  PROVE  Half(m, e) \in HalfWord /\ Half(m, n2 + e) \in HalfWord
<1>1. /\ e \div elemsPerLine \in Nat /\ e % elemsPerLine \in 0 .. elemsPerLine - 1
      /\ (n2 + e) \div elemsPerLine \in Nat
      /\ (n2 + e) % elemsPerLine \in 0 .. elemsPerLine - 1
  BY HalfIndex, Geometry
<1>2. /\ LineOf(baseAddr + e \div elemsPerLine) \in 0 .. MemLines - 1
      /\ LineOf(baseAddr + (n2 + e) \div elemsPerLine) \in 0 .. MemLines - 1
  BY <1>1, LineOfType
<1> QED BY <1>1, <1>2 DEF Half, Memory

(* The index of an element, and the terms of a product. *)
LEMMA ElemIndex ==
  ASSUME NEW r \in Side, NEW c \in Side
  PROVE  /\ r * tile + c \in TileIdx
         /\ \A p, q \in Side : p * tile + q = r * tile + c => p = r /\ q = c
BY RowMajor, Geometry DEF Side, TileIdx, n2

LEMMA TermsType ==
  ASSUME NEW m \in Memory, baseAddr \in Nat, NEW r \in Side, NEW c \in Side,
         NEW s \in Side
  PROVE  /\ Terms(m, r, c)[s] = Half(m, r * tile + s) * Half(m, n2 + (s * tile + c))
         /\ Terms(m, r, c)[s] \in Nat
<1>1. r * tile + s \in TileIdx /\ s * tile + c \in TileIdx
  BY ElemIndex
<1>2. Half(m, r * tile + s) \in Nat /\ Half(m, n2 + (s * tile + c)) \in Nat
  BY <1>1, HalfType, Geometry DEF HalfWord
<1>3. n2 + s * tile + c = n2 + (s * tile + c)
  BY Geometry DEF Side
<1>4. Terms(m, r, c)[s] = Half(m, r * tile + s) * Half(m, n2 + (s * tile + c))
  BY <1>3 DEF Terms, A, B
<1> QED BY <1>2, <1>4

(* A word is its two halfwords. *)
LEMMA WordSplit ==
  ASSUME NEW w \in Word
  PROVE  /\ w % HalfMod \in HalfWord /\ w \div HalfMod \in HalfWord
         /\ (w % HalfMod) + HalfMod * (w \div HalfMod) = w
<1>1. HalfMod \in Nat \ {0} /\ w \in Nat /\ w < HalfMod * HalfMod
  BY Geometry DEF Word, WordMod
<1>2. /\ w \div HalfMod \in Nat /\ (w % HalfMod) \in 0 .. HalfMod - 1
      /\ w = HalfMod * (w \div HalfMod) + (w % HalfMod)
  BY <1>1, DivModEq
<1> DEFINE q == w \div HalfMod
           r == w % HalfMod
<1> HIDE DEF q, r
<1>3. q \in Nat /\ r \in 0 .. HalfMod - 1 /\ w = HalfMod * q + r
  BY <1>2 DEF q, r
<1>4. HalfMod * q \in Nat /\ HalfMod * HalfMod \in Nat
  BY <1>1, <1>3
<1>5. q < HalfMod
  <2> SUFFICES ASSUME ~ (q < HalfMod) PROVE FALSE
    OBVIOUS
  <2>1. CASE q = HalfMod
    BY <1>1, <1>3, <1>4, <2>1
  <2>2. CASE q > HalfMod
    <3>1. HalfMod * HalfMod + HalfMod <= HalfMod * q
      BY <1>1, <1>3, <2>2, MulLe
    <3> QED BY <1>1, <1>3, <1>4, <3>1
  <2> QED BY <1>1, <1>3, <2>1, <2>2
<1>6. q \in HalfWord /\ r \in HalfWord /\ r + HalfMod * q = w
  BY <1>1, <1>3, <1>4, <1>5 DEF HalfWord
<1> QED BY <1>6 DEF q, r

(* A line of stored words is a line. *)
LEMMA StoredLineType ==
  ASSUME cTile \in [TileIdx -> Word], NEW n \in 0 .. linesC - 1
  PROVE  StoredLine(n) \in [0 .. elemsPerLine - 1 -> HalfWord]
<1> SUFFICES ASSUME NEW e \in 0 .. elemsPerLine - 1
             PROVE  LET w == cTile[n * elemsCPerLine + e \div 2]
                    IN (IF e % 2 = 0 THEN w % HalfMod ELSE w \div HalfMod) \in HalfWord
  BY DEF StoredLine
<1> DEFINE F == elemsCPerLine
           x == n * F + e \div 2
<1>1. /\ F \in Nat \ {0} /\ elemsPerLine = 2 * F /\ linesC \in Nat
      /\ n2 = F * linesC /\ n2 \in Nat
  BY Geometry
<1>2. e \div 2 \in 0 .. F - 1 /\ n \in Nat /\ n < linesC
  BY <1>1
<1>3. F * n + F <= F * linesC
  BY <1>1, <1>2, MulLe
<1>4. F * n \in Nat /\ n * F = F * n
  BY <1>1, <1>2
<1>5. x \in TileIdx
  <2> HIDE DEF F
  <2> QED BY <1>1, <1>2, <1>3, <1>4 DEF TileIdx
<1>6. cTile[x] \in Word
  BY <1>5
<1> HIDE DEF x
<1>7. cTile[x] % HalfMod \in HalfWord /\ cTile[x] \div HalfMod \in HalfWord
  BY <1>6, WordSplit
<1> QED BY <1>7 DEF x

(* The lines of the C tile are different lines of the memory. *)
LEMMA CLinesDiffer ==
  ASSUME baseAddr \in Nat, NEW m \in 0 .. linesC - 1, NEW n \in 0 .. linesC - 1
  PROVE  CLine(m) \in 0 .. MemLines - 1 /\ (CLine(m) = CLine(n) => m = n)
<1> DEFINE b == baseAddr + 2 * linesOperand
<1>1. b \in Nat /\ m \in 0 .. MemLines - 1 /\ n \in 0 .. MemLines - 1
  BY Geometry
<1> HIDE DEF b
<1>2. (b + m) % MemLines = (b + n) % MemLines => m = n
  BY <1>1, Geometry, ModInjective
<1>3. LineOf(b + m) \in 0 .. MemLines - 1
  BY <1>1, LineOfType
<1> QED BY <1>2, <1>3 DEF CLine, LineOf, b

(* What the command found is fixed until the next one. *)
LEMMA TermsKept ==
  ASSUME UNCHANGED <<baseAddr, before>>
  PROVE  /\ \A e : Half(before, e)' = Half(before, e)
         /\ \A r, c : Terms(before, r, c)' = Terms(before, r, c)
BY DEF Half, Terms, A, B

(* The request and the lines to store are functions of these registers. *)
LEMMA RequestKept ==
  ASSUME UNCHANGED <<state, baseAddr, lineCnt, cTile>>
  PROVE  req' = req /\ (reqValid' <=> reqValid)
BY DEF req, reqValid, storeData

(* Taking a command. *)
LEMMA CommandKeeps ==
  ASSUME JobInv, CommandStep
  PROVE  JobInv'
<1>1. PICK base \in Bases : TakeCmd(base)
  BY DEF CommandStep
<1>2. /\ state = "s_idle" /\ state' = "s_fetchA" /\ baseAddr' = base
      /\ lineCnt' = 0 /\ jobs' = jobs + 1 /\ before' = mem /\ cBefore' = cTile
      /\ UNCHANGED <<mem, port, aTile, bTile, cTile, i, k, j>>
  BY <1>1 DEF CommandStep, TakeCmd, cmdReady
<1>3. base \in Nat
  BY JobAssumption
<1>4. JobTypeOK'
  BY <1>2, <1>3, Geometry DEF JobInv, JobTypeOK
<1>5. PortInv'
  BY <1>2 DEF JobInv, PortInv, reqValid
<1>6. TilesFetched'
  BY <1>2, HalfIndex DEF TilesFetched
<1>7. PartialProducts'
  <2> SUFFICES ASSUME NEW r \in Side, NEW c \in Side
               PROVE  (cTile[r * tile + c] =
                        (cBefore[r * tile + c]
                           + Sums(Terms(before, r, c))[MacsDone(r, c)]) % WordMod)'
    BY DEF PartialProducts
  <2>1. MacsDone(r, c)' = 0
    BY <1>2 DEF MacsDone
  <2>2. (Sums(Terms(before, r, c))[0] = 0)'
    BY SumsUnfold
  <2>3. cTile[r * tile + c] \in Word
    BY ElemIndex DEF JobInv, JobTypeOK
  <2>4. cTile[r * tile + c] = (cTile[r * tile + c] + 0) % WordMod
    <3> DEFINE w == cTile[r * tile + c]
    <3> HIDE DEF w
    <3>1. w \in 0 .. WordMod - 1 /\ WordMod \in Nat \ {0}
      BY <2>3, Geometry DEF Word, w
    <3>2. (WordMod * 0 + w) % WordMod = w
      BY <3>1, DivModUnique
    <3>3. WordMod * 0 + w = w + 0
      BY <3>1
    <3> QED BY <3>2, <3>3 DEF w
  <2> QED BY <1>2, <2>1, <2>2, <2>4
<1>8. LinesStored'
  BY <1>2 DEF LinesStored, OnlyCTileWritten
<1> QED BY <1>2, <1>4, <1>5, <1>6, <1>7, <1>8 DEF JobInv, JobTypeOK

(* The engine works on a command. *)
LEMMA BusyHasJob ==
  ASSUME JobInv, state # "s_idle"
  PROVE  jobs \in Nat /\ jobs > 0 /\ TilesFetched /\ PartialProducts /\ LinesStored
BY DEF JobInv, JobTypeOK

(* Steps that leave the accumulation alone. *)
LEMMA ProductsKept ==
  ASSUME PartialProducts, UNCHANGED <<baseAddr, before, cBefore, cTile>>,
         \A r, c \in Side : MacsDone(r, c)' = MacsDone(r, c)
  PROVE  PartialProducts'
<1> SUFFICES ASSUME NEW r \in Side, NEW c \in Side
             PROVE  (cTile[r * tile + c] =
                      (cBefore[r * tile + c]
                         + Sums(Terms(before, r, c))[MacsDone(r, c)]) % WordMod)'
  BY DEF PartialProducts
<1>1. Terms(before, r, c)' = Terms(before, r, c)
  BY TermsKept
<1>2. Sums(Terms(before, r, c))' = Sums(Terms(before, r, c))
  BY <1>1
<1>3. cTile[r * tile + c] =
        (cBefore[r * tile + c] + Sums(Terms(before, r, c))[MacsDone(r, c)]) % WordMod
  BY DEF PartialProducts
<1> QED BY <1>2, <1>3

(* Steps that leave the memory and the C tile alone. *)
LEMMA StoresKept ==
  ASSUME LinesStored, UNCHANGED <<state, baseAddr, before, cTile, mem, lineCnt, jobs>>
  PROVE  LinesStored'
BY DEF LinesStored, OnlyCTileWritten, CLine, StoredLine

(* A cycle without a response. *)
LEMMA WaitKeeps ==
  ASSUME JobInv, WaitStep
  PROVE  JobInv'
<1>1. PICK bits \in Noise : FetchA(FALSE, bits) \/ FetchB(FALSE, bits) \/ Store(FALSE)
  BY DEF WaitStep
<1>2. /\ UNCHANGED <<mem, jobs, before, cBefore>>
      /\ UNCHANGED <<state, baseAddr, lineCnt, cTile, i, k, j>>
      /\ port' = port \/ port' = {req}
      /\ state \in {"s_fetchA", "s_fetchB", "s_store"}
  BY <1>1 DEF WaitStep, FetchA, FetchB, Store
<1>3. jobs \in Nat /\ jobs > 0 /\ TilesFetched /\ PartialProducts /\ LinesStored
  BY <1>2, BusyHasJob
<1>4. JobTypeOK'
  BY <1>2 DEF JobInv, JobTypeOK
<1>5. PortInv'
  <2>1. req' = req /\ (reqValid' <=> reqValid)
    BY <1>2, RequestKept
  <2>2. reqValid
    BY <1>2 DEF reqValid
  <2> QED BY <1>2, <2>1, <2>2 DEF JobInv, PortInv
<1>6. TilesFetched'
  <2>1. \A e : Half(before, e)' = Half(before, e)
    BY <1>2, TermsKept
  <2>2. \A e \in TileIdx : e \div elemsPerLine < lineCnt =>
          Slice(aTile, bits)[e] = aTile[e] /\ Slice(bTile, bits)[e] = bTile[e]
    BY HalfIndex DEF Slice, JobInv, JobTypeOK
  <2>3. CASE FetchA(FALSE, bits)
    BY <1>2, <1>3, <2>1, <2>2, <2>3 DEF FetchA, TilesFetched
  <2>4. CASE FetchB(FALSE, bits)
    BY <1>2, <1>3, <2>1, <2>2, <2>4 DEF FetchB, TilesFetched
  <2>5. CASE Store(FALSE)
    BY <1>2, <1>3, <2>1, <2>5 DEF Store, TilesFetched
  <2> QED BY <1>1, <2>3, <2>4, <2>5
<1>7. PartialProducts'
  <2>1. \A r, c \in Side : MacsDone(r, c)' = MacsDone(r, c)
    BY <1>2 DEF MacsDone
  <2> QED BY <1>2, <1>3, <2>1, ProductsKept
<1>8. LinesStored'
  BY <1>2, <1>3, StoresKept
<1> QED BY <1>2, <1>3, <1>4, <1>5, <1>6, <1>7, <1>8 DEF JobInv

(* The response to a fetch of the first tile: its line is complete. *)
LEMMA FetchAKeeps ==
  ASSUME JobInv, AnswerStep, state = "s_fetchA"
  PROVE  JobInv'
<1>1. jobs \in Nat /\ jobs > 0 /\ TilesFetched /\ PartialProducts /\ LinesStored
  BY BusyHasJob
<1>2. /\ baseAddr \in Nat /\ lineCnt \in Nat /\ lineCnt < linesOperand
      /\ linesOperand \in Nat
  BY Geometry DEF JobInv, JobTypeOK
<1> DEFINE bits == mem[LineOf(baseAddr + lineCnt)]
<1>3. FetchA(TRUE, bits) /\ mem' = mem
  <2>1. port = {req} /\ req.isWrite = FALSE /\ req.line = baseAddr + lineCnt + 0
    BY DEF JobInv, PortInv, AnswerStep, req
  <2>2. req.line = baseAddr + lineCnt
    BY <1>2, <2>1
  <2> QED BY <2>1, <2>2 DEF AnswerStep, FetchB, Store
<1>4. /\ aTile' = Slice(aTile, bits) /\ port' = {}
      /\ UNCHANGED <<jobs, before, cBefore, mem, baseAddr, bTile, cTile, i, k, j>>
      /\ IF lineCnt = linesOperand - 1
         THEN lineCnt' = 0 /\ state' = "s_fetchB"
         ELSE lineCnt' = lineCnt + 1 /\ state' = "s_fetchA"
  BY <1>3 DEF FetchA, AnswerStep
<1>5. JobTypeOK'
  BY <1>2, <1>4, Geometry DEF JobInv, JobTypeOK
<1>6. ASSUME NEW e \in TileIdx, e \div elemsPerLine <= lineCnt
      PROVE  aTile'[e] = Half(before, e)
  <2>1. e \div elemsPerLine \in Nat /\ mem = before
    BY <1>1, HalfIndex DEF LinesStored
  <2>2. CASE e \div elemsPerLine = lineCnt
    <3>1. aTile'[e] = bits[e % elemsPerLine]
      BY <1>4, <2>2 DEF Slice
    <3> QED BY <2>1, <2>2, <3>1 DEF Half
  <2>3. CASE e \div elemsPerLine # lineCnt
    <3>1. aTile'[e] = aTile[e]
      BY <1>4, <2>3 DEF Slice
    <3> QED BY <1>1, <1>2, <1>6, <2>1, <2>3, <3>1 DEF TilesFetched
  <2> QED BY <2>2, <2>3
<1>7. TilesFetched'
  <2>1. \A e \in TileIdx : Half(before, e)' = Half(before, e)
    BY <1>4, TermsKept
  <2>2. \A e \in TileIdx : e \div elemsPerLine \in 0 .. linesOperand - 1
    BY HalfIndex
  <2>3. CASE lineCnt = linesOperand - 1
    <3>1. \A e \in TileIdx : aTile'[e] = Half(before, e)
      BY <1>2, <1>6, <2>2, <2>3
    <3>2. lineCnt' = 0 /\ state' = "s_fetchB"
      BY <1>4, <2>3
    <3>3. \A e \in TileIdx : ~ (e \div elemsPerLine < 0)
      BY <1>2, <2>2
    <3> QED BY ONLY <2>1, <3>1, <3>2, <3>3 DEF TilesFetched
  <2>4. CASE lineCnt # linesOperand - 1
    <3>1. \A e \in TileIdx : e \div elemsPerLine < lineCnt + 1
            => aTile'[e] = Half(before, e)
      BY <1>2, <1>6, <2>2
    <3> QED BY <1>4, <2>1, <2>4, <3>1 DEF TilesFetched
  <2> QED BY <2>3, <2>4
<1>8. PartialProducts'
  <2>1. \A r, c \in Side : MacsDone(r, c)' = MacsDone(r, c)
    BY <1>4 DEF MacsDone
  <2> QED BY <1>1, <1>4, <2>1, ProductsKept
<1>9. LinesStored'
  BY <1>1, <1>4 DEF LinesStored, OnlyCTileWritten
<1> QED BY <1>1, <1>4, <1>5, <1>7, <1>8, <1>9 DEF JobInv, PortInv

(* The same for the second tile, whose last line starts the accumulation. *)
LEMMA FetchBKeeps ==
  ASSUME JobInv, AnswerStep, state = "s_fetchB"
  PROVE  JobInv'
<1>1. jobs \in Nat /\ jobs > 0 /\ TilesFetched /\ PartialProducts /\ LinesStored
  BY BusyHasJob
<1>2. /\ baseAddr \in Nat /\ lineCnt \in Nat /\ lineCnt < linesOperand
      /\ linesOperand \in Nat
  BY Geometry DEF JobInv, JobTypeOK
<1> DEFINE bits == mem[LineOf(baseAddr + lineCnt + linesOperand)]
<1>3. FetchB(TRUE, bits) /\ mem' = mem
  <2>1. /\ port = {req} /\ req.isWrite = FALSE
        /\ req.line = baseAddr + lineCnt + linesOperand
    BY DEF JobInv, PortInv, AnswerStep, req
  <2> QED BY <2>1 DEF AnswerStep, FetchA, Store
<1>4. /\ bTile' = Slice(bTile, bits) /\ port' = {}
      /\ UNCHANGED <<jobs, before, cBefore, mem, baseAddr, aTile, cTile>>
      /\ IF lineCnt = linesOperand - 1
         THEN lineCnt' = 0 /\ state' = "s_calc" /\ i' = 0 /\ k' = 0 /\ j' = 0
         ELSE lineCnt' = lineCnt + 1 /\ state' = "s_fetchB" /\ UNCHANGED <<i, k, j>>
  BY <1>3 DEF FetchB, AnswerStep
<1>5. JobTypeOK'
  <2>1. 0 \in Side /\ (lineCnt # linesOperand - 1 => lineCnt + 1 < linesOperand)
    BY <1>2, Geometry DEF Side
  <2> QED BY <1>2, <1>4, <2>1 DEF JobInv, JobTypeOK
<1>6. ASSUME NEW e \in TileIdx, e \div elemsPerLine <= lineCnt
      PROVE  bTile'[e] = Half(before, n2 + e)
  <2>1. /\ e \div elemsPerLine \in Nat /\ mem = before
        /\ (n2 + e) \div elemsPerLine = linesOperand + (e \div elemsPerLine)
        /\ (n2 + e) % elemsPerLine = e % elemsPerLine
    BY <1>1, HalfIndex DEF LinesStored
  <2>2. CASE e \div elemsPerLine = lineCnt
    <3>1. bTile'[e] = bits[e % elemsPerLine]
      BY <1>4, <2>2 DEF Slice
    <3>2. baseAddr + lineCnt + linesOperand = baseAddr + (n2 + e) \div elemsPerLine
      BY <1>2, <2>1, <2>2
    <3> QED BY <2>1, <3>1, <3>2 DEF Half
  <2>3. CASE e \div elemsPerLine # lineCnt
    <3>1. bTile'[e] = bTile[e]
      BY <1>4, <2>3 DEF Slice
    <3> QED BY <1>1, <1>2, <1>6, <2>1, <2>3, <3>1 DEF TilesFetched
  <2> QED BY <2>2, <2>3
<1>7. TilesFetched'
  <2>1. \A e \in TileIdx : /\ Half(before, e)' = Half(before, e)
                           /\ Half(before, n2 + e)' = Half(before, n2 + e)
    BY <1>4, TermsKept
  <2>2. \A e \in TileIdx : aTile[e] = Half(before, e)
    BY <1>1 DEF TilesFetched
  <2>3. \A e \in TileIdx : e \div elemsPerLine \in 0 .. linesOperand - 1
    BY HalfIndex
  <2>4. CASE lineCnt = linesOperand - 1
    <3>1. \A e \in TileIdx : bTile'[e] = Half(before, n2 + e)
      BY <1>2, <1>6, <2>3, <2>4
    <3> QED BY <1>4, <2>1, <2>2, <2>4, <3>1 DEF TilesFetched
  <2>5. CASE lineCnt # linesOperand - 1
    <3>1. \A e \in TileIdx : e \div elemsPerLine < lineCnt + 1
            => bTile'[e] = Half(before, n2 + e)
      BY <1>2, <1>6, <2>3
    <3> QED BY <1>4, <2>1, <2>2, <2>5, <3>1 DEF TilesFetched
  <2> QED BY <2>4, <2>5
<1>8. PartialProducts'
  <2>1. \A r, c \in Side : MacsDone(r, c)' = MacsDone(r, c)
    <3> SUFFICES ASSUME NEW r \in Side, NEW c \in Side
                 PROVE  MacsDone(r, c)' = MacsDone(r, c)
      OBVIOUS
    <3>1. r \in Nat /\ c \in Nat /\ MacsDone(r, c) = 0
      BY Geometry DEF Side, MacsDone
    <3> QED BY <1>4, <3>1 DEF MacsDone
  <2> QED BY <1>1, <1>4, <2>1, ProductsKept
<1>9. LinesStored'
  BY <1>1, <1>4 DEF LinesStored, OnlyCTileWritten
<1> QED BY <1>1, <1>4, <1>5, <1>7, <1>8, <1>9 DEF JobInv, PortInv

(* The response to a store: one more line of the C tile is in memory. *)
LEMMA StoreKeeps ==
  ASSUME JobInv, AnswerStep, state = "s_store"
  PROVE  JobInv'
<1>1. jobs \in Nat /\ jobs > 0 /\ TilesFetched /\ PartialProducts /\ LinesStored
  BY BusyHasJob
<1>2. /\ baseAddr \in Nat /\ lineCnt \in 0 .. linesC - 1 /\ linesC \in Nat
      /\ linesOperand \in Nat /\ cTile \in [TileIdx -> Word] /\ mem \in Memory
  BY Geometry DEF JobInv, JobTypeOK
<1>3. Store(TRUE) /\ mem' = [mem EXCEPT ![CLine(lineCnt)] = StoredLine(lineCnt)]
  <2>1. /\ port = {req} /\ req.isWrite = TRUE /\ req.data = storeData
        /\ req.line = baseAddr + lineCnt + 2 * linesOperand
    BY DEF JobInv, PortInv, AnswerStep, req, cOffset
  <2>2. LineOf(req.line) = CLine(lineCnt)
    <3>1. req.line = baseAddr + 2 * linesOperand + lineCnt
      BY <1>2, <2>1
    <3> QED BY <3>1 DEF CLine
  <2>3. storeData = StoredLine(lineCnt)
    BY DEF storeData, StoredLine
  <2> QED BY <2>1, <2>2, <2>3 DEF AnswerStep, FetchA, FetchB
<1>4. /\ port' = {} /\ lineCnt' = lineCnt + 1
      /\ state' = IF lineCnt = linesC - 1 THEN "s_idle" ELSE "s_store"
      /\ UNCHANGED <<jobs, before, cBefore, baseAddr, aTile, bTile, cTile, i, k, j>>
  BY <1>3 DEF Store, AnswerStep
<1>5. /\ CLine(lineCnt) \in 0 .. MemLines - 1
      /\ \A n \in 0 .. linesC - 1 : CLine(n) = CLine(lineCnt) => n = lineCnt
      /\ \A n \in 0 .. linesC - 1 : CLine(n) \in 0 .. MemLines - 1
  BY <1>2, CLinesDiffer
<1>6. StoredLine(lineCnt) \in [0 .. elemsPerLine - 1 -> HalfWord]
  BY <1>2, StoredLineType
<1>7. mem' \in Memory
  BY <1>2, <1>3, <1>5, <1>6 DEF Memory
<1>8. JobTypeOK'
  BY <1>2, <1>4, <1>7 DEF JobInv, JobTypeOK
<1>9. TilesFetched'
  <2>1. \A e : Half(before, e)' = Half(before, e)
    BY <1>4, TermsKept
  <2> QED BY <1>1, <1>4, <2>1 DEF TilesFetched
<1>10. PartialProducts'
  <2>1. \A r, c \in Side : MacsDone(r, c)' = MacsDone(r, c)
    BY <1>4 DEF MacsDone
  <2> QED BY <1>1, <1>4, <2>1, ProductsKept
<1>11. LinesStored'
  <2>1. \A n : CLine(n)' = CLine(n) /\ StoredLine(n)' = StoredLine(n)
    BY <1>4 DEF CLine, StoredLine
  <2>2. ASSUME NEW n \in 0 .. lineCnt PROVE mem'[CLine(n)] = StoredLine(n)
    <3>1. n \in 0 .. linesC - 1
      BY <1>2
    <3>2. CASE n = lineCnt
      BY <1>2, <1>3, <1>5, <3>2 DEF Memory
    <3>3. CASE n # lineCnt
      <4>1. n \in 0 .. lineCnt - 1 /\ CLine(n) # CLine(lineCnt)
        BY <1>2, <1>5, <3>1, <3>3
      <4>2. mem'[CLine(n)] = mem[CLine(n)]
        BY <1>2, <1>3, <1>5, <3>1, <4>1 DEF Memory
      <4> QED BY <1>1, <4>1, <4>2 DEF LinesStored
    <3> QED BY <3>2, <3>3
  <2>3. lineCnt' - 1 = lineCnt
    BY <1>2, <1>4
  <2>4. (\A n \in 0 .. lineCnt - 1 : mem[CLine(n)] = StoredLine(n))'
    BY <2>1, <2>2, <2>3
  <2>5. OnlyCTileWritten'
    <3> SUFFICES ASSUME NEW l \in 0 .. MemLines - 1,
                        \A n \in 0 .. linesC - 1 : l # CLine(n)
                 PROVE  mem'[l] = before[l]
      BY <1>4, <2>1 DEF OnlyCTileWritten, CLine
    <3>1. l # CLine(lineCnt)
      BY <1>2
    <3>2. mem[l] = before[l]
      BY <1>1 DEF LinesStored, OnlyCTileWritten, CLine
    <3> QED BY <1>2, <1>3, <3>1, <3>2 DEF Memory
  <2>6. (state = "s_idle" => lineCnt = linesC)'
    BY <1>2, <1>4
  <2> QED BY <1>4, <2>4, <2>5, <2>6 DEF LinesStored
<1> QED BY <1>1, <1>4, <1>8, <1>9, <1>10, <1>11 DEF JobInv, PortInv

(* The counters of the loop nest: a step of s_calc does one more           *)
(* multiply-accumulate on word i, j and none on the others.                *)
LEMMA CalcCounts ==
  ASSUME JobInv, Calc, NEW r \in Side, NEW c \in Side
  PROVE  /\ MacsDone(r, c)' = IF r = i /\ c = j THEN k + 1 ELSE MacsDone(r, c)
         /\ MacsDone(i, j) = k
         /\ i' \in Side /\ j' \in Side /\ k' \in Side
<1> DEFINE T == tile
<1>1. /\ T \in Nat \ {0} /\ i \in 0 .. T - 1 /\ j \in 0 .. T - 1 /\ k \in 0 .. T - 1
      /\ r \in 0 .. T - 1 /\ c \in 0 .. T - 1
  BY Geometry DEF JobInv, JobTypeOK, Side
<1>2. /\ j' = IF j = T - 1 THEN 0 ELSE j + 1
      /\ k' = IF j = T - 1 THEN (IF k = T - 1 THEN 0 ELSE k + 1) ELSE k
      /\ state = "s_calc"
      /\ IF j = T - 1 /\ k = T - 1
         THEN IF i = T - 1 THEN state' = "s_store" /\ i' = i
                           ELSE state' = "s_calc" /\ i' = i + 1
         ELSE state' = "s_calc" /\ i' = i
  BY <1>1, ModSucc DEF Calc
<1> DEFINE D == MacsDone(r, c)
           D1 == MacsDone(r, c)'
<1>3. D = IF r < i THEN T ELSE IF r > i THEN 0 ELSE IF c < j THEN k + 1 ELSE k
  BY <1>2 DEF MacsDone
<1>4. D1 = IF state' = "s_calc"
           THEN IF r < i' THEN T ELSE IF r > i' THEN 0 ELSE IF c < j' THEN k' + 1 ELSE k'
           ELSE T
  BY <1>2 DEF MacsDone
<1>5. MacsDone(i, j) = k
  BY <1>1, <1>2 DEF MacsDone
<1> HIDE DEF T, D, D1
<1>6. i' \in 0 .. T - 1 /\ j' \in 0 .. T - 1 /\ k' \in 0 .. T - 1
  BY <1>1, <1>2
<1>7. D1 = IF r = i /\ c = j THEN k + 1 ELSE D
  <2>1. CASE j # T - 1
    BY <1>1, <1>2, <1>3, <1>4, <2>1
  <2>2. CASE j = T - 1 /\ k # T - 1
    BY <1>1, <1>2, <1>3, <1>4, <2>2
  <2>3. CASE j = T - 1 /\ k = T - 1 /\ i # T - 1
    BY <1>1, <1>2, <1>3, <1>4, <2>3
  <2>4. CASE j = T - 1 /\ k = T - 1 /\ i = T - 1
    BY <1>1, <1>2, <1>3, <1>4, <2>4
  <2> QED BY <2>1, <2>2, <2>3, <2>4
<1> QED BY <1>5, <1>6, <1>7 DEF T, D, D1, Side

(* One multiply-accumulate. *)
LEMMA CalcKeeps ==
  ASSUME JobInv, CalcStep
  PROVE  JobInv'
<1>1. /\ Calc /\ state = "s_calc" /\ cTile' = [cTile EXCEPT ![elemIdx] = acc]
      /\ UNCHANGED <<mem, port, jobs, before, cBefore, baseAddr, aTile, bTile>>
      /\ \/ state' = "s_calc" /\ lineCnt' = lineCnt
         \/ state' = "s_store" /\ lineCnt' = 0
  BY DEF CalcStep, Calc
<1>2. jobs \in Nat /\ jobs > 0 /\ TilesFetched /\ PartialProducts /\ LinesStored
  BY <1>1, BusyHasJob
<1>3. /\ i \in Side /\ j \in Side /\ k \in Side /\ baseAddr \in Nat
      /\ cTile \in [TileIdx -> Word] /\ cBefore \in [TileIdx -> Word]
      /\ before \in Memory /\ lineCnt \in Nat
  BY DEF JobInv, JobTypeOK
<1>4. i' \in Side /\ j' \in Side /\ k' \in Side
  BY <1>1, <1>3, CalcCounts
<1>5. elemIdx \in TileIdx /\ elemIdx = i * tile + j
  BY <1>3, ElemIndex DEF elemIdx
<1> DEFINE S == Sums(Terms(before, i, j))
<1>6. /\ aTile[i * tile + k] * bTile[k * tile + j] = Terms(before, i, j)[k]
      /\ Terms(before, i, j)[k] \in Nat
  <2>1. i * tile + k \in TileIdx /\ k * tile + j \in TileIdx
    BY <1>3, ElemIndex
  <2>2. /\ aTile[i * tile + k] = Half(before, i * tile + k)
        /\ bTile[k * tile + j] = Half(before, n2 + (k * tile + j))
    BY <1>1, <1>2, <2>1 DEF TilesFetched
  <2> QED BY <1>3, <2>2, TermsType
<1>7. S[k + 1] = S[k] + Terms(before, i, j)[k] /\ S[k] \in Nat
  <2>1. \A x \in 0 .. tile - 1 : Terms(before, i, j)[x] \in Nat
    BY <1>3, TermsType DEF Side
  <2>2. k \in Nat /\ k \in 0 .. tile /\ tile \in Nat
    BY <1>3, Geometry DEF Side
  <2> QED BY <2>1, <2>2, SumsUnfold, SumsType
<1>8. acc = (cBefore[elemIdx] + S[k + 1]) % WordMod /\ acc \in Word
  <2>1. cTile[elemIdx] = (cBefore[elemIdx] + S[k]) % WordMod
    BY <1>1, <1>2, <1>3, <1>5, CalcCounts DEF PartialProducts
  <2> DEFINE x == cBefore[elemIdx] + S[k]
             y == Terms(before, i, j)[k]
  <2>2. x \in Nat /\ y \in Nat /\ WordMod \in Nat \ {0} /\ cBefore[elemIdx] \in Nat
    BY <1>3, <1>5, <1>6, <1>7, Geometry DEF Word
  <2>3. acc = ((x % WordMod) + y) % WordMod
    BY <1>6, <2>1 DEF acc
  <2>4. x + y = cBefore[elemIdx] + S[k + 1]
    BY <1>6, <1>7, <2>2
  <2> HIDE DEF x, y
  <2>5. acc = (x + y) % WordMod
    BY <2>2, <2>3, ModSum
  <2>6. (x + y) % WordMod \in Word
    BY <2>2, DivModEq DEF Word
  <2> QED BY <2>4, <2>5, <2>6
<1>9. cTile' \in [TileIdx -> Word]
  BY <1>1, <1>3, <1>5, <1>8
<1>10. JobTypeOK'
  <2>1. 0 < linesC /\ lineCnt' \in Nat
    BY <1>1, <1>3, Geometry
  <2>2. (state \in {"s_fetchA", "s_fetchB"} => lineCnt < linesOperand)'
        /\ (state = "s_store" => lineCnt < linesC)'
    BY <1>1, <2>1
  <2> QED BY <1>1, <1>3, <1>4, <1>9, <2>1, <2>2 DEF JobInv, JobTypeOK
<1>11. PortInv'
  BY <1>1 DEF JobInv, PortInv, reqValid
<1>12. TilesFetched'
  <2>1. \A e : Half(before, e)' = Half(before, e)
    BY <1>1, TermsKept
  <2> QED BY <1>1, <1>2, <2>1 DEF TilesFetched
<1>13. PartialProducts'
  <2> SUFFICES ASSUME NEW r \in Side, NEW c \in Side
               PROVE  (cTile[r * tile + c] =
                        (cBefore[r * tile + c]
                           + Sums(Terms(before, r, c))[MacsDone(r, c)]) % WordMod)'
    BY DEF PartialProducts
  <2>1. Terms(before, r, c)' = Terms(before, r, c)
    BY <1>1, TermsKept
  <2>2. MacsDone(r, c)' = IF r = i /\ c = j THEN k + 1 ELSE MacsDone(r, c)
    BY <1>1, CalcCounts
  <2>3. CASE r = i /\ c = j
    <3>1. cTile'[r * tile + c] = acc
      BY <1>1, <1>3, <1>5, <2>3
    <3> QED BY <1>1, <1>5, <1>8, <2>1, <2>2, <2>3, <3>1
  <2>4. CASE ~ (r = i /\ c = j)
    <3>1. r * tile + c # elemIdx
      BY <1>3, <1>5, <2>4, ElemIndex
    <3>2. cTile'[r * tile + c] = cTile[r * tile + c]
      BY <1>1, <1>3, <3>1, ElemIndex
    <3>3. MacsDone(r, c)' = MacsDone(r, c)
      BY <2>2, <2>4
    <3>4. cTile[r * tile + c] =
            (cBefore[r * tile + c] + Sums(Terms(before, r, c))[MacsDone(r, c)]) % WordMod
      BY <1>2 DEF PartialProducts
    <3> QED BY <1>1, <2>1, <3>2, <3>3, <3>4
  <2> QED BY <2>3, <2>4
<1>14. LinesStored'
  BY <1>1, <1>2 DEF LinesStored, OnlyCTileWritten
<1> QED BY <1>1, <1>2, <1>10, <1>11, <1>12, <1>13, <1>14 DEF JobInv

(* The invariant holds throughout. *)
LEMMA JobInvariant == JobSpec => []JobInv
<1>1. JobInit => JobInv
  <2> SUFFICES ASSUME JobInit PROVE JobInv
    OBVIOUS
  <2>1. mem \in Memory
    BY JobAssumption DEF JobInit, Memory, HalfWord
  <2>2. JobTypeOK
    BY <2>1, Geometry DEF JobInit, Init, JobTypeOK, Side, Word
  <2> QED BY <2>2 DEF JobInit, Init, JobInv, PortInv
<1>2. JobInv /\ [JobNext]_jobVars => JobInv'
  <2> SUFFICES ASSUME JobInv, [JobNext]_jobVars PROVE JobInv'
    OBVIOUS
  <2>1. CASE AnswerStep
    <3>1. state \in {"s_fetchA", "s_fetchB", "s_store"}
      BY <2>1 DEF AnswerStep, FetchA, FetchB, Store
    <3> QED BY <2>1, <3>1, FetchAKeeps, FetchBKeeps, StoreKeeps
  <2>2. CASE UNCHANGED jobVars
    <3>1. UNCHANGED <<state, baseAddr, aTile, bTile, cTile, lineCnt, i, k, j, mem,
                      port, jobs, before, cBefore>>
      BY <2>2 DEF jobVars, gemmVars
    <3>2. JobTypeOK' /\ PortInv'
      BY <3>1, RequestKept DEF JobInv, JobTypeOK, PortInv
    <3>3. ASSUME jobs > 0 PROVE (TilesFetched /\ PartialProducts /\ LinesStored)'
      <4>1. TilesFetched /\ PartialProducts /\ LinesStored
        BY <3>3 DEF JobInv
      <4>2. \A r, c \in Side : MacsDone(r, c)' = MacsDone(r, c)
        BY <3>1 DEF MacsDone
      <4>3. \A e : Half(before, e)' = Half(before, e)
        BY <3>1, TermsKept
      <4>4. TilesFetched'
        BY <3>1, <4>1, <4>3 DEF TilesFetched
      <4> QED BY <3>1, <4>1, <4>2, <4>4, ProductsKept, StoresKept
    <3> QED BY <3>1, <3>2, <3>3 DEF JobInv
  <2> QED BY <2>1, <2>2, CommandKeeps, CalcKeeps, WaitKeeps DEF JobNext, IdleStep
<1> QED BY <1>1, <1>2, PTL DEF JobSpec

(* The engine writes nothing outside the C tile of its work area. *)
THEOREM GemmOnlyCTileWritten == JobSpec => []OnlyCTileWritten
<1>1. JobInv => OnlyCTileWritten
  BY DEF JobInv, LinesStored, OnlyCTileWritten
<1> QED BY <1>1, JobInvariant, PTL

(* After a command the C tile in memory is the product of the tiles the    *)
(* command found, added to what cTile held when it was taken.              *)
LEMMA RunningSum ==
  ASSUME JobInv, jobs > 0, ~ busy, NEW r \in Side, NEW c \in Side
  PROVE  C(mem, r, c) = (cBefore[r * tile + c] + Product(before, r, c)) % WordMod
<1> DEFINE x == r * tile + c
           n == x \div elemsCPerLine
           h == 2 * n2 + 2 * x
           o == 2 * (x % elemsCPerLine)
           w == cTile[x]
<1>1. state = "s_idle" /\ PartialProducts /\ LinesStored
  BY DEF busy, JobInv
<1>2. x \in TileIdx /\ w \in Word
  BY ElemIndex DEF JobInv, JobTypeOK
<1>3. w = (cBefore[x] + Product(before, r, c)) % WordMod
  BY <1>1 DEF PartialProducts, MacsDone, Product
<1> HIDE DEF x
<1>4. /\ n \in 0 .. linesC - 1 /\ o \in 0 .. elemsPerLine - 1
      /\ o + 1 \in 0 .. elemsPerLine - 1
      /\ h \div elemsPerLine = 2 * linesOperand + n /\ h % elemsPerLine = o
      /\ (h + 1) \div elemsPerLine = 2 * linesOperand + n
      /\ (h + 1) % elemsPerLine = o + 1
      /\ n * elemsCPerLine + o \div 2 = x /\ o % 2 = 0
      /\ n * elemsCPerLine + (o + 1) \div 2 = x /\ (o + 1) % 2 = 1
  BY <1>2, WordIndex
<1> HIDE DEF n, h, o
<1>5. mem[CLine(n)] = StoredLine(n)
  BY <1>1, <1>4 DEF LinesStored
<1>6. StoredLine(n)[o] = w % HalfMod /\ StoredLine(n)[o + 1] = w \div HalfMod
  BY <1>4 DEF StoredLine
<1>7. baseAddr + (2 * linesOperand + n) = baseAddr + 2 * linesOperand + n
  BY <1>4, Geometry DEF JobInv, JobTypeOK
<1>8. Half(mem, h) = w % HalfMod /\ Half(mem, h + 1) = w \div HalfMod
  BY <1>4, <1>5, <1>6, <1>7 DEF Half, CLine
<1>9. C(mem, r, c) = (w % HalfMod) + HalfMod * (w \div HalfMod)
  BY <1>8 DEF C, h, x
<1> QED BY <1>2, <1>3, <1>9, WordSplit DEF x

(* What the first command finds in cTile. *)
FirstInv ==
  /\ jobs \in Nat
  /\ jobs = 0 => state = "s_idle" /\ cTile = [e \in TileIdx |-> 0]
  /\ jobs = 1 => cBefore = [e \in TileIdx |-> 0]

(* cTile holds the zeros of reset until the first command is taken. *)
LEMMA FirstInvariant == JobSpec => []FirstInv
<1>1. JobInit => FirstInv
  BY DEF JobInit, Init, FirstInv
<1>2. FirstInv /\ [JobNext]_jobVars => FirstInv'
  <2> SUFFICES ASSUME FirstInv, [JobNext]_jobVars PROVE FirstInv'
    OBVIOUS
  <2>1. CASE CommandStep
    BY <2>1 DEF FirstInv, CommandStep, TakeCmd
  <2>2. CASE WaitStep \/ AnswerStep \/ CalcStep
    <3>1. state # "s_idle" /\ UNCHANGED <<jobs, cBefore>>
      BY <2>2 DEF WaitStep, AnswerStep, CalcStep, FetchA, FetchB, Store, Calc
    <3> QED BY <3>1 DEF FirstInv
  <2>3. CASE UNCHANGED jobVars
    BY <2>3 DEF jobVars, gemmVars, FirstInv
  <2> QED BY <2>1, <2>2, <2>3 DEF JobNext, IdleStep
<1> QED BY <1>1, <1>2, PTL DEF JobSpec

(* The first command leaves the product of the tiles it found in the C     *)
(* tile: the fetches keep no noise, every product is summed once and every *)
(* line of C stored once (GemmToMem.scala 66-118).                         *)
THEOREM GemmFirstProduct == JobSpec => []FirstProduct
<1>1. JobInv /\ FirstInv => FirstProduct
  <2> SUFFICES ASSUME JobInv, FirstInv, jobs = 1, ~ busy, NEW r \in Side, NEW c \in Side
               PROVE  C(mem, r, c) = Product(before, r, c) % WordMod
    BY DEF FirstProduct, HoldsProduct
  <2>1. C(mem, r, c) = (cBefore[r * tile + c] + Product(before, r, c)) % WordMod
    <3>1. jobs > 0
      OBVIOUS
    <3> QED BY <3>1, RunningSum
  <2>2. cBefore[r * tile + c] = 0
    BY ElemIndex DEF FirstInv
  <2>3. Product(before, r, c) \in Nat
    <3>1. \A x \in 0 .. tile - 1 : Terms(before, r, c)[x] \in Nat
      BY TermsType DEF JobInv, JobTypeOK, Side
    <3>2. tile \in Nat /\ tile \in 0 .. tile
      BY JobAssumption
    <3> QED BY <3>1, <3>2, SumsType DEF Product
  <2> QED BY <2>1, <2>2, <2>3
<1> QED BY <1>1, JobInvariant, FirstInvariant, PTL
=============================================================================
