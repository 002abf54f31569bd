----------------------------- MODULE GemmToMem ------------------------------
(***************************************************************************)
(* fixedfunc/GemmToMem.scala: the matrix engine on the accelerator port.   *)
(* It fetches the tiles A and B line by line, accumulates A x B into       *)
(* cTile, and stores cTile.  A line holds elemsPerLine halfwords, or half  *)
(* as many words; addresses count lines.                                   *)
(***************************************************************************)
EXTENDS Integers

CONSTANTS
  tile, elemsPerLine,     \* matrix side, halfwords of a line
  HalfMod                 \* 2^16

VARIABLES state, baseAddr, aTile, bTile, cTile, lineCnt, i, k, j

gemmVars == <<state, baseAddr, aTile, bTile, cTile, lineCnt, i, k, j>>

n2 == tile * tile
linesOperand == n2 \div elemsPerLine
elemsCPerLine == elemsPerLine \div 2
linesC == n2 \div elemsCPerLine

TileIdx == 0 .. n2 - 1
WordMod == HalfMod * HalfMod

cmdReady == state = "s_idle"
busy == state # "s_idle"

reqValid  == state \in {"s_fetchA", "s_fetchB", "s_store"}
respReady == reqValid

(* A word of cTile is stored as its low and its high halfword. *)
storeData ==
  [e \in 0 .. elemsPerLine - 1 |->
     LET w == cTile[lineCnt * elemsCPerLine + e \div 2]
     IN IF e % 2 = 0 THEN w % HalfMod ELSE w \div HalfMod]

(* Mutant: the C tile starts right after A. *)
cOffsetAfterA == linesOperand

cOffset == 2 * linesOperand

req == [line |-> baseAddr + lineCnt + CASE state = "s_fetchA" -> 0
                                        [] state = "s_fetchB" -> linesOperand
                                        [] state = "s_store"  -> cOffset,
        data |-> IF state = "s_store" THEN storeData ELSE <<>>,
        isWrite |-> state = "s_store"]

Init ==
  /\ state = "s_idle" /\ baseAddr = 0 /\ lineCnt = 0
  /\ i = 0 /\ k = 0 /\ j = 0
  /\ aTile = [e \in TileIdx |-> 0] /\ bTile = [e \in TileIdx |-> 0]
  /\ cTile = [e \in TileIdx |-> 0]

TakeCmd(base) ==
  /\ cmdReady
  /\ baseAddr' = base /\ lineCnt' = 0 /\ state' = "s_fetchA"
  /\ UNCHANGED <<aTile, bTile, cTile, i, k, j>>

(* The slice of the tile follows resp.bits in every cycle of the fetch,    *)
(* valid or not; the response moves lineCnt on.                            *)
Slice(t, bits) ==
  [e \in TileIdx |-> IF e \div elemsPerLine = lineCnt
                     THEN bits[e % elemsPerLine] ELSE t[e]]

FetchA(fire, bits) ==
  /\ state = "s_fetchA"
  /\ aTile' = Slice(aTile, bits)
  /\ LET last == lineCnt = linesOperand - 1
     IN IF fire THEN /\ lineCnt' = IF last THEN 0 ELSE lineCnt + 1
                     /\ state' = IF last THEN "s_fetchB" ELSE state
                ELSE UNCHANGED <<lineCnt, state>>
  /\ UNCHANGED <<baseAddr, bTile, cTile, i, k, j>>

FetchB(fire, bits) ==
  /\ state = "s_fetchB"
  /\ bTile' = Slice(bTile, bits)
  /\ LET last == lineCnt = linesOperand - 1
     IN IF fire THEN /\ lineCnt' = IF last THEN 0 ELSE lineCnt + 1
                     /\ IF last THEN i' = 0 /\ k' = 0 /\ j' = 0 /\ state' = "s_calc"
                                ELSE UNCHANGED <<i, k, j, state>>
                ELSE UNCHANGED <<lineCnt, i, k, j, state>>
  /\ UNCHANGED <<baseAddr, aTile, cTile>>

elemIdx == i * tile + j

(* Mutant: B is read transposed. *)
accTransposed ==
  (cTile[elemIdx] + aTile[i * tile + k] * bTile[j * tile + k]) % WordMod

acc == (cTile[elemIdx] + aTile[i * tile + k] * bTile[k * tile + j]) % WordMod

(* Mutant: the row never advances. *)
CalcSameRow ==
  /\ state = "s_calc"
  /\ cTile' = [cTile EXCEPT ![elemIdx] = acc]
  /\ j' = (j + 1) % tile
  /\ k' = IF j = tile - 1 THEN (k + 1) % tile ELSE k
  /\ UNCHANGED <<i, state, lineCnt, baseAddr, aTile, bTile>>

(* One multiply-accumulate a cycle: j innermost, then k, then i. *)
Calc ==
  /\ state = "s_calc"
  /\ cTile' = [cTile EXCEPT ![elemIdx] = acc]
  /\ j' = (j + 1) % tile
  /\ k' = IF j = tile - 1 THEN (k + 1) % tile ELSE k
  /\ IF j = tile - 1 /\ k = tile - 1
     THEN IF i = tile - 1
          THEN lineCnt' = 0 /\ state' = "s_store" /\ UNCHANGED i
          ELSE i' = i + 1 /\ UNCHANGED <<lineCnt, state>>
     ELSE UNCHANGED <<i, lineCnt, state>>
  /\ UNCHANGED <<baseAddr, aTile, bTile>>

Store(fire) ==
  /\ state = "s_store"
  /\ IF fire THEN /\ lineCnt' = lineCnt + 1
                  /\ state' = IF lineCnt = linesC - 1 THEN "s_idle" ELSE state
             ELSE UNCHANGED <<lineCnt, state>>
  /\ UNCHANGED <<baseAddr, aTile, bTile, cTile, i, k, j>>
=============================================================================
