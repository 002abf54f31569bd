----------------------------- MODULE GPUL2Cache -----------------------------
(***************************************************************************)
(* gpu/GPUL2Cache.scala: round-robin between the GPU clusters, then one    *)
(* AXI4 transaction (AW, W, B or AR, R) for the winner.  Burst length,     *)
(* size and kind are constants of the code and left out.                   *)
(***************************************************************************)
EXTENDS RoundRobin

CONSTANTS nClusters, ZeroLine, Strb

VARIABLES state, last, sel_r, addr_r, wdata_r, rdata_r

l2Vars == <<state, last, sel_r, addr_r, wdata_r, rdata_r>>

Cluster == 0 .. nClusters - 1

(* `valid' is the set of clusters with a request. *)
sel(valid) == fairSel(valid, last)

(* isW_r keeps its reset value: no statement assigns it. *)
isW_r == FALSE

----------------------------------------------------------------------------
(* Outputs; the data lines are the same for every cluster. *)
clusterReqReady(i, valid) == state = "s_idle" /\ i = sel(valid)
clusterRespValid(i) == state \in {"s_wack", "s_resp"} /\ i = sel_r
clusterRespBits     == IF isW_r THEN ZeroLine ELSE rdata_r

AW == IF state = "s_aw" THEN {[addr |-> addr_r, id |-> 0]} ELSE {}
W  == IF state = "s_wd" THEN {[data |-> wdata_r, strb |-> Strb]} ELSE {}
AR == IF state = "s_ar" THEN {[addr |-> addr_r, id |-> 0]} ELSE {}
BREADY == state = "s_bwait"
RREADY == state = "s_rc"

Init ==
  /\ state = "s_idle"
  /\ last = 0 /\ sel_r = 0 /\ addr_r = 0
  /\ wdata_r = ZeroLine /\ rdata_r = ZeroLine

(* Mutant: the routing tag follows the pointer before it moves. *)
CaptureStaleTag(valid, bits) ==
  LET s == sel(valid)
  IN  /\ state = "s_idle" /\ valid # {}
      /\ sel_r' = last /\ last' = s
      /\ addr_r' = bits[s].addr /\ wdata_r' = bits[s].data
      /\ state' = IF bits[s].isWrite THEN "s_aw" ELSE "s_ar"
      /\ UNCHANGED rdata_r

Capture(valid, bits) ==
  LET s == sel(valid)
  IN  /\ state = "s_idle" /\ valid # {}
      /\ sel_r' = s
      /\ addr_r' = bits[s].addr
      /\ wdata_r' = bits[s].data
      /\ last' = s
      /\ state' = IF bits[s].isWrite THEN "s_aw" ELSE "s_ar"
      /\ UNCHANGED rdata_r

(* A handshake that only moves the FSM. *)
Advance(from, to) ==
  /\ state = from /\ state' = to
  /\ UNCHANGED <<last, sel_r, addr_r, wdata_r, rdata_r>>

TakeR(data) ==
  /\ state = "s_rc"
  /\ rdata_r' = data
  /\ state' = "s_resp"
  /\ UNCHANGED <<last, sel_r, addr_r, wdata_r>>

(* One cycle: the clusters' requests, the readys and responses of the AXI  *)
(* slave, and the set of clusters that would take a response.              *)
Cycle(valid, bits, awready, wready, bvalid, arready, r, takers) ==
  \/ Capture(valid, bits)
  \/ awready /\ Advance("s_aw", "s_wd")
  \/ wready  /\ Advance("s_wd", "s_bwait")
  \/ bvalid  /\ Advance("s_bwait", "s_wack")
  \/ arready /\ Advance("s_ar", "s_rc")
  \/ \E data \in r : TakeR(data)
  \/ sel_r \in takers /\ (Advance("s_wack", "s_idle") \/ Advance("s_resp", "s_idle"))
  \/ /\ CASE state = "s_idle"  -> valid = {}
          [] state = "s_aw"    -> ~ awready
          [] state = "s_wd"    -> ~ wready
          [] state = "s_bwait" -> ~ bvalid
          [] state = "s_ar"    -> ~ arready
          [] state = "s_rc"    -> r = {}
          [] OTHER             -> sel_r \notin takers
     /\ UNCHANGED l2Vars
=============================================================================
