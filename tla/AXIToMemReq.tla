---------------------------- MODULE AXIToMemReq -----------------------------
(***************************************************************************)
(* bridge/AXIToMemReq.scala: the AXI4 slave that turns a single-beat       *)
(* transaction of one line into requests of the memory fabric.  A line is  *)
(* a function on byte offsets and WSTRB the set of the offsets it marks.   *)
(* BRESP, RRESP and RLAST are constant, and size is not read downstream:   *)
(* all are left out.                                                       *)
(***************************************************************************)
EXTENDS Integers

CONSTANTS
  LineBytes, ZeroLine,
  PowerUp         \* contents the registers without a reset value may have

VARIABLES state, addr, wdata, wmask, rdata, awid, arid

axiVars == <<state, addr, wdata, wmask, rdata, awid, arid>>

Offset  == 0 .. LineBytes - 1
allOnes == Offset

(* Mutant: the fetched bytes win over the incoming ones. *)
mergedWSwapped == [b \in Offset |-> IF b \in wmask THEN rdata[b] ELSE wdata[b]]

(* The masked lanes of WDATA over the line read before. *)
mergedW == [b \in Offset |-> IF b \in wmask THEN wdata[b] ELSE rdata[b]]

----------------------------------------------------------------------------
(* Outputs. *)
AWREADY(awvalid) == state = "s_idle" /\ awvalid
ARREADY(awvalid, arvalid) == state = "s_idle" /\ ~ awvalid /\ arvalid
WREADY == state = "s_wwait"
BVALID == state = "s_wrespo"
RVALID == state = "s_rvalid"
BID    == awid
RID    == arid
RDATA  == IF state = "s_rvalid" THEN rdata ELSE ZeroLine

memReqValid  == state \in {"s_wreq", "s_areq", "s_wrmw"}
memRespReady == state \in {"s_wwrsp", "s_aresp", "s_wldrsp"}
memReq ==
  [addr    |-> addr,
   data    |-> IF state # "s_wreq" THEN ZeroLine
               ELSE IF wmask = allOnes THEN wdata ELSE mergedW,
   isWrite |-> state = "s_wreq"]

(* Only the state has a reset value. *)
Init ==
  /\ state = "s_idle"
  /\ \E r \in PowerUp :
       /\ addr = r.addr /\ awid = r.id /\ arid = r.id
       /\ wdata = r.data /\ rdata = r.data /\ wmask = r.strb

TakeAW(aw) ==
  /\ state = "s_idle"
  /\ addr' = aw.addr /\ awid' = aw.id
  /\ state' = "s_wwait"
  /\ UNCHANGED <<wdata, wmask, rdata, arid>>

TakeAR(ar) ==
  /\ state = "s_idle"
  /\ addr' = ar.addr /\ arid' = ar.id
  /\ state' = "s_areq"
  /\ UNCHANGED <<wdata, wmask, rdata, awid>>

TakeW(w) ==
  /\ WREADY
  /\ wdata' = w.data /\ wmask' = w.strb
  /\ state' = IF w.strb = allOnes THEN "s_wreq" ELSE "s_wrmw"
  /\ UNCHANGED <<addr, rdata, awid, arid>>

ReqFire ==
  /\ memReqValid
  /\ state' = CASE state = "s_wreq" -> "s_wwrsp"
                [] state = "s_areq" -> "s_aresp"
                [] state = "s_wrmw" -> "s_wldrsp"
  /\ UNCHANGED <<addr, wdata, wmask, rdata, awid, arid>>

WriteResp ==
  /\ state = "s_wwrsp"
  /\ state' = "s_wrespo"
  /\ UNCHANGED <<addr, wdata, wmask, rdata, awid, arid>>

ReadResp(bits) ==
  /\ state \in {"s_aresp", "s_wldrsp"}
  /\ rdata' = bits
  /\ state' = IF state = "s_aresp" THEN "s_rvalid" ELSE "s_wreq"
  /\ UNCHANGED <<addr, wdata, wmask, awid, arid>>

BTaken == BVALID /\ state' = "s_idle"
          /\ UNCHANGED <<addr, wdata, wmask, rdata, awid, arid>>
RTaken == RVALID /\ state' = "s_idle"
          /\ UNCHANGED <<addr, wdata, wmask, rdata, awid, arid>>

(* One cycle: aw, w, ar and resp hold what is valid on those channels, if  *)
(* anything; an address write goes before an address read.                 *)
Cycle(aw, w, ar, bready, rready, reqReady, resp) ==
  \/ \E x \in aw : TakeAW(x)
  \/ aw = {} /\ \E x \in ar : TakeAR(x)
  \/ \E x \in w : TakeW(x)
  \/ reqReady /\ ReqFire
  \/ resp # {} /\ WriteResp
  \/ \E bits \in resp : ReadResp(bits)
  \/ bready /\ BTaken
  \/ rready /\ RTaken
  \/ /\ state = "s_idle" => aw = {} /\ ar = {}
     /\ WREADY => w = {}
     /\ memReqValid => ~ reqReady
     /\ memRespReady => resp = {}
     /\ BVALID => ~ bready
     /\ RVALID => ~ rready
     /\ UNCHANGED axiVars
=============================================================================
