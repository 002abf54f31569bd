---------------------------- MODULE CoreMemToHBM ----------------------------
(***************************************************************************)
(* cpu/CoreMemToHBM.scala: the adapter between the CPU's 32-bit word port  *)
(* and the 512-bit lines of the stack.  A byte is the set of its bits that *)
(* are 1, so that | is \cup and & ~ clears; a word is a function on        *)
(* 0 .. 3 and a line one on its byte offsets, least significant first.     *)
(***************************************************************************)
EXTENDS Integers

CONSTANT LineBytes

VARIABLES state, addrReg, dataReg, isWrReg, sizeReg, lineReg, offReg

adpVars == <<state, addrReg, dataReg, isWrReg, sizeReg, lineReg, offReg>>

Offset  == 0 .. LineBytes - 1
Lanes   == 0 .. 3
Zeros(S) == [i \in S |-> {}]

(* WordMemReq.size: 0 = word, 1 = half, 2 = byte. *)
bytesOf(size) == CASE size = 0 -> 4 [] size = 1 -> 2 [] OTHER -> 1

(* Load field extraction: the line shifted right and cut to the size. *)
field ==
  [i \in Lanes |-> IF i < bytesOf(sizeReg) /\ offReg + i \in Offset
                   THEN lineReg[offReg + i] ELSE {}]

(* Store merge: the mask has the access size, the data is the whole word. *)
merged ==
  [b \in Offset |->
     (IF b - offReg \in 0 .. bytesOf(sizeReg) - 1 THEN {} ELSE lineReg[b])
       \cup (IF b - offReg \in Lanes THEN dataReg[b - offReg] ELSE {})]

----------------------------------------------------------------------------
(* Outputs. *)
wordReqReady  == state = "s_idle"
wordRespValid == state = "s_rsp"
wordRespBits  == IF isWrReg THEN Zeros(Lanes) ELSE field

hbmReqValid  == state \in {"s_rdreq", "s_wrreq"}
hbmRespReady == state \in {"s_rdresp", "s_wrresp"}
hbmReq ==
  [addr    |-> addrReg - (addrReg % LineBytes),
   data    |-> IF state = "s_wrreq" THEN merged ELSE Zeros(Offset),
   isWrite |-> state = "s_wrreq"]

Init ==
  /\ state = "s_idle"
  /\ addrReg = 0 /\ offReg = 0 /\ sizeReg = 0 /\ isWrReg = FALSE
  /\ dataReg = Zeros(Lanes) /\ lineReg = Zeros(Offset)

TakeWord(req) ==
  /\ wordReqReady
  /\ addrReg' = req.addr
  /\ dataReg' = req.data
  /\ isWrReg' = req.isWrite
  /\ sizeReg' = req.size
  /\ offReg' = req.addr % LineBytes
  /\ state' = "s_rdreq"
  /\ UNCHANGED lineReg

ReqFire ==
  /\ hbmReqValid
  /\ state' = IF state = "s_rdreq" THEN "s_rdresp" ELSE "s_wrresp"
  /\ UNCHANGED <<addrReg, dataReg, isWrReg, sizeReg, lineReg, offReg>>

ReadResp(bits) ==
  /\ state = "s_rdresp"
  /\ lineReg' = bits
  /\ state' = IF isWrReg THEN "s_wrreq" ELSE "s_rsp"
  /\ UNCHANGED <<addrReg, dataReg, isWrReg, sizeReg, offReg>>

WriteResp ==
  /\ state = "s_wrresp"
  /\ state' = "s_rsp"
  /\ UNCHANGED <<addrReg, dataReg, isWrReg, sizeReg, lineReg, offReg>>

WordTaken ==
  /\ wordRespValid
  /\ state' = "s_idle"
  /\ UNCHANGED <<addrReg, dataReg, isWrReg, sizeReg, lineReg, offReg>>

(* One cycle: `word' and `resp' hold the request and the response offered  *)
(* to the adapter, if any; hbmReady and wordReady are the readys it sees.  *)
Cycle(word, hbmReady, resp, wordReady) ==
  \/ \E req \in word : TakeWord(req)
  \/ hbmReady /\ ReqFire
  \/ \E bits \in resp : ReadResp(bits)
  \/ resp # {} /\ WriteResp
  \/ wordReady /\ WordTaken
  \/ /\ wordReqReady => word = {}
     /\ hbmReqValid => ~ hbmReady
     /\ hbmRespReady => resp = {}
     /\ wordRespValid => ~ wordReady
     /\ UNCHANGED adpVars
=============================================================================
