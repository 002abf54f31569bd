----------------------------- MODULE CacheOrder -----------------------------
(***************************************************************************)
(* What a cache bank promises, stated over the order in which it admits    *)
(* requests: accesses to one sector are performed one at a time, in that   *)
(* order, each on the bytes the ones before it left.  golden is the memory *)
(* those accesses describe; waiting, expect and held are the bookkeeping   *)
(* needed to compare it with what the bank answers.                        *)
(***************************************************************************)
EXTENDS CacheBank

VARIABLES golden,   \* [Addr -> sector]: every access performed so far, in order
          waiting,  \* [Addr -> admitted requests not yet performed, oldest first]
          expect,   \* [request id -> bytes it must return, or None]
          held,     \* [Harts -> line loaded by LR and not written by others since, or None]
          owed,     \* golden when the last flush walk began
          flushed   \* the last flush has finished

history == <<golden, waiting, expect, held, owed, flushed>>
allVars == <<vars, history>>

Writes(r) == r.op \in {"ST", "AMO", "SC"}

OrderInit ==
  /\ Init
  /\ golden = ram
  /\ waiting = [a \in Addr |-> <<>>]
  /\ expect = [i \in 1..MaxReqs |-> None]
  /\ held = [h \in Harts |-> None]
  /\ owed = ram /\ flushed = FALSE

\* a request is admitted when processInputs pops it from core_req_in
Admitted == IF core_req_in # <<>> /\ core_req_in' = <<>> THEN {Head(core_req_in)} ELSE {}
Taken == IF Len(core_rsp_out') < Len(core_rsp_out) THEN {core_rsp_out[1].id} ELSE {}

Record ==
  /\ golden' = [a \in Addr |-> [b \in Bytes |->
                  IF \E r \in done' : Writes(r) /\ r.addr = a /\ b \in r.byteen
                  THEN (CHOOSE r \in done' : TRUE).id ELSE golden[a][b]]]
  /\ waiting' = [a \in Addr |->
                   LET left == SelectSeq(waiting[a], LAMBDA w : \A r \in done' : r.id # w.id)
                   IN  left \o IF \E r \in Admitted : r.addr = a
                               THEN <<[id |-> Head(core_req_in).id, op |-> Head(core_req_in).op]>>
                               ELSE <<>>]
  /\ expect' = [i \in DOMAIN expect |->
                  IF \E r \in done' : r.id = i /\ r.op \in {"LD", "LR", "AMO"}
                  THEN golden[(CHOOSE r \in done' : TRUE).addr]
                  ELSE IF i \in Taken THEN None ELSE expect[i]]
  /\ held' = [h \in Harts |->
                IF \E r \in done' : r.hart = h /\ r.op = "LR"
                THEN LineOf((CHOOSE r \in done' : TRUE).addr)
                ELSE IF \E r \in done' : Writes(r) /\ r.hart # h /\ LineOf(r.addr) = held[h]
                THEN None ELSE held[h]]
  /\ owed' = IF flush_' = 0 THEN golden' ELSE owed
  /\ flushed' = IF flush_ >= 0 /\ flush_' = -1 THEN TRUE
                ELSE flushed /\ flush_' = -1

OrderNext == Next /\ Record

(***************************************************************************)
(* Fairness: the simulator ticks forever; the core polls its response port *)
(* and the memory its request port and its finished reads every cycle.     *)
(***************************************************************************)
Fairness == /\ WF_allVars(on_tick /\ Record)
            /\ SF_allVars(CoreTake /\ Record)
            /\ SF_allVars(MemTake /\ Record)
            /\ SF_allVars(MemReturn /\ Record)
OrderSpec == OrderInit /\ [][OrderNext]_allVars /\ Fairness

(***************************************************************************)
(* Properties.                                                             *)
(***************************************************************************)
\* r overtakes no older access to its sector, except that a load may overtake a load
InOrder(r) ==
  \A k \in DOMAIN waiting[r.addr] :
    LET w == waiting[r.addr][k] IN w.id < r.id => w.op = "LD" /\ r.op = "LD"

\* Accesses to one sector are performed in the order the bank admitted them (two loads may
\* swap: a load that finds the response port full leaves the window), whichever of
\* the hit, deferred, forwarded, replayed, re-fetched or pass-through paths each one takes
\* (adm_seq, admission-time coalescing, the fill-forward window: cache.cpp 844-900, 940-984).
\* Write-through stores are exempt: they skip the coalescing and may overtake older accesses.
PerformedInOrder ==
  [][\A r \in done' : is_wt_store(r) \/ InOrder(r)]_allVars

\* Memory never goes back to an older store: a byte that holds a request's data is only ever
\* overwritten by a request admitted later (writebacks, write-through stores, atomics and the
\* flush walk share the egress in order; ids grow in admission order).
MemoryNeverRegresses ==
  [][\A a \in Addr, b \in Bytes : ram'[a][b] >= ram[a][b]]_allVars

\* Every load and atomic answers with the bytes the accesses admitted before it left, through
\* fills, refills, evictions, writebacks and write-through merges.
ResponseCurrent ==
  \A i \in DOMAIN core_rsp_out :
    LET rsp == core_rsp_out[i]
    IN  \A b \in DOMAIN rsp.data : rsp.data[b] = expect[rsp.id][b]

\* A store-conditional succeeds only if no other hart's write to the line was performed since
\* the hart's load-reserved (AmoUnit::check, and invalidate on every committed write).
LrScAtomic ==
  [][\A r \in done' : r.op = "SC" => held[r.hart] = LineOf(r.addr)]_allVars

\* The conditions the bank asserts or aborts on never arise: an in-pipe core request always
\* has an MSHR slot kept for it, an in-pipe probe a pass-through slot, and a fill always finds
\* its root entry still waiting (cache.cpp 513, 520, 751, 1167, 1538).
AssertsHold ==
  /\ MshrCount + pending_mshr_size_ <= MshrSize
  /\ pending_amo_probes_ <= free_slots
  /\ \A i \in InPipe("Fill") :
       LET e == mshr_[pipe_req_[i].req.mshr_id]
       IN  e.type = "Core" /\ e.req.addr = pipe_req_[i].req.addr
  /\ \A m \in dram : IF m.tag < MshrSize THEN mshr_[m.tag].type = "Core"
                                         ELSE amo_passthru_[m.tag - MshrSize] # None

\* flush_caches has returned: the walk is over and no channel holds a packet
FlushReturned ==
  /\ flushed
  /\ core_req_in = <<>> /\ core_rsp_out = <<>> /\ mem_req_out = <<>> /\ mem_rsp_in = <<>>
  /\ pipe_req_ = <<>>

\* When flush_caches returns, memory holds every store that had been performed when the walk
\* over the lines began, or a younger one: fills, evictions and replays that go on beside a walk
\* stopped by a full egress lose no dirty byte and take none back (processFlush, cache.cpp 1570-1608).
FlushWritesBack ==
  FlushReturned => \A a \in Addr, b \in Bytes : ram[a][b] >= owed[a][b]

\* What the code says of the flush: "After flush_caches() returns every dirty line has reached
\* memsim_'s backing RAM" (processor.cpp 304-305), so memory holds every store performed.
FlushedMemory == FlushReturned => ram = golden

Busy == \/ core_req_in # <<>> \/ core_rsp_out # <<>> \/ pipe_req_ # <<>> \/ MshrCount > 0
        \/ free_slots < AmoCap \/ flush_ >= 0
\* No request is left behind: whatever is admitted is answered and the bank drains; the MSHR,
\* the pipe, the pass-through table and the two egress ports never wait for one another.
Drains == Busy ~> ~Busy
=============================================================================
