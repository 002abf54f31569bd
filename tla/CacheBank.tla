------------------------------ MODULE CacheBank ------------------------------
(***************************************************************************)
(* One bank of the simulator's cache (src/vortex/sim/simx/mem/cache.cpp,   *)
(* class CacheBank, with its MSHR and its AmoUnit): a sectored,            *)
(* set-associative, non-blocking cache, write-back or write-through, that  *)
(* either performs atomics itself (the last level) or probes its own copy  *)
(* and forwards them downstream.                                           *)
(*                                                                         *)
(* on_tick runs four stages in order, so a tick is four steps here: "pipe" *)
(* retires the head of the delay pipe, "fwd" drains the fill-forward       *)
(* window, "input" admits one request, "flush" walks dirty sectors and     *)
(* ends the tick.  The core and the memory act only between ticks.         *)
(*                                                                         *)
(* Data: a sector is a function from Bytes to the id of the request that   *)
(* wrote the byte last (0: never written), so two different contents are   *)
(* never confused.  Every atomic that writes is a swap of its bytes.       *)
(***************************************************************************)
EXTENDS Integers, Sequences, FiniteSets, FiniteSetsExt, SequencesExt

CONSTANTS Configs,    \* [write_back, is_llc, latency, ways] of Cache::Config, and
                      \* the [op, hart, byteen, strsp], the addresses and the
                      \* number of requests (reqs) of the core
          NumSets, Tags, NumSectors, Bytes, Harts,
          MshrSize,   \* config_.mshr_size
          AmoCap,     \* AMO_PASSTHRU_CAP
          MaxReqs,    \* bound: requests the core sends (config_.reqs of them)
          ChanCap,    \* capacity of pipe_req_ and of mem_req_out
          RspCap,     \* capacity of core_rsp_out and of mem_rsp_in
          None        \* no line, no request

Sets == 0..NumSets - 1
Sectors == 0..NumSectors - 1
Addr == [set : Sets, tag : Tags, sector : Sectors]
LineOf(a) == <<a.set, a.tag>>

VARIABLES config_,
          sets_,          \* [Sets -> [Ways -> line]]
          fifo_ptr,       \* [Sets -> next victim]
          mshr_,          \* [0..MshrSize-1 -> [type, req]]
          pipe_req_,      \* sequence of bank requests, each with its delay left
          fwd_,           \* the armed fill-forward sector, or None
          amo_unit_,      \* [Harts -> reserved line, or None]
          amo_passthru_,  \* [0..AmoCap-1 -> request, or None]
          flush_,         \* next sector of the flush walk, or -1: not flushing
          core_req_in, core_rsp_out, mem_req_out, mem_rsp_in,
          ram, dram,      \* external: memory contents, reads being served
          phase, crsp_sent_, fwd_consumed,
          adm_seq_ctr_,
          done            \* the accesses this step performs: {} or {request}

bank == <<sets_, fifo_ptr, mshr_, pipe_req_, fwd_, amo_unit_, amo_passthru_, flush_, adm_seq_ctr_>>
chans == <<core_req_in, core_rsp_out, mem_req_out, mem_rsp_in>>
memory == <<ram, dram>>
tick == <<phase, crsp_sent_, fwd_consumed>>
vars == <<config_, bank, chans, memory, tick, done>>

(***************************************************************************)
(* Requests and messages.                                                  *)
(***************************************************************************)
BankReq(type, req) == [type |-> type, req |-> req, due |-> config_.latency]
NoEntry == [type |-> None, req |-> None]
MemReq(op, a, tag, data, byteen) ==
  [op |-> op, addr |-> a, tag |-> tag, data |-> data, byteen |-> byteen]
Fill(a, id) == MemReq("LD", a, id, None, {})
Written(r) == [b \in Bytes |-> IF b \in r.byteen THEN r.id ELSE 0]
MemStore(r) == MemReq("ST", r.addr, 0, Written(r), r.byteen)
Rsp(r, data, ok) == [id |-> r.id, data |-> data, ok |-> ok]
memop_is_atomic(r) == r.op \in {"LR", "SC", "AMO"}
is_wt_store(r) == r.op = "ST" /\ ~config_.write_back
\* mutant: the replay sends the store again
written_throughBug(r) == FALSE
\* a write-through store whose memory write was sent when it missed
written_through(r) == is_wt_store(r) /\ r.skip_core_rsp
need_core_rsp(r) == r.op # "ST" \/ r.strsp
RspFull(ch) == Len(ch) >= RspCap

(***************************************************************************)
(* Tag array: set_t and sector_t.                                          *)
(***************************************************************************)
Ways == 0..config_.ways - 1
NoSector == [valid |-> FALSE, dirty |-> {}, data |-> [b \in Bytes |-> 0]]
any_valid(line) == \E s \in Sectors : line.sectors[s].valid
find_resident(a) ==
  {w \in Ways : any_valid(sets_[a.set][w]) /\ sets_[a.set][w].tag = a.tag}
HitWays(a) == {w \in find_resident(a) : sets_[a.set][w].sectors[a.sector].valid}
Hit(a) == HitWays(a) # {}
HitSector(a) == sets_[a.set][CHOOSE w \in HitWays(a) : TRUE].sectors[a.sector]
SetSector(a, w, sec) == [sets_ EXCEPT ![a.set][w].sectors[a.sector] = sec]
HitUpdate(a, sec) == SetSector(a, CHOOSE w \in HitWays(a) : TRUE, sec)

\* mutant: the dirty bookkeeping is forgotten
sector_mergeBug(sec, data, byteen) ==
  [sec EXCEPT !.data = [b \in Bytes |-> IF b \in byteen THEN data[b] ELSE @[b]]]

\* sector_merge, with the dirty bookkeeping every caller adds when write-back
sector_merge(sec, data, byteen) ==
  [sec EXCEPT !.data = [b \in Bytes |-> IF b \in byteen THEN data[b] ELSE @[b]],
              !.dirty = IF config_.write_back THEN @ \cup byteen ELSE @]

\* select_victim with the FIFO policy, the default of every cache: a free way first
select_victim(set) ==
  LET free == {w \in Ways : ~any_valid(sets_[set][w])}
  IN  IF free # {} THEN Min(free) ELSE fifo_ptr[set]

DirtySectorsBug(line) == {s \in Sectors : s > 0 /\ line.sectors[s].dirty # {}}  \* mutant
DirtySectors(line) == {s \in Sectors : line.sectors[s].dirty # {}}
\* one writeback beat per dirty sector of a line, in sector order
Writebacks(set, w) ==
  LET line == sets_[set][w]
      beat(s) == MemReq("ST", [set |-> set, tag |-> line.tag, sector |-> s], 0,
                        line.sectors[s].data, line.sectors[s].dirty)
      order == SetToSortSeq(DirtySectors(line), <)
  IN  [i \in DOMAIN order |-> beat(order[i])]

(***************************************************************************)
(* MSHR.                                                                   *)
(***************************************************************************)
Entries == 0..MshrSize - 1
MshrCount == Cardinality({i \in Entries : mshr_[i].type # None})
mshr_full == MshrCount = MshrSize
Matching(a, types) == {i \in Entries : mshr_[i].type \in types /\ mshr_[i].req.addr = a}
lookup(a) == Matching(a, {"Core", "Replay"}) # {}
\* mutant: an entry already replayed counts as one whose fill is to come
has_pending_fillBug(a) == lookup(a)
has_pending_fill(a) == Matching(a, {"Core"}) # {}
has_ready_reqs == \E i \in Entries : mshr_[i].type = "Replay"
FreeEntry == Min({i \in Entries : mshr_[i].type = None})
enqueue(type, r) == [mshr_ EXCEPT ![FreeEntry] = [type |-> type, req |-> r]]
\* mutant: a fill wakes the entries of every sector of its line
replayBug(a) ==
  [i \in Entries |-> IF mshr_[i].type = "Core" /\ LineOf(mshr_[i].req.addr) = LineOf(a)
                     THEN [mshr_[i] EXCEPT !.type = "Replay"] ELSE mshr_[i]]
replay(a) ==
  [i \in Entries |-> IF i \in Matching(a, {"Core"}) THEN [mshr_[i] EXCEPT !.type = "Replay"]
                                                    ELSE mshr_[i]]
\* mutant: by table index
peek_next_replayBug == Min({i \in Entries : mshr_[i].type = "Replay"})
\* the oldest ready replay, by admission stamp
peek_next_replay ==
  CHOOSE i \in Entries :
    /\ mshr_[i].type = "Replay"
    /\ \A j \in Entries : mshr_[j].type = "Replay" => mshr_[i].req.adm_seq <= mshr_[j].req.adm_seq

\* counters kept beside the pipe, all functions of what is in it
InPipe(type) == {i \in DOMAIN pipe_req_ : pipe_req_[i].type = type}
pending_mshr_size_ == Cardinality(InPipe("Core"))
pending_amo_probes_ == Cardinality(InPipe("AmoProbe"))
free_slots == Cardinality({p \in DOMAIN amo_passthru_ : amo_passthru_[p] = None})
pipe_core_lines_ == {LineOf(pipe_req_[i].req.addr) : i \in InPipe("Core")}
\* fills and forwarded atomics between their request and processInputs
pending_fill_reqs_ ==
  Cardinality({i \in DOMAIN mem_req_out : mem_req_out[i].op # "ST"})
    + Cardinality(dram) + Len(mem_rsp_in)

(***************************************************************************)
(* AmoUnit: one reservation per hart.                                      *)
(***************************************************************************)
invalidate(a, except) ==
  [h \in Harts |-> IF h # except /\ amo_unit_[h] = LineOf(a) THEN None ELSE amo_unit_[h]]
\* mutant: only atomics break reservations
CommittedWriteBug(r) == amo_unit_
CommittedWrite(r) == IF config_.is_llc THEN invalidate(r.addr, r.hart) ELSE amo_unit_

(***************************************************************************)
(* "pipe": processRequests on the head of pipe_req_.                       *)
(***************************************************************************)
Head_ == pipe_req_[1]
HeadReq == Head_.req
HeadIs(type) == pipe_req_ # <<>> /\ Head_.due = 0 /\ Head_.type = type
pop == pipe_req_' = Tail(pipe_req_)
Retire(rsps, reqs) ==       \* responses and memory requests sent, all room checked first
  /\ Len(core_rsp_out) + Len(rsps) <= RspCap
  /\ Len(mem_req_out) + Len(reqs) <= ChanCap
  /\ core_rsp_out' = core_rsp_out \o rsps
  /\ mem_req_out' = mem_req_out \o reqs
  /\ crsp_sent_' = (rsps # <<>>)
  /\ pop
RspIf(c, r, data) == IF c THEN <<Rsp(r, data, TRUE)>> ELSE <<>>

ExitAmoProbe ==
  LET r == HeadReq
      pid == Min({p \in DOMAIN amo_passthru_ : amo_passthru_[p] = None})
      wb == IF Hit(r.addr) /\ HitSector(r.addr).dirty # {}
            THEN <<MemReq("ST", r.addr, 0, HitSector(r.addr).data, HitSector(r.addr).dirty)>>
            ELSE <<>>
  IN  /\ HeadIs("AmoProbe")
      /\ free_slots > 0
      /\ Retire(<<>>, Append(wb, MemReq("AMO", r.addr, MshrSize + pid, Written(r), r.byteen)))
      /\ sets_' = IF Hit(r.addr) THEN HitUpdate(r.addr, NoSector) ELSE sets_
      /\ amo_passthru_' = [amo_passthru_ EXCEPT ![pid] = r]
      /\ done' = {r}
      /\ UNCHANGED <<fifo_ptr, mshr_, fwd_, amo_unit_>>

ExitFill ==
  /\ HeadIs("Fill")
  /\ LET a == HeadReq.addr
         install(line) == [tag |-> a.tag,
                           sectors |-> [line.sectors EXCEPT ![a.sector] =
                             [valid |-> TRUE, dirty |-> {}, data |-> HeadReq.data]]]
     IN  /\ \/ /\ find_resident(a) # {}
               /\ LET w == Min(find_resident(a))
                  IN  sets_' = [sets_ EXCEPT ![a.set][w] = install(@)]
               /\ Retire(<<>>, <<>>)
               /\ UNCHANGED fifo_ptr
            \/ /\ find_resident(a) = {}
               /\ Retire(<<>>, Writebacks(a.set, select_victim(a.set)))
               /\ sets_' = [sets_ EXCEPT ![a.set][select_victim(a.set)] =
                              install([sectors |-> [s \in Sectors |-> NoSector]])]
               /\ fifo_ptr' = [fifo_ptr EXCEPT ![a.set] = (@ + 1) % config_.ways]
         /\ mshr_' = replay(a)
         /\ fwd_' = a
  /\ done' = {}
  /\ UNCHANGED <<amo_unit_, amo_passthru_>>

\* commitAmo, for a request that hits at the last level
CommitAmo(r) ==
  LET sc_fail == r.op = "SC" /\ amo_unit_[r.hart] # LineOf(r.addr)
      do_store == r.op # "LR" /\ ~sc_fail
      old == [b \in r.byteen |-> HitSector(r.addr).data[b]]
  IN  /\ Retire(<<Rsp(r, IF r.op = "SC" THEN <<>> ELSE old, ~sc_fail)>>,
                IF do_store /\ ~config_.write_back THEN <<MemStore(r)>> ELSE <<>>)
      /\ sets_' = IF do_store
                  THEN HitUpdate(r.addr, sector_merge(HitSector(r.addr), Written(r), r.byteen))
                  ELSE sets_
      /\ amo_unit_' = LET broken == IF do_store THEN invalidate(r.addr, r.hart) ELSE amo_unit_
                      IN  [broken EXCEPT ![r.hart] =
                             IF r.op = "LR" THEN LineOf(r.addr)
                             ELSE IF r.op = "SC" /\ @ = LineOf(r.addr) THEN None ELSE @]
      /\ done' = IF sc_fail THEN {[r EXCEPT !.op = "SCfail"]} ELSE {r}
      /\ UNCHANGED <<fifo_ptr, mshr_, fwd_, amo_passthru_>>

\* a load or a store that hits, from the core or replayed
CommitHit(r) ==
  LET sec == HitSector(r.addr)
  IN  /\ ~memop_is_atomic(r)
      /\ need_core_rsp(r) => ~RspFull(core_rsp_out)
      /\ Retire(RspIf(need_core_rsp(r) /\ ~r.skip_core_rsp, r,
                      IF r.op = "LD" THEN sec.data ELSE <<>>),
                IF is_wt_store(r) /\ ~written_through(r) THEN <<MemStore(r)>> ELSE <<>>)
      /\ sets_' = IF r.op = "ST"
                  THEN HitUpdate(r.addr, sector_merge(sec, Written(r), r.byteen))
                  ELSE sets_
      /\ amo_unit_' = IF r.op = "ST" /\ ~written_through(r) THEN CommittedWrite(r) ELSE amo_unit_
      /\ done' = {r}
      /\ UNCHANGED <<fifo_ptr, mshr_, fwd_, amo_passthru_>>

\* a miss that needs the sector: track it, and fetch unless a fill is pending
TrackMiss(r) ==
  /\ ~mshr_full
  /\ Retire(<<>>, IF has_pending_fill(r.addr) THEN <<>> ELSE <<Fill(r.addr, FreeEntry)>>)
  /\ mshr_' = enqueue("Core", r)
  /\ done' = {}
  /\ UNCHANGED <<sets_, fifo_ptr, fwd_, amo_unit_, amo_passthru_>>

ExitReplay ==
  /\ HeadIs("Replay")
  /\ \/ Hit(HeadReq.addr) /\ memop_is_atomic(HeadReq) /\ CommitAmo(HeadReq)
     \/ Hit(HeadReq.addr) /\ CommitHit(HeadReq)
     \/ ~Hit(HeadReq.addr) /\ ~HeadReq.skip_core_rsp /\ TrackMiss(HeadReq)
     \/ /\ ~Hit(HeadReq.addr) /\ HeadReq.skip_core_rsp   \* stored downstream at miss time
        /\ Retire(<<>>, <<>>)
        /\ done' = {HeadReq}
        /\ UNCHANGED <<sets_, fifo_ptr, mshr_, fwd_, amo_unit_, amo_passthru_>>

\* a hit whose chain is still pending joins the replay stream
ExitCoreDefer ==
  LET r == HeadReq
  IN  /\ HeadIs("Core") /\ Hit(r.addr) /\ lookup(r.addr)
      /\ IF is_wt_store(r)
         THEN /\ Retire(RspIf(need_core_rsp(r), r, <<>>), <<MemStore(r)>>)
              /\ amo_unit_' = CommittedWrite(r)
              /\ mshr_' = enqueue("Replay", [r EXCEPT !.skip_core_rsp = TRUE])
         ELSE /\ Retire(<<>>, <<>>)
              /\ mshr_' = enqueue("Replay", r)
              /\ UNCHANGED amo_unit_
      /\ done' = {}
      /\ UNCHANGED <<sets_, fifo_ptr, fwd_, amo_passthru_>>

ExitCoreHit ==
  /\ HeadIs("Core") /\ Hit(HeadReq.addr) /\ ~lookup(HeadReq.addr)
  /\ \/ memop_is_atomic(HeadReq) /\ CommitAmo(HeadReq)
     \/ CommitHit(HeadReq)

ExitCoreMiss ==
  /\ HeadIs("Core") /\ ~Hit(HeadReq.addr) /\ ~is_wt_store(HeadReq)
  /\ TrackMiss(HeadReq)

\* write-through miss: the store goes downstream now; only its merge may wait
ExitCoreWriteMiss ==
  LET r == HeadReq
  IN  /\ HeadIs("Core") /\ ~Hit(r.addr) /\ is_wt_store(r)
      /\ ~(has_pending_fill(r.addr) /\ mshr_full)
      /\ Retire(RspIf(need_core_rsp(r), r, <<>>), <<MemStore(r)>>)
      /\ amo_unit_' = CommittedWrite(r)
      /\ IF has_pending_fill(r.addr)
         THEN mshr_' = enqueue("Core", [r EXCEPT !.skip_core_rsp = TRUE]) /\ done' = {}
         ELSE UNCHANGED mshr_ /\ done' = {r}
      /\ UNCHANGED <<sets_, fifo_ptr, fwd_, amo_passthru_>>

Exits == \/ ExitAmoProbe \/ ExitFill \/ ExitReplay \/ ExitCoreDefer
         \/ ExitCoreHit \/ ExitCoreMiss \/ ExitCoreWriteMiss

\* the next stage with work to do: a stage whose condition in on_tick fails is skipped
AfterPipe(fwd) == IF fwd = None THEN "input" ELSE "fwd"

processRequests ==
  /\ phase = "pipe"
  /\ Exits
  /\ phase' = AfterPipe(fwd_')
  /\ UNCHANGED <<config_, flush_, adm_seq_ctr_, core_req_in, mem_rsp_in, memory, fwd_consumed>>

\* on_tick is at stage s: arrived there, or the pipe has nothing visible or is stalled
AtStage(s) == phase = s \/ (phase = "pipe" /\ AfterPipe(fwd_) = s /\ ~ENABLED Exits)

(***************************************************************************)
(* "fwd": processForward, when a fill has armed the window.                *)
(***************************************************************************)
processForward ==
  LET head == mshr_[peek_next_replay].req
      serves == has_ready_reqs /\ head.addr = fwd_ /\ head.op = "LD" /\ Hit(head.addr)
      blocked == crsp_sent_ \/ RspFull(core_rsp_out)
  IN  /\ AtStage("fwd") /\ phase' = "input"
      /\ \/ /\ serves /\ blocked
            /\ fwd_consumed' = FALSE /\ done' = {}
            /\ UNCHANGED <<fwd_, mshr_, core_rsp_out>>
         \/ /\ ~serves
            /\ fwd_' = None /\ fwd_consumed' = FALSE /\ done' = {}
            /\ UNCHANGED <<mshr_, core_rsp_out>>
         \/ /\ serves /\ ~blocked
            /\ core_rsp_out' = Append(core_rsp_out, Rsp(head, HitSector(head.addr).data, TRUE))
            /\ mshr_' = [mshr_ EXCEPT ![peek_next_replay] = NoEntry]
            /\ fwd_consumed' = TRUE /\ done' = {head}
            /\ UNCHANGED fwd_
      /\ UNCHANGED <<config_, sets_, fifo_ptr, pipe_req_, amo_unit_, amo_passthru_, flush_, adm_seq_ctr_,
                     core_req_in, mem_req_out, mem_rsp_in, memory, crsp_sent_>>

(***************************************************************************)
(* "input": processInputs, at most one input per tick.                     *)
(***************************************************************************)
\* the end of a tick: every packet in the delay pipe is one cycle closer to its exit
Age(pipe) == [i \in DOMAIN pipe |-> [pipe[i] EXCEPT !.due = IF @ > 0 THEN @ - 1 ELSE 0]]
\* the tick ends here unless the flush stage follows
Settle(pipe) == IF flush_ >= 0 THEN pipe ELSE Age(pipe)
push(type, r) == pipe_req_' = Settle(Append(pipe_req_, BankReq(type, r)))
no_push == pipe_req_' = Settle(pipe_req_)

InReplay ==
  /\ push("Replay", mshr_[peek_next_replay].req)
  /\ mshr_' = [mshr_ EXCEPT ![peek_next_replay] = NoEntry]
  /\ UNCHANGED <<amo_passthru_, adm_seq_ctr_, chans>>

InFill ==
  LET rsp == Head(mem_rsp_in)
  IN  /\ rsp.tag < MshrSize
      /\ push("Fill", [addr |-> mshr_[rsp.tag].req.addr, mshr_id |-> rsp.tag,
                        data |-> rsp.data])
      /\ mem_rsp_in' = Tail(mem_rsp_in)
      /\ UNCHANGED <<mshr_, amo_passthru_, adm_seq_ctr_, core_req_in, core_rsp_out, mem_req_out>>

InAmoRsp ==
  LET rsp == Head(mem_rsp_in)
      pid == rsp.tag - MshrSize
  IN  /\ rsp.tag >= MshrSize
      /\ ~RspFull(core_rsp_out)
      /\ core_rsp_out' = Append(core_rsp_out, Rsp(amo_passthru_[pid], rsp.data, TRUE))
      /\ amo_passthru_' = [amo_passthru_ EXCEPT ![pid] = None]
      /\ mem_rsp_in' = Tail(mem_rsp_in)
      /\ no_push
      /\ UNCHANGED <<mshr_, adm_seq_ctr_, core_req_in, mem_req_out>>

InCore ==
  LET r == [Head(core_req_in) EXCEPT !.adm_seq = adm_seq_ctr_]
      passthru == memop_is_atomic(r) /\ ~config_.is_llc
      joins == ~passthru /\ ~is_wt_store(r) /\ lookup(r.addr)
  IN  /\ core_req_in # <<>>
      /\ IF passthru
         THEN /\ free_slots > pending_amo_probes_
              /\ ~lookup(r.addr)
              /\ LineOf(r.addr) \notin pipe_core_lines_
         ELSE MshrCount + pending_mshr_size_ < MshrSize
      /\ IF joins
         THEN /\ mshr_' = enqueue(IF has_pending_fill(r.addr) THEN "Core" ELSE "Replay", r)
              /\ no_push
         ELSE /\ push(IF passthru THEN "AmoProbe" ELSE "Core", r)
              /\ UNCHANGED mshr_
      /\ adm_seq_ctr_' = adm_seq_ctr_ + 1
      /\ core_req_in' = Tail(core_req_in)
      /\ UNCHANGED <<amo_passthru_, core_rsp_out, mem_req_out, mem_rsp_in>>

Inputs ==
  LET replays == has_ready_reqs /\ ~fwd_consumed
      fills == mem_rsp_in # <<>> /\ fwd_ = None
  IN  /\ Len(pipe_req_) < ChanCap
      /\ \/ replays /\ InReplay
         \/ ~replays /\ fills /\ (InFill \/ InAmoRsp)
         \/ ~replays /\ ~fills /\ InCore

processInputs ==
  /\ AtStage("input")
  /\ \/ Inputs
     \/ ~ENABLED Inputs /\ no_push /\ UNCHANGED <<mshr_, amo_passthru_, adm_seq_ctr_, chans>>
  /\ phase' = IF flush_ >= 0 THEN "flush" ELSE "pipe"
  /\ done' = {}
  /\ fwd_consumed' = FALSE
  /\ crsp_sent_' = FALSE
  /\ UNCHANGED <<config_, sets_, fifo_ptr, fwd_, amo_unit_, flush_, memory>>

(***************************************************************************)
(* "flush": processFlush, then the end of the tick.  Sectors are walked in *)
(* order; the walk stops at a dirty one the egress cannot take.            *)
(***************************************************************************)
Walk == [i \in 0..NumSets * config_.ways * NumSectors - 1 |->
           [set |-> i \div (config_.ways * NumSectors), way |-> (i \div NumSectors) % config_.ways,
            sector |-> i % NumSectors]]
At(i) == sets_[Walk[i].set][Walk[i].way]
FlushBeat(i) == LET sec == At(i).sectors[Walk[i].sector]
                IN  MemReq("ST", [set |-> Walk[i].set, tag |-> At(i).tag,
                                  sector |-> Walk[i].sector], 0, sec.data, sec.dirty)
visible_pipe_empty == \A i \in DOMAIN pipe_req_ : pipe_req_[i].due > 0

FlushWalk ==
  LET dirty == {i \in DOMAIN Walk : i >= flush_ /\ At(i).sectors[Walk[i].sector].dirty # {}}
      order == SetToSortSeq(dirty, <)
      n == Min({Len(order), ChanCap - Len(mem_req_out)})
      beats == {order[k] : k \in 1..n}
  IN  /\ flush_ >= 0
      /\ pending_fill_reqs_ = 0 /\ visible_pipe_empty /\ MshrCount = 0
      /\ mem_req_out' = mem_req_out \o [k \in 1..n |-> FlushBeat(order[k])]
      /\ sets_' = [st \in Sets |-> [w \in Ways |-> [sets_[st][w] EXCEPT !.sectors =
                     [s \in Sectors |-> IF \E i \in beats : Walk[i] = [set |-> st, way |-> w, sector |-> s]
                                        THEN [@[s] EXCEPT !.dirty = {}] ELSE @[s]]]]]
      /\ flush_' = IF n = Len(order) THEN -1 ELSE order[n + 1]

processFlush ==
  /\ phase = "flush" /\ phase' = "pipe"
  /\ \/ FlushWalk
     \/ ~ENABLED FlushWalk /\ UNCHANGED <<sets_, mem_req_out, flush_>>
  /\ pipe_req_' = Age(pipe_req_)
  /\ UNCHANGED <<config_, fifo_ptr, mshr_, fwd_, amo_unit_, amo_passthru_, adm_seq_ctr_, core_req_in,
                 core_rsp_out, mem_rsp_in, memory, crsp_sent_, fwd_consumed, done>>

(***************************************************************************)
(* The core and the memory, between ticks.  External: the memory applies   *)
(* each request when it takes it, in order, and returns reads in any order *)
(* (simx/mem/memory.cpp); a forwarded atomic is performed there, by the    *)
(* last-level cache.  A core keeps one LR or SC outstanding per hart.      *)
(***************************************************************************)
CoreSend(k, a) ==
  /\ phase = "pipe" /\ flush_ = -1
  /\ core_req_in = <<>> /\ adm_seq_ctr_ < config_.reqs
  /\ core_req_in' = <<[id |-> adm_seq_ctr_ + 1, op |-> k.op, addr |-> a, hart |-> k.hart,
                       byteen |-> k.byteen, strsp |-> k.strsp,
                       adm_seq |-> 0, skip_core_rsp |-> FALSE]>>
  /\ done' = {}
  /\ UNCHANGED <<config_, bank, core_rsp_out, mem_req_out, mem_rsp_in, memory, tick>>

CoreTake ==
  /\ phase = "pipe" /\ core_rsp_out # <<>>
  /\ core_rsp_out' = Tail(core_rsp_out)
  /\ done' = {}
  /\ UNCHANGED <<config_, bank, core_req_in, mem_req_out, mem_rsp_in, memory, tick>>

MemTake ==
  LET m == Head(mem_req_out)
      old == ram[m.addr]
  IN  /\ phase = "pipe" /\ mem_req_out # <<>>
      /\ mem_req_out' = Tail(mem_req_out)
      /\ ram' = [ram EXCEPT ![m.addr] = [b \in Bytes |-> IF b \in m.byteen THEN m.data[b] ELSE @[b]]]
      /\ dram' = IF m.op = "ST" THEN dram
                 ELSE dram \cup {[tag |-> m.tag, data |-> IF m.op = "LD" THEN old
                                                         ELSE [b \in m.byteen |-> old[b]]]}
      /\ done' = {}
      /\ UNCHANGED <<config_, bank, core_req_in, core_rsp_out, mem_rsp_in, tick>>

MemReturn ==
  /\ phase = "pipe" /\ ~RspFull(mem_rsp_in)
  /\ \E m \in dram : mem_rsp_in' = Append(mem_rsp_in, m) /\ dram' = dram \ {m}
  /\ done' = {}
  /\ UNCHANGED <<config_, bank, core_req_in, core_rsp_out, mem_req_out, ram, tick>>

\* ProcessorImpl::flush_caches, which the host calls after run() has returned:
\* the cores are idle and no channel holds a packet; fills of stores that need
\* no response may still be in DRAM
flush_begin ==
  /\ phase = "pipe" /\ flush_ = -1
  /\ config_.write_back
  /\ core_req_in = <<>> /\ core_rsp_out = <<>> /\ mem_req_out = <<>> /\ mem_rsp_in = <<>>
  /\ pipe_req_ = <<>>
  /\ \A i \in Entries : mshr_[i].type # None => ~need_core_rsp(mshr_[i].req)
  /\ adm_seq_ctr_ = config_.reqs
  /\ flush_' = 0
  /\ done' = {}
  /\ UNCHANGED <<config_, sets_, fifo_ptr, mshr_, pipe_req_, fwd_, amo_unit_, amo_passthru_, adm_seq_ctr_,
                 chans, memory, tick>>

Init ==
  /\ config_ \in Configs
  /\ sets_ = [st \in Sets |-> [w \in Ways |-> [tag |-> None, sectors |-> [s \in Sectors |-> NoSector]]]]
  /\ fifo_ptr = [st \in Sets |-> 0]
  /\ mshr_ = [i \in Entries |-> NoEntry]
  /\ pipe_req_ = <<>> /\ fwd_ = None
  /\ amo_unit_ = [h \in Harts |-> None]
  /\ amo_passthru_ = [p \in 0..AmoCap - 1 |-> None]
  /\ flush_ = -1 /\ adm_seq_ctr_ = 0
  /\ core_req_in = <<>> /\ core_rsp_out = <<>> /\ mem_req_out = <<>> /\ mem_rsp_in = <<>>
  /\ ram = [a \in Addr |-> [b \in Bytes |-> 0]] /\ dram = {}
  /\ phase = "pipe" /\ crsp_sent_ = FALSE /\ fwd_consumed = FALSE
  /\ done = {}

on_tick == processRequests \/ processForward \/ processInputs \/ processFlush
Next == \/ on_tick \/ CoreTake \/ MemTake \/ MemReturn \/ flush_begin
        \/ \E k \in config_.ops, a \in config_.addrs : CoreSend(k, a)
==============================================================================
