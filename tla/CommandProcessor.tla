-------------------------- MODULE CommandProcessor --------------------------
(***************************************************************************)
(* The functional command processor of the simulators                      *)
(* (src/vortex/sim/common/cmd_processor.cpp) and the GPU behind its hooks  *)
(* (src/vortex/sw/runtime/simx/vortex.cpp): one ring of command lines, an  *)
(* engine that walks one command at a time through Idle, Decode, Bid,      *)
(* WaitDone and Retire, a launch sub-machine that pulses the GPU's start   *)
(* and waits for its busy signal to rise and fall, and the walk of a draw  *)
(* bundle.                                                                 *)
(*                                                                         *)
(* The runtime puts one command in a line and zero padding behind it, so   *)
(* a line is a command here, and an engine that is idle with a line loaded *)
(* has consumed it.  A command is [op, a, b, by]: its opcode, arg0 and     *)
(* arg1, and (for the properties) the host command and launch it is of.    *)
(*                                                                         *)
(* The engine may tick whenever it is busy: in the simulator up to 256     *)
(* ticks run inside each register access of a runtime that polls until its *)
(* command retires, on the other backends it has a clock of its own.       *)
(***************************************************************************)
EXTENDS Integers, Sequences, FiniteSets

CONSTANTS RingLines,   \* lines the ring holds: CP_RING_SIZE / CL_BYTES
          Addrs,       \* addresses of device memory and of host staging
          None         \* no command, no data

VARIABLES ring,          \* [0..RingLines-1 -> command]
          head, tail,    \* q0_: lines consumed, lines committed
          seqnum,        \* q0_: commands retired
          eng_state_, launch_state_, cl_loaded_, cur_cmd_, draw_step_,
          dcrs,          \* the KMU's registers: [pc, arg]
          vortex,        \* the future of processor_.run(): "none", "running", "ready"
          mem,           \* [Addrs -> contents]
          cached,        \* [Addrs -> contents written by kernels and not flushed, or None]
          ran            \* the launch being started by this step: {} or {[by, pc, args]}

engine == <<eng_state_, launch_state_, cl_loaded_, cur_cmd_, draw_step_>>
cpVars == <<ring, head, tail, seqnum, engine, dcrs, vortex, mem, cached, ran>>

Cmd(op, a, b, by) == [op |-> op, a |-> a, b |-> b, by |-> by]

busy == head < tail \/ cl_loaded_ \/ eng_state_ # "Idle" \/ launch_state_ # "Idle"
vortex_busy == vortex = "running"

(***************************************************************************)
(* tick_launch, on the launch state s the engine leaves behind in the same *)
(* tick; d are the registers at that moment and by the launch they are for.*)
(***************************************************************************)
tick_launch(s, d, by) ==
  /\ launch_state_' = CASE s = "PulseStart" -> "WaitBusy"
                        [] s = "WaitBusy" /\ vortex_busy -> "WaitDrain"
                        [] s = "WaitDrain" /\ ~vortex_busy -> "Idle"
                        [] OTHER -> s
  /\ IF s = "PulseStart"
     THEN /\ vortex' = "running"
          /\ ran' = {[by |-> by, pc |-> d.pc, args |-> mem[d.arg]]}
     ELSE ran' = {} /\ UNCHANGED vortex

\* mutant: the replay starts one pair late
apply_qmd_Bug(qmd) == [dcrs EXCEPT !.arg = qmd.arg]
apply_qmd_(qmd) == [k \in DOMAIN dcrs |-> IF k \in DOMAIN qmd THEN qmd[k] ELSE dcrs[k]]
dcr_write(c) == [dcrs EXCEPT ![c.a] = c.b]

\* mutant: the flush invalidates the caches without writing them back
CacheFlushBug ==
  /\ cached' = [x \in Addrs |-> None]
  /\ UNCHANGED mem

\* OP_CACHE_FLUSH: flush_caches writes back everything the kernels left dirty
CacheFlush ==
  /\ mem' = [x \in Addrs |-> IF cached[x] = None THEN mem[x] ELSE cached[x]]
  /\ cached' = [x \in Addrs |-> None]

(***************************************************************************)
(* tick_engine: one action per engine state, each with its tick_launch.    *)
(***************************************************************************)
EngIdle ==
  /\ eng_state_ = "Idle"
  /\ \/ /\ ~cl_loaded_ /\ head < tail     \* fetch_if_needed, load_next_cmd; then Decode,
                                          \* which sends every opcode in use to Bid
        /\ cl_loaded_' = TRUE
        /\ cur_cmd_' = ring[head % RingLines]
        /\ ring' = [ring EXCEPT ![head % RingLines] = None]   \* copied, not read again
        /\ eng_state_' = "Bid"
        /\ UNCHANGED head
     \/ /\ cl_loaded_                               \* line consumed: drop it
        /\ cl_loaded_' = FALSE
        /\ head' = head + 1
        /\ cur_cmd_' = None
        /\ UNCHANGED <<ring, eng_state_>>
  /\ tick_launch(launch_state_, dcrs, None)
  /\ UNCHANGED <<seqnum, draw_step_, dcrs, mem, cached>>

BidLaunch ==
  /\ cur_cmd_.op \in {"LAUNCH", "LAUNCH_QMD"}
  /\ dcrs' = IF cur_cmd_.op = "LAUNCH_QMD" THEN apply_qmd_(mem[cur_cmd_.a]) ELSE dcrs
  /\ tick_launch("PulseStart", dcrs', cur_cmd_.by)
  /\ eng_state_' = "WaitDone"
  /\ UNCHANGED <<draw_step_, mem, cached>>

BidDraw ==
  /\ cur_cmd_.op = "DRAW"
  /\ draw_step_' = 1
  /\ eng_state_' = "DrawStep"
  /\ tick_launch(launch_state_, dcrs, None)
  /\ UNCHANGED <<dcrs, mem, cached>>

BidInline ==
  /\ \/ cur_cmd_.op = "DCR_WRITE" /\ dcrs' = dcr_write(cur_cmd_) /\ UNCHANGED <<mem, cached>>
     \/ cur_cmd_.op = "CACHE_FLUSH" /\ CacheFlush /\ UNCHANGED dcrs
     \/ /\ cur_cmd_.op = "MEM"           \* MEM_WRITE, MEM_READ, MEM_COPY
        /\ mem' = [mem EXCEPT ![cur_cmd_.a] = mem[cur_cmd_.b]]
        /\ UNCHANGED <<dcrs, cached>>
  /\ eng_state_' = "Retire"
  /\ tick_launch(launch_state_, dcrs, None)
  /\ UNCHANGED draw_step_

EngBid ==
  /\ eng_state_ = "Bid"
  /\ BidLaunch \/ BidDraw \/ BidInline
  /\ UNCHANGED <<head, seqnum, cl_loaded_, cur_cmd_>>

EngWaitDone ==
  /\ eng_state_ = "WaitDone"
  /\ eng_state_' = IF launch_state_ = "Idle" THEN "Retire" ELSE "WaitDone"
  /\ tick_launch(launch_state_, dcrs, None)
  /\ UNCHANGED <<head, seqnum, cl_loaded_, cur_cmd_, draw_step_, dcrs, mem, cached>>

\* exec_inline_cmd_ on the step draw_load_step_ reads from the descriptor
EngDrawStep ==
  LET steps == mem[cur_cmd_.a].steps
      c == steps[draw_step_]
  IN  /\ eng_state_ = "DrawStep"
      /\ \/ /\ draw_step_ > Len(steps)
            /\ eng_state_' = "Retire"
            /\ tick_launch(launch_state_, dcrs, None)
            /\ UNCHANGED <<draw_step_, dcrs, mem, cached>>
         \/ /\ draw_step_ <= Len(steps) /\ c.op = "LAUNCH_QMD"
            /\ dcrs' = apply_qmd_(mem[c.a])
            /\ eng_state_' = "DrawLaunchWait"
            /\ tick_launch("PulseStart", dcrs', c.by)
            /\ UNCHANGED <<draw_step_, mem, cached>>
         \/ /\ draw_step_ <= Len(steps) /\ c.op \in {"DCR_WRITE", "CACHE_FLUSH"}
            /\ IF c.op = "DCR_WRITE" THEN dcrs' = dcr_write(c) /\ UNCHANGED <<mem, cached>>
                                     ELSE CacheFlush /\ UNCHANGED dcrs
            /\ draw_step_' = draw_step_ + 1
            /\ tick_launch(launch_state_, dcrs, None)
            /\ UNCHANGED eng_state_
      /\ UNCHANGED <<head, seqnum, cl_loaded_, cur_cmd_>>

EngDrawLaunchWait ==
  /\ eng_state_ = "DrawLaunchWait"
  /\ IF launch_state_ = "Idle"
     THEN draw_step_' = draw_step_ + 1 /\ eng_state_' = "DrawStep"
     ELSE UNCHANGED <<draw_step_, eng_state_>>
  /\ tick_launch(launch_state_, dcrs, None)
  /\ UNCHANGED <<head, seqnum, cl_loaded_, cur_cmd_, dcrs, mem, cached>>

EngRetire ==
  /\ eng_state_ = "Retire" /\ eng_state_' = "Idle"
  /\ seqnum' = seqnum + 1
  /\ tick_launch(launch_state_, dcrs, None)
  /\ UNCHANGED <<head, cl_loaded_, cur_cmd_, draw_step_, dcrs, mem, cached>>

tick == \/ EngIdle /\ UNCHANGED tail
        \/ /\ EngBid \/ EngWaitDone \/ EngDrawStep \/ EngDrawLaunchWait \/ EngRetire
           /\ UNCHANGED <<ring, tail>>

(***************************************************************************)
(* The GPU, in a thread of its own (std::async).  External: a kernel writes *)
(* its result, named by its entry point and its arguments, to the buffer   *)
(* its arguments name, and a line to the console; both stay in the caches. *)
(***************************************************************************)
KernelResult(pc, args) == [result |-> pc, of |-> args.kernel]

VortexRun ==
  LET args == mem[dcrs.arg]
  IN  /\ vortex = "running" /\ vortex' = "ready"
      /\ cached' = [cached EXCEPT ![args.out] = KernelResult(dcrs.pc, args),
                                  !["cout_wr"] = [n |-> args.prints + IF @ = None THEN mem["cout_wr"].n ELSE @.n]]
      /\ ran' = {}
      /\ UNCHANGED <<ring, head, tail, seqnum, engine, dcrs, mem>>

CpInit ==
  /\ ring = [i \in 0..RingLines - 1 |-> None]
  /\ head = 0 /\ tail = 0 /\ seqnum = 0
  /\ eng_state_ = "Idle" /\ launch_state_ = "Idle"
  /\ cl_loaded_ = FALSE /\ cur_cmd_ = None /\ draw_step_ = 0
  /\ dcrs = [pc |-> None, arg |-> None]
  /\ vortex = "none"
  /\ mem = [x \in Addrs |-> IF x \in {"cout_wr", "cout_rd"} THEN [n |-> 0] ELSE None]
  /\ cached = [x \in Addrs |-> None]
  /\ ran = {}
=============================================================================
