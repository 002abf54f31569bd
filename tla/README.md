# Aegis SoC: TLA+ models and proofs

This directory holds TLA+ models of the Aegis SoC and of the parts of its Vortex GPGPU stack where
things happen concurrently, TLC configurations that check them on small instances, and TLAPS proofs
that hold for every value of the constants. Scala files below are relative to `src/main/scala/aegis`
of the repository, C++ files to `vortex`.

## 1. The system

### The SoC (Chisel)

One DRAM stack is shared by three requesters.

```
 RiscVICore -> CoreMemToHBM ------------------------------+
                                                          |  cpu
 external gpu port --+                                    v
                     +-> GPUL2Cache -> AXIToMemReq --> SplitPrioritizer -> HBM3Stack
 SimtCore -----------+                            gpu     ^
                                                          |  acc
 GemmToMem   (or VortexAccelerator: Vortex -> AXIToMemReq)+
```

| Part | Source | What it does |
|---|---|---|
| `HBM3Stack` | `memory/HBM3Stack.scala` | banked array, open-row table, activate / precharge / refresh timing; one request at a time |
| `SplitPrioritizer` | `memory/SplitPrioritizer.scala` | picks the port to serve by QoS mode, tags the request, routes the response |
| `RiscVICore` | `cpu/RiscVCore.scala` | multi-cycle RV32I core with one outstanding load or store |
| `CoreMemToHBM` | `cpu/CoreMemToHBM.scala` | word loads and stores as line accesses; a store is a read and a write |
| `AXIToMemReq` | `bridge/AXIToMemReq.scala` | single-beat AXI slave; a partial store is a read and a write |
| `GPUL2Cache` | `gpu/GPUL2Cache.scala` | round-robin over clusters, one AXI transaction at a time (it stores nothing) |
| `SimtCore` | `gpu/SimtCore.scala` | vector kernel Y = X + Z over lines |
| `GemmToMem` | `fixedfunc/GemmToMem.scala` | fetches two tiles, multiplies, stores the result |
| `VortexAccelerator` | `gpu/VortexBlackBox.scala` | a black-boxed AXI master behind an `AXIToMemReq` |
| `Top` | `Top.scala` | the wiring; straps the QoS mode |

The design is synchronous. Nothing is persisted and no message is lost: the hard parts are the order
in which ports are served, transactions of several cycles, stale registers, and counters that end a
state by an equality.

### The Vortex runtime and simulator (C++)

```
 application thread ─ enqueue ─> Queue (one worker thread each) ─> Device ─ ring, doorbell ─> command processor
        │ buffers                    events, dependencies             │ MemoryAllocator x 2        │ start / busy
        └───────────────────────────────────────────────────────────> │ argument slots, console    v
                                                                                        KMU -> CTA dispatchers
                                                                                     -> schedulers, barriers
                                                                                     -> cache banks -> memory
```

| Part | Source | What it does |
|---|---|---|
| queues, events | `sw/runtime/common/queue.cpp`, `event.cpp`, `buffer.cpp` | worker per queue, wait lists, reference counts |
| device | `sw/runtime/common/device.cpp` | appends command lines to a ring shared by all workers, batches, argument slots, console |
| allocator | `sw/common/mem_alloc.h` | device memory: pages, best-fit blocks, merging |
| command processor | `sim/common/cmd_processor.cpp` | fetches, decodes and executes ring lines; starts the GPU |
| KMU, dispatcher | `sim/simx/kmu/kmu.cpp`, `cta_dispatcher.cpp` | a grid becomes clusters, blocks, warps |
| scheduler, barriers | `sim/simx/scheduler.cpp`, `wctl_unit.cpp`, `barrier_unit.cpp` | warps, thread masks, divergence, local, global and asynchronous barriers |
| cache bank | `sim/simx/mem/cache.cpp` | non-blocking sectored cache with atomics and flush |

Here the hard parts are threads (workers, application, engine), calls that overlap, a lock that
covers less than its comment says, objects dropped while in use, and a pipeline in which requests
overtake one another.

## 2. How the code becomes TLA+

* **RTL.** A clock cycle is a step, a register a variable, a state of an FSM with one outcome an
  action. The inputs of a cycle are parameters of the actions. Combinational outputs are operators
  with the source's names.
* The memory spine is built with `EXTENDS` (`HBM3Stack`, then `SplitPrioritizer`, then what observes
  or uses it). Adapters and cores are modules with a `Cycle` operator, used by the lanes with
  `INSTANCE ... WITH`; a lane's step is a step of every component in the same cycle, joined by the
  wires.
* **C++.** A step is what a thread does between two points where another can interfere: a lock, a
  wait, a register access. The cache bank's tick is four steps, its four stages; the core and the
  memory act between ticks.
* **Data.** A 512-bit line is opaque in the spine, a function from byte offsets in the adapters, from
  lanes or halfwords in the engines. In `CoreMemToHBM` a byte is a set of bits, so that the code's `|`
  is a union and an unmasked merge shows. In `CacheBank` a byte is the id of the request that wrote it
  last. An instruction of the core is the record of its decoded fields, words have `4 * ByteBits` bits.
  A heap of `MemAlloc` is a value, and an operation of the allocator an operator on it.
* Registers without a reset value start with any contents (`HBM3Stack`), or any of a set `PowerUp`.
* History variables (`watched`, `age`, `asked`, `memPc`, `golden`, `before`, ...) live in the modules
  that state the properties; no action of a component reads them.

| Module | Models |
|---|---|
| `HBM3Stack` | the stack; address decode, row hits, timing, refresh |
| `RefreshTiming` | the stack with prompt responses, and the age of the last refresh |
| `RoundRobin` | the rotating-priority selection shared by the arbiter and the L2 |
| `SplitPrioritizer` | the arbiter on the stack |
| `ArbiterQoS` | the arbiter and one watched port |
| `LineMemory` | abstract: one memory of lines, one request at a time, answered to its issuer |
| `MemFabric` | the arbiter with what its ports see; refines `LineMemory` |
| `AtomicPort` | abstract: a port whose operations take effect at one instant |
| `Rv32i` | abstract: the RV32I instruction set, one instruction at a time |
| `RiscVICore`, `CoreMemToHBM`, `CpuLane` | the core, its adapter, and both on the arbiter; refines `Rv32i` |
| `AXIToMemReq`, `GPUL2Cache`, `AxiLane` | the AXI adapter, the L2, and the two lanes that use the adapter: behind the L2 on the gpu port, behind Vortex on the acc port; refines `AtomicPort` twice |
| `SimtCore`, `SimtKernel` | the vector core, and it with a host and a memory port |
| `GemmToMem`, `GemmJob` | the matrix engine, and it with a host and a memory port |
| `CacheBank`, `CacheOrder` | a bank with MSHR, fill-forward window, atomics, write-back and write-through, flush; and the order it promises |
| `MemAlloc` | the allocator |
| `CommandProcessor` | the ring's consumer, its engine and the GPU behind its hooks |
| `Device` | ring submission, batches, slots, console, the two heaps (uses `MemAlloc`) |
| `Queue` | application, queues, events, lifetimes, over `Device` and `CommandProcessor` |
| `Runtime` | what an application relies on |
| `CtaDispatch` | KMU and block dispatcher |
| `WarpScheduler` | scheduler, warp control, barriers (over `CtaDispatch`) |
| `WarpKernel` | what a kernel relies on |
| `MC*` | constants for TLC |
| `MemoryProofs` | theorems about the stack, and what the arbiter's selection and the address decode return |
| `ArbiterQoSProofs`, `MemFabricProofs`, `CpuLaneProofs`, `AxiLaneProofs`, `SimtKernelProofs`, `GemmJobProofs` | theorems about the module of that name (`ArbiterQoSProofs` also about `RefreshTiming`) |
| `ArithmeticLemmas` | division, modulus, least elements, iteration |

`SimtKernel` and `GemmJob` put a port that accepts, later performs and answers one access at a time
behind the engine. That is what `MemFabric` and `AxiLane` are proved to provide. No other requester writes the engine's arrays in these two modules.

The three Vortex models meet at narrow interfaces, and each one has the other side as an environment.
`CommandProcessor` sees a kernel as `busy` rising and falling, with a result that reaches memory only
at a cache flush. `WarpScheduler` executes memory instructions as steps without data. `CacheBank` is
given any requests of a small configuration.

## 3. What the runs check

| Run | Result | Properties |
|---|---|---|
| `spine` | holds | Service: `RoundRobinFair`, `WaitBound`: nobody who shares turns with a waiting port is served twice before it, and where a mode promises a turn it comes within `WaitLimit` cycles. `RefreshInterval`: requests without a pause delay a refresh by at most `tREF` transactions. Data: `ImplementsLineMemory`: at its ports the arbiter and the banked stack are one memory of lines. `ColumnNeedsOpenRow`: every column command finds its row open |
| `cpu_lane` | holds | `CoreImplementsIsa`: core, adapter and stack execute programs one RV32I instruction at a time. `FetchedLineCurrent`: the line a store merges into is the one in memory. `ProgramHalts` |
| `cpu_isa_jump` | violated | `CoreImplementsIsa` on a program with a backward `JAL` |
| `axi_lane` | holds | `AxiLaneAtomic`, `GpuLaneAtomic`: loads and stores through the AXI adapter take effect at one instant and are answered to the one who asked |
| `simt_kernel` | holds | `KernelResult`, `KernelFinishes`, for a start in any cycle |
| `gemm_job` | holds | `FirstProduct`: the first command after reset stores the product of its tiles, whatever the response lines show while the engine waits. `OnlyCTileWritten`, `JobFinishes`, for every command |
| `cache` | holds | `PerformedInOrder`, `ResponseCurrent`, `MemoryNeverRegresses`, `LrScAtomic`: the bank performs the accesses to a sector in admission order and no path loses or revives data. `FlushWritesBack`: a flush brings everything performed before its walk to memory, with misses and replays under way. `AssertsHold`, `Drains`: its assertions hold and every request is answered |
| `cache_flush` | violated | `FlushedMemory`: when a flush returns, memory holds every store performed by the bank |
| `runtime` | holds | Order: `HappensBefore`, `RetiredBeforeComplete`. Data: `LaunchSeesItsArgs`, `ReadsReturn`, `ConsoleOnce`. Lifetimes: `NoUseAfterFree`, `NoLeak`. Memory: `BuffersDisjoint`, `HeapExact`, `AllocationComplete`. Progress: `Terminates` |
| `runtime_launches` | violated | `LaunchSeesItsArgs` when two queues launch at once |
| `warps` | holds | `BarrierHolds`, `CopyArrived`: nobody leaves a barrier early. `EveryThreadRan`, `SlotPlacement`: every thread of the grid runs its kernel once, in a slot of its block. `AssertsHold`, `Completes` |
| `async_barrier` | violated | `BarrierHolds` for the third use of an asynchronous barrier |

### Where the code and its documentation disagree

Each of these four is a violated run and a finding of `PROJECT.json`.

* **Backward jumps** (`cpu/RiscVCore.scala:71`). `immJ` has 31 bits, so a negative offset is not
  sign-extended and bit 31 of `pc` is wrong after the jump. Fetches use the low bits only; links and
  `AUIPC` do not. The README says that the core implements the RV32I base integer subset.
* **Launches from two queues** (`sw/runtime/common/queue.cpp:386`). `enqueue_launch` writes the KMU
  registers and starts the kernel under a mutex that each queue has for itself. The header says the
  mutex serves "when multiple queues share one backend". The runs without this disagreement give each
  program one launching queue, or launches with a descriptor (`LAUNCH_QMD`), which are one command.
* **Asynchronous barriers** (`sim/simx/wctl_unit.cpp:123`). The phase given to a warp is cut to one bit
  and compared with the full counter (`barrier_unit.cpp:100`), so a wait falls through once the counter
  has passed 1. `vx_barrier.h:34-35` says it "Blocks until generation > phase".
* **Flush with a store miss outstanding** (`sim/simx/mem/cache.cpp:1573`). The walk over the lines waits
  until no fill is pending and the MSHR and `pipe_req_` are empty. A replay leaves the MSHR when it enters
  `pipe_req_`, and `empty()` of a channel does not see a packet before its latency is over
  (`simobject.h:315`). The walk can then end before the store is performed, and the flush returns with a
  dirty line. `processor.cpp:303-305` says that every dirty line has reached memory by then.
  `FlushWritesBack` is what the code does guarantee: the stores performed when the walk begins.

### Other behaviours worth knowing

Met while modelling the SoC. The models show them; no run is about them.

* **Round robin in the priority modes** (`SplitPrioritizer.scala:91`). Every grant moves `rr`, the
  CPU's included, which puts the GPU first again: the accelerator can be passed by the GPU without
  bound. The comment (24-25) promises the rest of the cycles in round-robin order. `RoundRobinFair`
  is therefore stated between ports that share turns in the mode.
* **Byte and halfword stores** (`CoreMemToHBM.scala:40`). The mask clears the bytes of the store and
  the shifted data carries all four bytes of the register, which are ored into the bytes that follow.
  Loads and stores of `MCCpuLane`'s programs use registers that fit the access.
* **CPU stores in fair mode** (`CoreMemToHBM.scala:69-77`). Another port may be served between the read
  and the write of a store, and its write to the line is lost. `cpu_lane` is about the priority modes,
  where nothing is granted in between; `LaneModes = {0}` gives the counterexample.
* **Partial AXI stores** (`AXIToMemReq.scala:129`). The same holds of the fetch and the merged write,
  in every mode. In `axi_lane` the other ports write lines Vortex does not store to in part.
* **Second GEMM command** (`GemmToMem.scala:86`). `cTile` is never cleared, so products add up over
  commands, while `README.md` of the repository (244-246) and the comment (10-12) say that a command
  stores the product. `FirstProduct` is therefore about the first command; a second one is in the run for
  the other properties. Lemma `RunningSum` of `GemmJobProofs` says what later commands store.
* **SIMT.** A start while busy is dropped, and the `done` that follows is the earlier launch's
  (`SimtCore.scala:53`). Zero lines mean 65536 (`:99`).
* **L2** (`GPUL2Cache.scala:45`). `isW_r` is never assigned, so a store's acknowledgement carries the
  data of the last load; nobody reads it. A cluster that does not take its response blocks the other.
* The comment on the stack's address decode counts 13 bits where its own list adds up to 14.

Met while modelling Vortex:

* **Cache.** A write-through store skips coalescing and may overtake older accesses to its sector
  (`cache.cpp:857`); `PerformedInOrder` exempts it. With one
  way and three or more pipeline stages two fills can evict each other's line while the second cannot
  proceed (`:1216`, `:1234`); the instance uses a latency of two.
* **Runtime.** `cp_in_batch_` is read without its lock (`device.cpp:398`). A batch longer than the ring
  overwrites lines that were not fetched (`:340`); the applications' batches fit the ring. The 32-bit sequence number is compared with a 64-bit
  target (`:442`). A DCR response is read after the lock is released (`:592`). `cout_rd_` has no lock
  (`:850-904`), so `ConsoleOnce` is about one launching queue. A command whose dependency failed
  never releases what it retained (`queue.cpp:93`), so `NoLeak` asks for the references only when no
  command failed. A kernel that starts and ends between two looks of the engine is waited for without
  end (`cmd_processor.cpp:377`): the model has such kernels, and `Terminates` names the state they end in
  (`NeverSeenBusy`) as the one exception. The legacy queue may wait for itself
  (`device.cpp:949`).
* **Allocator.** The first page of an empty pool is placed without a look at the capacity
  (`mem_alloc.h:439`), so a pinned buffer larger than its slab would reach into the other pool; the
  application of `runtime` asks for pinned buffers that fit. `reserve` does not check the lower bound
  (`:80`).
* **Warps.** A global barrier counts the warps active at that moment (`barrier_unit.cpp:61`), so it
  presumes a grid that is resident at once. The model lets warps come to one at any time and `early`
  records that a warp came while blocks were still being dispatched; the global half of `BarrierHolds`
  and `Completes` are about the behaviours where none did. On several cores the blocks of a cluster may
  go to different cores (`cta_dispatcher.cpp:98`), so the cluster half of `SlotPlacement` is about one
  core. The grid walk ends on an equality (`kmu/kmu.cpp:143`), which a grid that is not a multiple of
  its cluster steps over. `wspawn` resumes warp 0 whoever called it (`scheduler.cpp:197`).

### Bounds

* Stack: in `spine` two banks of two rows of two columns, so that row hits, conflicts, a neighbour in the
  row and an alias past the capacity all occur; in the lanes one bank. `MCSpine` looks at the arbiter in
  one of two ways, chosen at the start, as the product of both sets of observers is too large: for data
  with any requests on the three ports, or for service with one value and two rows of one bank. Small `tACT`, `tPRE` and `tREF` make refreshes
  frequent between transactions. The proofs cover every geometry and timing.
* Lines: two values where a line is opaque. In `CpuLane` five bytes of two bits, so that a word fits
  at two offsets and crosses the end at the others, and words of eight bits; in `AxiLane` two bytes, so
  that a strobe is partial or full. Four registers, and twelve programs: two with memory traffic
  among other ports' writes, five of arithmetic, five of branches and jumps, all written before start.
* `SimtKernel`: three lines of memory and every base, so that arrays are disjoint, coincide, overlap
  and wrap; counters modulo 4, so that a count of zero wraps.
* `GemmJob`: 2 x 2 tiles, operands 1 and 3 modulo 4 and accumulation modulo 16, so that it overflows;
  `MaxJobs = 2`. Bases 0, 1 and 5 of nine lines make the second job read what the first stored, and wrap.
* `CacheBank`: one set, one or two ways, two tags, two sectors, three or four requests, a pipeline of
  two, six configurations (write-back and write-through, last level or not, with atomics, with a flush).
  Two tags in one way force evictions; the third and fourth request make replay, forwarding and
  re-fetch meet.
* `Runtime`: a ring of four lines that wraps, two queues, six argument slots that run out, a console
  ring of eight, a memory of 20 units with a slab of 8, pages of 4, blocks of 2, sizes 1, 3 and 6,
  three free-standing buffers, seven applications. Which free address an argument slot gets is
  fixed per worker (`Near`), as addresses are interchangeable.
* `WarpKernel`: two cores, three warps of four threads, two barriers a slot, room for two slots, eight
  launches: partial warps, nested divergence, loops, barriers, copies, clusters, more blocks than slots.

### Fairness

| Specification | Assumed | Because |
|---|---|---|
| `CpuLane` | weak fairness of the cycle | the clock runs. That every access is answered is then a result: the CPU comes first in the modes of the run |
| `SimtKernel`, `GemmJob` | weak fairness of the compute step and of the port | the clock runs, and the fabric grants within `WaitLimit` cycles in fair mode (`ArbiterLatency`). In the priority modes it is an assumption on the gaps of the CPU's requests |
| `CacheOrder` | weak fairness of the tick, strong fairness of taking a response, taking a memory request and returning a finished read | the simulator ticks, and core and memory poll their ports every cycle. Strong, because a port may be full again in between |
| `Runtime` | weak fairness of the engine's tick, the GPU and the application's calls other than the free-standing buffer calls, strong fairness of each worker | threads are scheduled; a worker competes for `cp_mu_`, so its step is enabled again and again rather than for ever |
| `WarpKernel` | weak fairness of a core's tick, of executing an issued instruction and of ending a copy, strong fairness of issuing | the simulator ticks every core; one instruction is issued a cycle |

`ArbiterQoS` and `RefreshTiming` bound cycles instead, and assume that a response is taken in the cycle
it is offered, as `CoreMemToHBM`, `AXIToMemReq` and `GemmToMem` do. Deadlock is not checked in `cache`,
`cache_flush`, `runtime` and `warps`, which end: requests, commands and blocks are finite there.

## 4. What is proved

| Theorem | Module | Statement |
|---|---|---|
| `HBMTypeCorrect` | `MemoryProofs` | `HBMSpec => []HBMTypeOK` |
| `HBMCommandsLegal` | `MemoryProofs` | `HBMSpec => []BankCommandsLegal` |
| `HBMColumnNeedsOpenRow` | `MemoryProofs` | `HBMSpec => ColumnNeedsOpenRow` |
| `HBMResponseStable` | `MemoryProofs` | `HBMSpec => ResponseStable` |
| `RefreshIntervalHolds` | `ArbiterQoSProofs` | `TimingSpec => []RefreshInterval` |
| `ArbiterTypeCorrect` | `ArbiterQoSProofs` | `QoSSpec => []TypeOK` |
| `ArbiterRoundRobin` | `ArbiterQoSProofs` | `QoSSpec => []RoundRobinFair` |
| `ArbiterLatency` | `ArbiterQoSProofs` | `QoSSpec => []WaitBound` |
| `FabricImplementsLineMemory` | `MemFabricProofs` | `FabricSpec => ImplementsLineMemory` |
| `CpuFetchedLineCurrent` | `CpuLaneProofs` | `LaneSpec => [](cpu_priority => FetchedLineCurrent)` |
| `CpuStoreIsOneStep` | `CpuLaneProofs` | `LaneSpec => StoreIsOneStep` |
| `AxiTransactionsAtomic` | `AxiLaneProofs` | `LaneSpec => AxiLaneAtomic`, given `PartialStoresPrivate` |
| `GpuRequestsAtomic` | `AxiLaneProofs` | `LaneSpec => GpuLaneAtomic` |
| `SimtComputesKernel` | `SimtKernelProofs` | `KernelSpec => []KernelResult` |
| `GemmOnlyCTileWritten` | `GemmJobProofs` | `JobSpec => []OnlyCTileWritten` |
| `GemmFirstProduct` | `GemmJobProofs` | `JobSpec => []FirstProduct` |

Assumptions on the constants. The code's values satisfy all of them.

* `HBMAssumption`: a non-empty geometry, and times of at least one cycle that fit the 5-bit counter.
* `RefreshAssumption`, for the arbiter's latency: `tREF >= 3`, so that a refresh does not fall due twice
  within one round of the ports.
* `LaneAssumption`, `AxiLaneAssumption`: what the environment presents has its type. For the AXI lanes a
  line is a function from byte offsets, and merging two lines byte by byte gives a line.
* `KernelAssumption`: a launch names natural base lines and a count that fits the 16-bit register.
* `JobAssumption`: an even number of halfwords in a line, tiles that fill whole lines, as the code's
  `require` and widths give, and a memory that holds one work area.

`AxiTransactionsAtomic` has one hypothesis about the environment, `PartialStoresPrivate`: no other port
writes a line that Vortex stores to in part. It is needed, as section 3 says under "Partial AXI stores".

* **Stack.** `HBMTypeOK` is inductive because it bounds `cnt` per state; command legality is inductive
  together with it. A stalled response repeats its write and its page close without changing what it
  offers (`ResponseStable`).
* **Refresh.** The bound alone is not inductive. `TimingInv` adds a budget: the age, the cycles left
  of the transaction in service and a longest transaction per tick left of `refCnt` fit the bound.
  With closed pages it also needs `PagesClosed`, so that no precharge is counted.
* **Arbiter.** `QoSInv` adds that a port granted while the watched one waits stands behind it in the
  rotation (`BehindWatched`), and a budget of the same kind for the wait (`WaitBudget`).
  `MemoryProofs` proves what the selection returns, for any number of ports.
* **Fabric.** `FabricInv` says that a request is pending exactly while the stack works on it, and
  that the captured registers and the tag are that request. Each cycle then issues, performs or
  answers a request, or stutters. The decode lemmas of `MemoryProofs` (every line has one cell, and
  addresses alias modulo the capacity) make the array a memory of lines.
* **CPU lane.** That the fetched line is current is kept by nothing but the order of grants: `LaneInv`
  adds that the adapter waits exactly while the stack serves the CPU with the adapter's request
  (`Handshake`), and that nothing at all is in service between the read's response and the write's
  grant (`NothingBetween`), since the CPU asks in every cycle in between and comes first.
* **AXI lanes.** `LaneInv` has three parts: the same handshake between adapter and stack, with whatever
  another port is served for being one of its requests; the transaction asked for is the one in the
  adapter's registers (`AdapterInv`); the L2 and the adapter are in matching states and the cluster's
  request is in the registers of both (`L2Inv`). `FetchedCurrent` is the part that needs the hypothesis.
  Each cycle then maps to a step of `AtomicPort`, or a stutter, once for the AXI channels and
  once for the clusters.
* **SIMT.** `KernelInv` adds that the port holds the access waited for, that the registers are
  those of the launch being run, whatever start does, and that both operands are still the lines in
  memory (`OperandsInv`), so that the store completes one line of the reference computation.
* **GEMM.** `JobInv` adds that the lines fetched are those the command found (`TilesFetched`), that every
  word of `cTile` is its old value plus the terms accumulated so far, with the count that the
  three loop counters give for it (`PartialProducts`), and that the lines stored are those of `cTile`
  (`LinesStored`). `RunningSum` follows for every command; `FirstInv` adds that `cTile` was all zero when
  the first one was taken.

The last two are about recursive functions. tlapm has no induction over data here, so
`ArithmeticLemmas` derives what is needed from the well-foundedness of `<`: a non-empty set of naturals
has a least element (`LeastElement`), and any sequence of steps can be iterated (`IterationExists`).
With the second, a recursive function is shown to satisfy its own equation and can be unfolded.

Only model-checked: the refinement of `Rv32i` by the core (which does not hold of backward jumps, and
for the rest compares the whole instruction set bit by bit), everything about Vortex, and all liveness,
which is out of the prover's reach under fairness.

## 5. What is not modelled

The repository vendors the whole of Vortex. Most of its C++ is sequential: instruction decoding,
integer, floating-point and tensor arithmetic, texture and ray units, a JSON parser that is a quarter of
all lines, software floating point, drivers of vendor shells. These are functions of wide data, with no
state that several actors share and with a manual, not the repository, as their reference. TLC cannot
enumerate their inputs, and a model on two-bit words would be about another function. The models cover
the parts with concurrency and shared state instead, which are a small share of the lines.

* **SoC.** All lanes at once: each is composed with the real arbiter and stack while the other ports
  present arbitrary requests and take their responses. The core's variant with a data memory of its own,
  which only unit tests elaborate. Pins nobody reads: the PHY mirror, `pg_active`, AXI burst, lock
  and cache fields, UART. Verilog emission, benches, scripts, technology library.
* **Runtime and command processor.** DCR reads, rectangle and fill commands, the event-wait command,
  address translation (`vm.cpp` page tables), capability queries, wait timeouts, profiling, the legacy
  queue.
* **Cache.** The router in front of the banks (`cache.cpp` 1681-1868), a stream of independent banks;
  statistics; bank timing of the memory behind.
* **Warps.** WSPAWN, WSYNC, traps, events on global barriers, draining the load/store unit before a
  barrier, the graphics launch paths.
* **Vortex RTL.** To the SoC it is an AXI master (`AxiLane`).

## 6. Plan

1. Theorems about Vortex: the allocator (`BuffersDisjoint`, `HeapExact`), the order of commands
   (`RetiredBeforeComplete`) and the barriers (`BarrierHolds`).
2. `Soc`: all lanes on one arbiter, with the data abstracted to one value: which lanes can be starved
   or blocked, and by whom.

## 7. Running

```
tlc -config MCSpine.cfg MCSpine              # any MC module with its .cfg
tlapm MemFabricProofs.tla                    # any *Proofs module
```
