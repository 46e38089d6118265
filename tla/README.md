# A TLA+ model of PyTorchSim

PyTorchSim runs PyTorch models on a simulated NPU. The compiler frontend turns
a model into kernels, each with a *tile operation graph* (TOG). A client launches
kernels on streams of a device; their commands reach **TOGSim**, the C++ simulator
under `src/TOGSim`, which executes the graphs cycle by cycle on cores, an
interconnect, caches and memory. These modules follow a kernel the whole way:
from the stream it is launched on, through the parser, to the memory requests of
its tiles and back.

1. [The system](#1-the-system)
2. [Plan](#2-plan)
3. [The modules](#3-the-modules)
4. [The runs](#4-the-runs)
5. [Fairness](#5-fairness)
6. [The proofs](#6-the-proofs)
7. [Divergences found](#7-divergences-found)
8. [What is not modelled](#8-what-is-not-modelled)

To check a module, for instance: `tlc -config KernelScheduler.cfg MCKernelScheduler`;
to prove one: `tlapm KernelSchedulerProofs.tla`.

## 1. The system

### Components

| Component | Source | State | Operations |
|---|---|---|---|
| Streams of the Python package | `torch_openreg/csrc/Module.cpp`, `openreg/__init__.py`, `openreg/csrc/stream.cpp` | task queue and worker per stream, the device each stream is registered for, events | `launch_kernel`, `synchronize`, `_addTaskToStream`, `orEventRecord`, `orDeviceSynchronize` |
| Stream pool and events of the C++ API | `csrc/runtime/OpenRegStream.cpp`, `OpenRegEvent.h` | pools, counters, current streams and devices, event flags | `getStreamFromPool`, `record`, `block`, `synchronize` |
| Driver | `Simulator/simulator.py` | the simulator process, its FIFO, its output | `send_launch`, `device_synchronize`, `until`, `run_standalone` |
| Command loop | `TOGSim/src/main.cc` | the command file, the simulator | `launchKernel`, synchronisation, shutdown |
| TOG generator | `AsmParser/tog_generator.py` | node stack of one file | raw graph to tile graph |
| TOG parser | `TileGraphParser.cc`, `IntervalTree.h` | nodes, loop indices, tags during one parse | builds subgraphs, tiles, instructions, the cache plan |
| Simulation loop | `TOGSim/src/Simulator.cc` | clocks of three domains, cycle counters, slot number | `cycle`, `core_cycle`, `dram_cycle`, `icnt_cycle`, `set_cycle_mask`, `running` |
| Kernel scheduler | `scheduler/Scheduler.cc`, `TileGraph.cc`, `Tile.cc` | queue of kernels per partition, slots with a subgraph each, ready and unready tiles, ready counters | `schedule_graph`, `peek_tile`, `get_tile`, `finish_tile`, `refresh_status`, `allocate_subgraph` |
| NPU core | `Core.cc`, `Instruction.cc` | resident tiles, compute pipelines, queues of transfers waiting and finished | `issue`, `cycle` and its parts, `push_memory_response`, `pop_finished_tile` |
| DMA engine | `DMA.cc`, `DMA.h` | current transfer, pending accesses, tag table and waiters | `issue_tile`, `get_memory_access`, `register_tag`, `set_tag_finish`, `register_tag_waiter` |
| STONNE sparse core | `SparseCore.cc` | subcores and their tiles, merge table, shared pipeline | `issue`, `subCoreCycle`, `cycle`, `registerMemfetch` |
| Interconnect | `Interconnect.cc` | a queue per pair of nodes, output queues, arbiters | `push`, `pop`, `cycle` |
| L2 | `L2Cache.cc`, `Cache.cc` | tags and sector states, MSHRs, miss queue, ports | `cycle`, `push`, `access`, `fill` |
| Memory | `Dram.cc`, `DelayQueue.cc`, `Hashing.cc` | delay queue and byte credit of each channel | `push`, `cycle`, `get_channel_id` |
| LegoSim links and simlets | `DramLegoSimLink.cc`, `SsdLegoSimLink.cc`, `TOGSim/legosim` | one question under way, the simlet's time | ask for a latency, terminate |
| SSD trace, weight ranges | `SsdTrace.cc`, `WeightAddressRanges.cc` | recorded latencies, open trace, sorted ranges, counter files | replay, write a row, look an address up |
| Frontend | `PyTorchSimFrontend` | none between calls | code generation |

### How they interact

A client calls `launch_kernel` and `synchronize`; each becomes a task of a
stream, and the stream's worker thread writes a command into a FIFO. `main.cc`
reads the commands: a launch parses a graph and hands it to the scheduler of a
partition; a synchronisation, and the end of the file, call `Simulator::cycle`,
which loops until nothing is running. The driver's `until` synchronises, closes
the FIFO, and reads the output of the simulator until it exits. In a standalone
run the commands are in a file and the coordinator of LegoSim starts simulator
and simlets.

One iteration of the loop asks `set_cycle_mask` which clock domains are due and
cycles those. A core cycle first offers tiles: for every slot and core,
`peek_tile` and, if the core takes it, `get_tile`. Then each core returns at most
one finished tile, which makes its children ready, and runs its own cycle: finish
computations, move the DMA engine, issue instructions. The DMA engine cuts a
transfer into requests, or asks a simlet for its latency. An interconnect cycle
takes requests from the cores, gives responses back to them, moves packets to and
from the memory side and arbitrates. Requests pass the L2 (a cache, or just a
port) into DRAM and come back the same way. There are no threads inside TOGSim:
everything shares state through queues and callbacks, and the order in which
domains and components run decides.

### What is hard

* **Interleavings of clock domains.** Cores, memory and interconnect run at
  unrelated frequencies, so a response can overtake the bookkeeping of its own
  request (`Core.cc:429`).
* **Completion protocols.** Asynchronous loads, barriers on tags, loads skipped
  because another tile fetches the same data, and transfers timed by another
  process all finish instructions on different paths.
* **Dependencies.** Tiles and instructions count unfinished parents; a count too
  many exits the simulator, a count too few loses a tile. The parser makes the
  counts from loop nests, and leaves loads out that it believes redundant.
* **Back pressure.** Finite miss queues, MSHRs, ports and byte credit make
  operations fail half-way and be retried.
* **Termination.** Nobody waits on a condition: the loop stops when all
  components say they are idle, and goes on for ever if one never does.
* **Threads and processes.** Client, workers, driver, simulator, simlets and
  coordinator wait for each other over queues, events and pipes of finite size;
  some of them may refuse to start, die, or be killed at a time limit.

### What makes each component correct

* Streams: tasks run in order; what waits for an event or a device waits for the
  work before it; every queue and every waiting thread comes to its end.
* Driver and command loop: no launched kernel is lost between the queues, also
  when a command fails; every session ends and leaves no process behind.
* Parser: every operation of the nest becomes one instruction per iteration, in
  an order the nest allows, with counters that were raised once per link.
* Scheduler: a tile is executed once, after its parents, by a core that may run
  it; kernels of a partition do not overtake; a synchronisation ends, and ends
  only when everything is executed.
* Core and DMA: instructions execute in an order their graph allows; data are
  there before they are used; no completion is lost or counted twice; a core that
  says it is idle has nothing under way; every tile retires.
* Sparse core: the same across subcores that share queues.
* Clocks: domains neither drift apart nor change their frequency ratio.
* Interconnect and memory path: every request comes back once, to the core that
  sent it; no source starves.
* DRAM: a channel gives the bandwidth it was configured with, no more and no
  less, and answers in order after its latency; addresses spread over channels.
* L2: one reply per request, exactly one fetch behind a waiting MSHR, a refused
  access leaves no trace, every request is answered, a reserved line holds the
  data of its block.
* LegoSim: an access goes to the right device and is busy for its latency.

`PROJECT.json` lists the individual hazards at their lines.

## 2. Plan

Most important behaviour first:

1. `KernelScheduler`: what runs, when and where; synchronisation. *Done*,
   with `KernelSchedulerProofs`.
2. `NpuCore` against the abstract `DagExecution`. *Done*, with `NpuCoreProofs`.
3. `ClockDomains`, with proofs. *Done.*
4. `Interconnect` (operators shared by two modules), `IcntTraffic`, with proofs. *Done.*
5. `MemoryPath`, composed of `Interconnect`, the clock domains, the cache port
   and the channels, against the abstract `RequestPath`. *Done*, with
   `MemoryPathProofs`.
6. `L2Cache`: all policies and both kinds of block that `L2DataCache` can have.
   *Done*, with `L2CacheProofs`.
7. `SparseCore`, traces. *Done*, with `SparseCoreProofs`.
8. `TogGenerator` and `TogParser`: from the raw graph to tiles and instructions. *Done.*
9. `DramChannel` over `ClockDomains`, `DramAddress`, `DramConfig`. *Done*, with
   `DramChannelProofs`.
10. `LegoSim`: question and answer between simulator and simlets. *Done.*
11. `LaunchPath`: client, streams, driver, FIFO, command loop, simlets, composed
    of `DeviceStream` and `LegoSim`. *Done*, with `LaunchPathProofs`.
12. `StreamPool`: streams and events of the C++ API. *Done*, with
    `StreamPoolProofs`.

Theorems wanted, in order: the scheduler's `IInv` and its consequences, clocks, fair
arbitration, bandwidth of a channel; then `KernelOrder` and `SyncIsBarrier`,
`LatencyKept` and `FullRate`; `NoLostCompletion` and its companions, and `NpuCore`
implements `DagExecution`; `MemoryPath`'s `OneRoundTrip` and its refinement of
`RequestPath`; the four invariants of the cache; the two of the sparse core; the two of
`StreamPool`; `NoOrphans`, `SynchronizeWaits`, `LaunchedIsSimulated` of `LaunchPath`, and
`LatencyCovered`, which is the conjunct of its `OracleAnswer` that rounding could break.
All of these are *proved*. Left to TLC are liveness, the rest of `OracleAnswer`
and the properties of `TogParser`, for the reasons given in section 6.

## 3. The modules

```
TogGenerator, IntervalTree <- TogParser            MC: MCTogParser
KernelScheduler <- KernelSchedulerProofs           MC: MCKernelScheduler, MCNullKernel
NpuCore  --implements-->  DagExecution
NpuCore <- NpuCoreProofs                           MC: MCNpuCore
SparseCore <- SparseCoreProofs                     MC: MCSparseCore
ClockDomains <- DramChannel <- DramChannelProofs
DramChannel, DramAddress, DramConfig               MC: MCDramChannel
Interconnect <- IcntTraffic                        MC: MCIcntTraffic
Interconnect <- MemoryPath --implements--> RequestPath
IcntTraffic, MemoryPath <- MemoryPathProofs        MC: MCMemoryPath
L2Cache <- L2CacheProofs                           MC: MCL2Cache
DeviceStream, LegoSim <- LaunchPath
LaunchPath <- LaunchPathProofs                     MC: MCLaunchPath
StreamPool <- StreamPoolProofs                     MC: MCStreamPool
```

Modules fit together where the code has a narrow interface. `LaunchPath` hands
kernels to a simulator that finishes them; `TogParser` shows what a kernel is
made into, and `KernelScheduler` and `NpuCore` take such graphs as constants:
`CountersAgree` and `BarrierAfterLoad` are what their assumptions ask of the
parser, which sets the counters of all instructions of an NPU core. To `KernelScheduler` a core is a set of at most `Capacity` tiles that
finish in any order; `NpuCore` is such a core from the inside, and shows that it
gives every tile back. To `NpuCore` the memory system answers every request once,
in any order, and an oracle some time; `MemoryPath` and `L2Cache` show that the
one does, `LegoSim` is the other. To `MemoryPath` a channel admits and answers
when it likes; `DramChannel` is one with its latency and bandwidth.

Several definitions come in two forms, such as `HandBack` and
`HandBack_NoErase`. The second is the definition with a plausible mistake in it.
No specification uses it; putting it in place of the first must make a property
fail, which shows that the property depends on that line of the code.

### KernelScheduler

`Scheduler`, `TileGraph`, `TileSubGraph`, and the parts of `Simulator` and
`main.cc` that drive them. `mode` is "reading" while commands are read and
"cycling" inside `Simulator::cycle`. `Launch` and `Sync` are the commands. Within
`cycle`, the variables `phase`, `iter` and `cur` are the program counter of
`core_cycle`: `PeekNothing`, `PeekAllocates`, `PeekCannotIssue` and `IssueTile`
are the outcomes of one step of the loop over slots and cores (with
`refresh_status` inside `IssueTile`, where `get_tile` calls it, and inside
`Launch`), `CoreCycleIdle` and `CoreCycleFinishes` are the turn of one core,
which returns a tile through `HandBack` and may finish one. `Iterate` and
`SyncReturns` are the loop condition.

`ready`, `waiting` and `counter` are the ready queues, the sets of unready tiles
and the ready counters. A ready queue is a set: which of the ready tiles comes
first is left open, so the model covers every order. Tile, subgraph and kernel
graphs are constants, as the parser would produce them. How long a tile runs is
open. The core clock stops at `MaxCycle`; arrival times are at most that.

### NpuCore and DagExecution

One `Core` with its `DMA`. `pc` runs through the parts of `Core::cycle` in
order: compute pipelines ("compute"), answers of the latency oracle ("oracle"),
the queue of finished transfers ("drain") and the waiters it wakes ("wake"),
the DMA engine ("dma"), request generation ("generate"), instruction issue and
retirement of a tile ("issue"), the cache port ("cache"). Between cycles ("idle")
tiles arrive and the interconnect takes requests (`Inject`), lets them through the
cache port (`CachePasses`) and answers (`push_memory_response`).

Instructions are `MOVIN`, `MOVOUT`, `COMP` or `BAR`. The scan over the ready
lists of the resident tiles takes any eligible instruction of a tile: the order
within a ready list is left open, that of tiles is kept (`FirstReady`). Tags
have three states besides "absent": being loaded, loaded, and the sparse marker
that makes a matrix product free. Every `exit`, failed `assert` and exception of
the code sets `fault`.

Times are abstracted to order: the front of a pipeline finishes at some cycle
not before its predecessors, the oracle answers at some cycle. A zero-cycle
computation is erased from the list that is being scanned (`Core.cc:301`), after
which the iterator is used; this is undefined, and the model takes the outcome
that the container produces, the scan going on with the next element.

`TagAssumption` states what the parser guarantees (see `BarrierAfterLoad`): a tag
belongs to one load, or to several asynchronous ones, and a barrier comes after the
load of its tag, in its tile or a parent tile.

`DagExecution` is the promise: nodes of a graph complete one at a time, each
once, and each after its predecessors. `NpuCore`
implements it with the finished instructions as completed nodes.

### SparseCore

`SparseCore` replaying traces. `issue` puts a tile on the round-robin subcore
(`Selected`); the cycle visits the subcores in turn: `DrainCompletions` collects
completions of *all* subcores, since pipeline and queue are shared, then one of
`FinishTile`, `NothingToIssue`, `IssueLoad`, `IssueStore`, `IssueCompute` deals
with the first tile. `HandleMemory` is the end of the cycle: requests leave the
merge table and responses run their callbacks, in both cases one more than there
are ports, as the code's loops do. The order of requests of different addresses
is left open. A trace is a chain, as `tog_generator.py` links it.

`Instruction(Opcode)`, with which the parser makes the instructions of a trace, does
not initialise `ready_counter` (`Instruction.cc:46`). `fresh` is what the memory held,
any value of the constant `Fresh`; `ready_counter` is that value, raised by `add_child`
for the instruction before (modulo `CounterSize`) and lowered when that one
finishes, and `is_ready` is the comparison with zero. A counter above zero keeps its
tile for ever (`FromZero` excludes it from `FrontTileReturns`); one that wraps to zero
(`WrapsToZero`) lets its instruction pass the one before, after which
`dec_ready_counter` fails its assertion: `fault`, and then `Aborted`. The assertions
are active, as the build files define no `NDEBUG`.

### ClockDomains

`Simulator::set_cycle_mask`: the domains whose clock is smallest are due and
advance by their period. Periods are constants, in the integers the constructor
computes from frequencies.

### Interconnect, IcntTraffic

`SimpleInterconnect`: `Pushed`, `Popped` and `CycleWith` are its operations.
The queue from a source to a destination is FIFO and its head may leave when
its latency is over: `CycleWith(E)` serves the pairs in `E` whose head has
arrived, one source per destination, starting after the source served last.
`IcntTraffic` drives it with any traffic and keeps a history, `passed`: how
often the head of a pair, having arrived, was passed over.

### MemoryPath and RequestPath

Cores with several ports, the interconnect, the pass-through cache
(`NoL2Cache`) and `SimpleDRAM`. `SetCycleMask` lets any nonempty set of domains
be due; `pc` and `node` follow `Simulator::cycle` through cores, DRAM and the
ports and channels of `icnt_cycle`. `RequestPath` is the promise: a request goes
out, is served and comes back, in order, and only crosses the cache port in a
core cycle.

### L2Cache

One slice of `L2DataCache` over `DataCache`, one set of it; `setup` is the part of
the configuration string that decides: write policy (back, through, evict),
allocation, sector or line cache, MSHRs and how many requests merge. The loop
over port slots in `L2DataCache::cycle` is `NothingToAccess`, `PortBusy`,
`Uncacheable` or `CacheAccess`, followed by `DrainAndDeliver` unless the port was
busy (the code's `continue`). `CacheAccess` goes through `process_tag_probe` to the
handlers that `DataCache::init` selects for the policy (`m_wr_hit`, `m_wr_miss`),
each of which is an operator of its name. `Fill` and `Push` are the response from
memory. `Cycle` is the next miss leaving for memory.

Which of the eligible lines is replaced is left open, which covers LRU. The
latency queue delivers at any time, in order. The tag of a line that was never
filled is uninitialised in the code and takes any value of the setup's `fresh`.
`source` is history: whose data a sector last received.

### DramChannel, DramAddress, DramConfig

`DramCycle` is `SimpleDRAM::cycle` for all channels: the credit grows by the rate,
a request that waits is admitted if the credit covers it (at most one per cycle),
enters the `DelayQueue` (`Entry`, `Arrived`), and at most one answer leaves, unless
the cache refuses it. `CacheCycle` moves requests in between in cycles of the core
clock. Both are driven by `ClockDomains`, which this module extends, so clock
periods are those of the configuration. `admitted`, `answered` and `busy` are
histories.

`DramAddress` is the channel hash with its equations as sets of taps, and the
reference they are compared with: the remainder of a polynomial over GF(2).
`DramConfig` is what `apply_yaml_to_simulation_config` makes of the keys of a `simple` DRAM
and when it throws; the instance of the run gets its rate from it.

### TogGenerator, IntervalTree, TogParser

`TogGenerator` turns the compiler's list of nodes into a graph: `CreateNode` links
a node to its siblings and adds the end node of a loop. `TogParser` is the
`TileGraphParser`: `phase` is "scan" while the constructor goes through the nodes in
file order (`ScanLoop`, `ScanLoopEnd`, `ScanOperation`, with `register_tile` and
`register_loop`), and "build" while it walks the nest: `BuildRoot` starts an iteration
of the parallel loops, `stack` is the recursion of
`TileLoopNode::get_tiles_from_iter`, and each kind of node is an action (`Load`,
`LoadSkipped`, `Store`, `Wait`, `PlainNode`, `EnterLoop`, `Iterate`, `ReturnInner`,
`ReturnTiles`, ...). Exceptions are the actions `ScanThrows` and `BuildThrows`. An
address is a sum of indices times strides, as in the code. The instructions of STONNE
nodes start with a ready counter from `FreshCounters` (see `SparseCore`), all others
with zero; `fresh` keeps the value for `CountersAgree`.

`IntervalTree` builds the tree of cached buffers and searches it (`FindOverlapping`).

### LegoSim

The DMA engine's way to the simlets. `Route` is the decision in
`DMA::get_memory_access`: the SSD link for reads of weights, a replayed latency, the
DRAM link, or memory. `Request` and `Ask` are the link, `Serve` the loop of the
simlet, `query_latency_ns` and `TakeAnswer` the conversion of the answer to cycles.
The DRAM simlet answers with its own time in nanoseconds, which the coordinator
(`ToNs`, `ToCycles`, external) converts; the simulator stands still while a
question is open. `SsdTraceManager` is the replay of a latency file and the trace.

### DeviceStream and LaunchPath

`DeviceStream`: a queue and a worker per stream, the event that
`orDeviceSynchronize` records on each stream registered for the current device.
`LaunchPath` adds the client (`Launch`, `Synchronize`, `CloseFifo`, `communicate`,
`UntilReturns`), the worker's task that sends a command (`SendCommand`), the
FIFO and the output pipe with their capacities, the command loop (`ReadCommand`,
`EndOfFile`, `CycleReturns`, `ShutdownLinks`, `Exit`), the simlets and the
coordinator. The simulator may refuse its configuration when it starts, a kernel's
file may be faulty, and the simulator may die at any time (`Crash`). A standalone
session has any nonempty set of links and may have a time limit, at which
`TimeoutExpires` kills the process group. `live` is the set of processes.

### StreamPool

The exported C++ functions, called by several threads: `GetStreamFromPool` with
`initSingleDeviceStream` under `call_once`, one stream per step, so that other
threads come in between; `TakeFromPool` with the counter that wraps;
`setCurrentOpenRegStream`, `set_device`; `record` in its two steps, `block`, and the
synchronisations as loops that poll. `Take` and `Run` are the worker of a stream.
Calls on one event take turns: its other fields are not synchronised.

## 4. The runs

| Run | Instance | States | Shows |
|---|---|---|---|
| `tog_parser` | 11 nests, 4 cache plans, 3 values of a new counter | 17,716 | `ExactlyOnce`, `LoopOrder`, `CountersAgree`, `BarrierAfterLoad`, `CachePlanFound` |
| `kernel_scheduler` | 4 cores, 2 kinds, 2 partitions, 2 slots, 3 kernels, 8 tiles | 19,650 | `TileInOnePlace`, `ParentsFirst`, `KernelOrder`, `SyncIsBarrier`, `SyncTerminates` |
| `null_kernel` | a kernel without subgraphs between two others | violated | `SyncIsBarrier` fails, see section 7 |
| `npu_core` | 3 tiles, 16 instructions of all kinds | 57,108 | `NoFault`, `NoLostCompletion`, `DataBeforeCompute`, `IdleMeansDrained`, `ExecutesGraph`, `EveryTileRetires` |
| `sparse_core` | 2 subcores, 3 traces, counters from zero, never zero, or wrapping | 209,313 | `NoFault`, `DataBeforeUse`, `FrontTileReturns` |
| `sparse_busy` | the same, counters from zero | violated | `EveryTileReturns` fails, see section 7 |
| `icnt_traffic` | 3 nodes, 3 packets, any traffic | 35,451 | `BoundedBypass` |
| `memory_path` | 2 cores of 2 ports, 2 channels, 3 requests | 137,286 | `OneRoundTrip`, `ImplementsRequestPath`, `EveryRequestAnswered` |
| `dram_channel` | 2 channels, 4 transactions, periods 17, 20 and 8 | 842,561 | `TicksInProportion`, `BandwidthHeld`, `FullRate`, `LatencyKept` |
| `l2_cache` | 2 ways, 2 sectors, 3 blocks, 4 configurations | 91,272 | `OneReply`, `MshrBacked`, `RetrySentNothing`, `LineFilledByOwnData`, `ArrivedIsAnswered` |
| `launch_path` | 2 devices, 3 kernels, all sets of links, 2 cores | 426,068 | `SynchronizeWaits`, `LaunchedIsSimulated`, `NoOrphans`, `OracleAnswer`, `SessionEnds` |
| `stream_pool` | 2 threads, 2 devices, 2 streams each, 1 event, 5 calls | 238,338 | `StreamsAreDealtRound`, `EventFollowsWork`, `EverythingRuns` |

`MCDramChannel` also has an assumption that TLC evaluates, `HashIsExact`: for 16,
32 and 64 channels the hash of every transaction number with up to three bits set
is its remainder by the polynomial, and for up to 16 channels, a power of two, the
channel and the address inside it determine the transaction.

Why the bounds are enough:

* `tog_parser` has the nests the templates of the frontend emit: parallel loops,
  accumulation loops nested and alone, inner and plain loops, fine and coarse
  loads, a load repeated in a tile, STONNE layers and traces, the null kernel; and
  three shapes the parser throws at. Two iterations of a loop are enough for an
  index to advance and for an odometer to carry, three parallel iterations for one
  that is neither first nor last. The cache plans make trees of one leaf and of
  several nodes, with reversed, touching and one-point intervals. The counter of a
  STONNE instruction starts from 0, 1 or 63 of 64 values; no instruction has as many
  links.
* `kernel_scheduler` has a tile with two iterations between a first and a last
  tile (the graph a nested loop yields), a pinned and a free subgraph, a kernel
  that arrives late behind another, a core of the other kind, and a second
  partition. Capacity 2 makes cores fill up, as 4 would with more tiles. One
  cycle of arrival delay is enough for both orders of "arrived" and "head".
* `npu_core` has every opcode, a tag shared by sibling tiles and a child tile, so
  that a second load is issued, skipped or made to wait, the sparse marker, and
  loads and stores timed by memory and by the oracle, synchronous and
  asynchronous. Two requests per transfer are needed for "some but not all
  answered". One port and two arrays make requests queue and the round-robin
  counter wrap.
* `sparse_core`: two of the traces share an address, which is merged or not
  depending on timing; with one port, two requests pass per cycle and three are
  registered. The third tile is issued when either of the first two is through. The
  counters start from zero, or one of them does not: the second instruction of one
  tile starts from one, so that the tile hangs while the others must return; or that of
  another starts from `CounterSize - 1`, wraps, and ends in the assertion. Four values
  of a counter are enough, as it is raised and lowered once. The wrap in the longest
  trace was checked once (1,243,268 states) and is too large for a run.
* `icnt_traffic`: three sources for one destination are needed for one to be
  passed over by two others. Packets are reused without end; the packets are
  symmetric.
* `memory_path`: two requests contend for a channel and a third from the same
  core crosses on another channel, so responses overtake. Cores have two ports,
  so that a response may come back on another port.
* `dram_channel`: a request costs 3.5 cycles of credit, so remainders add up; three
  transactions share a channel, more than the starting credit admits. No period
  divides another, and `MaxTime` 170 is ten core and eight memory cycles, in which
  every transaction is paid for and answered; the run stops there, so deadlock
  is not checked.
* `l2_cache`: three blocks in two ways force eviction of clean and dirty lines; a
  miss queue of two fills up with a fetch and a write-back; two requests to one
  sector merge and a third finds the entry full. Two setups have a memory that
  reorders, one an exhausted MSHR table and a fresh line that seems to hold the
  requested tag. The write-through hit that is refused for a full miss queue is
  not reached with these sizes.
* `launch_path`: two streams and three kernels, one of them faulty, so that a
  good kernel is before or behind a bad one and on either stream; one call of
  `synchronize` and the one of `until`. The output pipe holds one line, so the simulator
  blocks on it as it does when 64 KB are full. The FIFO holds all commands: with
  both full, the two processes block each other (see section 7). Accesses of two
  cores overlap at the DRAM simlet, one crosses a page, reads and writes fall on
  the edges of a weight range, and the latency file has rows for one instruction
  twice. The DRAM simlet takes three nanoseconds and more, so that an access served
  too early shows in spite of the rounding that `LatencyCovered` allows.
* `stream_pool`: pools of two streams and a counter of four values wrap in five
  calls (`MaxOps`), in which an event can also be recorded, waited for and
  recorded again. The run stops there, so deadlock is not checked; that nobody
  waits for ever is `EverythingRuns`.

## 5. Fairness

Only liveness uses fairness. Each assumption is a statement about the code:

* `KernelScheduler`: weak fairness of `CycleStep`, as `cycle()` is a plain loop;
  strong fairness of finishing each tile, as a resident tile finishes after
  finitely many cycles (`NpuCore` shows that). No fairness of `Launch` or `Sync`.
* `NpuCore`: weak fairness of the steps of a cycle, those that move `pc` and the
  iterations of its loops that do not; strong fairness of the scheduler handing
  over a tile the core can take (it offers one every cycle), of a
  pipeline's front finishing (its cycle count is finite), of the oracle
  answering, of the interconnect taking a request, of the cache port letting it
  pass and of the answer. Strong, because they are only enabled between cycles
  or in one part of one.
* `SparseCore`: weak fairness of the cycle, strong fairness of computations
  ending, of requests leaving and of responses.
* `MemoryPath`: weak fairness of every step that moves the program counter;
  strong fairness of a round in which all domains are due (clocks meet every
  least common multiple of their periods, see `ClockDomains`), of DRAM serving
  all that wait (latency and bandwidth delay are finite, see `DramChannel`) and of
  an interconnect cycle in which all heads have arrived.
* `L2Cache`: weak fairness of `Cycle`, strong fairness of memory answering the
  oldest fetch and of the latency queue delivering.
* `LaunchPath`: weak fairness of each thread and process, which the operating
  system schedules, of the client calling `until` in the end, of the coordinator's
  exit and of a time limit that was given. None of `Launch`, `Synchronize` or
  `Crash`.
* `StreamPool`: weak fairness of each worker and of each thread inside a call. None
  of making a call.

## 6. The proofs

The theorems hold for all values of the constants that satisfy the named
assumptions of the modules: `ShapeAssumption` and `GraphAssumption` of the scheduler,
`CoreAssumption` and `TagAssumption` of the core, `TraceAssumption` of the sparse core,
`PeriodAssumption` of the clocks, `NodeAssumption` of the interconnect, `PathAssumption`
of the memory path, `CacheAssumption` of the L2, `ChannelAssumption` of the channels,
`PoolAssumption` of the stream pool, `DeviceAssumption` of the streams, and
`LaunchAssumption` (the client's device exists), `ProgramAssumption`, `LegoAssumption` and
`FileAssumption` (programs, clocks and the latency file have the types the code reads
them with) of the launch path.
TLC evaluates the assumptions for the instances above. Each inductive invariant was
also checked by TLC on the instance of its run.

**KernelSchedulerProofs.** `IInv` is inductive and implies `TypeOK`,
`TileInOnePlace` and `ParentsFirst`. `TileInOnePlace` alone is not inductive: a
tile is handed out when its counter has reached zero, so one needs
`CounterIsOpenParents` (the counter of a tile is the number of its parents that
have not been handed back) and `StageMatchesCounter` (a launched tile in
`waiting` has parents open, one beyond it has none). The interesting case is
`HandBack`: the counters of the children of the tile drop by one, since the set
of open parents loses exactly that tile (`FS_RemoveElement`), and a child whose
counter becomes zero moves from `waiting` to `ready`. `Launch` fills the
counters with the number of parents, none of which can have run. `ParentsFirst`
then follows: a tile on a core is not in `waiting`, so it has no open parent.

`OrderInv` adds what `KernelOrder` needs. A kernel stays in the queue while one of its
tiles is unissued, and such a tile is in a pending subgraph or in a slot of a core
(`NoTileLost`); slots hold subgraphs of their own kernel and partition (`SlotsHoldOwn`);
a kernel is queued once (`QueuedOnce`). So when `refresh_status` pops the head, all
of its tiles have been issued. `SyncIsBarrier` needs one thing more: the head of a
queue always has a tile to issue (`HeadUnissued`), for otherwise the scheduler looks
empty before it is. That holds unless some kernel is null, has an empty subgraph or is
sent to a partition without cores (`NoNullKernel`, the hypothesis of
`SynchronizationIsBarrier`); the run `null_kernel` shows that the hypothesis is needed.

**NpuCoreProofs.** Two theorems are safety of the engine (`NoFault`,
`NoLostCompletion`), two say what it means for an instruction to be over
(`DataBeforeCompute`, `IdleMeansDrained`), and `CoreExecutesGraph` is the refinement of
`DagExecution`: of each action, at most one instruction is finished, and all its
predecessors were. The invariant says where an instruction can be: `CounterInv` (a
counter is the number of open predecessors, and zero for all that is under way),
`PlaceInv` and `QueueInv` (it is ready, moving, piped, parked or landing, once),
`TagInv` (one load at a time has a tag, which is "loading" until the load is drained),
`TileInv`, and `DmaInv`. The last is what `NoLostCompletion` rests on: an answer may
come before its transfer is in the waiting queue, and is dropped then. It does not
happen because the last request of a transfer is still in the core's request queue, or
at most in front of the cache port, until the cycle is past the DMA step that moves
the transfer.

**SparseCoreProofs.** `finish_instruction` never meets a finished instruction and
lowers no counter that is zero (`NoFault`), and no instruction is taken before its data
(`DataBeforeUse`), whatever the memory of the counters held, unless it made a counter
wrap to zero: a hypothesis on the initial value that the code needs too (section 7).
`OrderInv` says that pipeline and queue hold an instruction once and that all but
the last one taken of a tile are finished, save those in front of a wrapped counter;
`FailsIfWrapped` that an assertion can fail for such a one only. `CountInv` says what a counter means:
`_nr_waiting_request` is the number of addresses of the instruction whose response is
outstanding. A merged request calls back several instructions, and the same address can
be on its way twice, once in the table and once beyond it; `CallInv` says that no two
requests for an address call the same instruction, so that a burst of responses lowers
a counter by as many addresses as it has responses for it (`CallsAreAddresses`).
`DrainedFacts` says what the loop over `_dma_finished_queue` removes. The traces are any
traces, also with stores, repeated addresses and empty transfers.

**DramChannelProofs, clocks.** `IInv` of `ClockDomains` says that a clock stands at its period times the
number of its ticks, and that no clock is more than one period ahead of another.
A tick keeps it because only the clocks furthest behind advance.
`TicksInProportion` is the second part rewritten with the first.

**MemoryPathProofs, traffic.** `Dist` is the number of sources the arbiter of a
destination looks at before a given one. The lemmas say that it is in
`0 .. NNodes - 1`, injective, and that serving a source nearer than a waiting one
brings the waiting one nearer. `TrafficInv` ties the history to it: the number of
times an arrived head was passed over and the distance left to it are together
less than `NNodes`. `BoundedBypass` follows. It is not inductive without the
distance.

**MemoryPathProofs, path.** A request is in one of seven kinds of queue or answered.
`TypeOK` says that the queues of each kind hold no request twice, neither in one nor in
two of them (`Neat`); `RouteInv` that each is in the queues of its own core, channel
or destination; `PlaceInv` that the kinds are disjoint, make up what was issued, and
hold replies on the way back only. `PopOne` and `PushOne` say what a single `pop` or
`push` does to the queues of a kind, `PopAll` and `PushAll` what one of each channel
does, so that an action is a removal here and an addition there. `OneRoundTrip` counts to one in `PlaceInv`. For `PathIsImplemented`
every action is shown to move at most one request, to the next stage of `RequestPath`;
that it passes the cache port in a core cycle only follows from `pc` and `due`.

**L2CacheProofs.** The results are `OneReply`, `MshrBacked`, `RetrySentNothing` and
`LineFilledByOwnData`, for all write policies, sizes and both kinds of block. An access
is answered once because it is in one place (`PlaceInv`): in the crossbar's queue, in
the latency queue, in an MSHR or in memory, where a fetch is the one exception, as its
first access waits in the MSHR meanwhile. Write-backs stand for no access and may be
queued twice. `MshrInv` says that each entry has one fetch or one ready mark, never
both. `RetrySentNothing`, that a refused access has left nothing behind, follows where
the code asserts it: room for one write and one fetch is tested before either is sent.
`LineInv` (the line of a fetch stays reserved for it in a line cache) gives
`LineFilledByOwnData`; it fails for a sector cache (section 7).

**DramChannelProofs, channels.** `BandwidthHeld` bounds what a channel has admitted by what
its cycles have earned, for any clocks, rate, latency and traffic. It is not
inductive: one has to know what is left. `LedgerInv` adds the types (`TypeOK_Chan`),
that the cycles of the queues are the ticks of the memory clock but for the step
in between (`InStep`), and the ledger itself: bytes admitted and credit left are
together the start and the rate times the cycles. A cycle moves both sides by the
rate, and an admission moves bytes from one to the other; as the credit is never
negative, the bound follows.

`LatencyInv` is the invariant behind `LatencyKept`: the delay queue holds what was
admitted and not answered, in order and with its time of arrival; admissions
of a channel have different cycles, so the head is at most as late as there were
refusals. `RateInv` keeps a second ledger since the queue last began to form, from which
`FullRate` follows: either every cycle admitted a request or the credit is less than one.

**StreamPoolProofs.** `StreamsAreDealtRound` holds for any pool size that divides the
size of the counter, any number of threads, devices and calls. Its invariant says
that one thread creates a pool, place by place, and no stream is dealt before it is
complete (`CreatedOnce`); and that the counter and the number of streams dealt agree
modulo the pool's size, and a stream handed out is the one of its number (`Dealt`): this
is where the wrap of the counter needs divisibility. `EventFollowsWork` rests on
`Recorded(e)`, for an event that is not recorded again before it has completed: it has at
most one record in all streams; the work that had been queued before stands before the
record or has run; and once the flag is set, no record is left and all that work has
run. `record` has two steps, between which other threads may enqueue; `TurnsTaken` says
that one thread at a time is between them.

**LaunchPathProofs.** `NoOrphans` follows from `Sessions`: the client's states of each
kind of session, with the processes that may be alive in them; the coordinator is the
last to go. It holds on any device, with any links, and wherever the simulator dies.

`SynchronizeWaits` and `LaunchedIsSimulated` are stated of a client on device 0
(`Home = 0`), for there the streams are registered; on another device
`SynchronizeWaits` fails (section 7). The places of a stream are the task that runs
and those queued behind it (`At`, `Line`). `Streams` says of them: there is at most one
event record in all streams, and none when its flag is set (`OneRecord`); a kernel
launched is in a place of its stream or has run (`Queued`); while the client
synchronises, a kernel that was launched has run, stands before the record in its stream,
or is in a stream the synchronisation has not reached (`Recorded`); what the streams hold
was launched in this session (`Known`); and when the client closes the FIFO, everything
has run (`Awaited`). `Commands` takes over where the worker has written a command:
while the simulator lives, a kernel that is not faulty is in the FIFO, scheduled or
simulated, and the simulator passes to its last synchronisation only when the FIFO is
empty and closed. With that, nothing launched can be lost on the way to a normal exit.

`LatencyCovered`, a conjunct of `OracleAnswer`, needs nothing of the streams and holds
for any frequency, bandwidth, latency, program and order of the cores. Its invariant,
`AccessInv`, says that the simulator stands still while an answer is outstanding, and
that the end of every DRAM access the engine knows of is at most a nanosecond and two
cycles past the simlet's clock, that clock taken without the answer on its way
(`Clocked`, `Owed`). Cycles are rounded to nanoseconds in the question, nanoseconds to
cycles in the answer, and an answer at or before its question becomes one cycle.
Together they lose more than the instance of the run shows: two accesses may overlap by
three cycles; two cycles are not a bound at, for example, 300 MHz, when an access of one
nanosecond and one of twelve are asked for at once.

**Model-checked only.** Liveness (all `...Terminates`, `...Retires`, `...Answered`,
`...Returns`, `...Runs`, `SessionEnds`) depends on fairness and enabledness, which this
prover does not treat. What the recursive functions of `TogGenerator`, `TogParser`,
`IntervalTree` and `DramAddress` compute would need induction over data, and with it the
properties of `TogParser` (`ExactlyOnce`, `LoopOrder`, `CountersAgree`,
`BarrierAfterLoad`, `CachePlanFound`). So would the rest of `OracleAnswer`: it speaks of
weight ranges as sorted by a library function, and of the rows of a latency file that a
filter selects.

## 7. Divergences found

Each of the first two is a run.

* **A null kernel ends a synchronisation early** (`null_kernel`,
  `TileGraphParser.cc:823`). A graph without loop nodes has no subgraphs. At the
  head of the queue it makes the scheduler look empty, and nothing pops it, so
  the loop ends with kernels queued behind it.
* **A tile on a busy subcore never returns** (`sparse_busy`, `SparseCore.cc:65`).
  The test for an idle subcore and the choice of one use different indices.

Some more can be reproduced by changing an instance:

* **An instruction of a trace may never become ready** (`Instruction.cc:46`). The
  constructor the parser uses for STONNE nodes (`TileGraphParser.cc:629`, 636, 643 and
  650) leaves `ready_counter` uninitialised (`Instruction.h:104`), `add_child` increments
  what is there, and `SparseCore.cc:233` waits for zero. On memory that happens to be zero
  nothing shows. Otherwise the tile stays on its subcore for ever, and with it the
  synchronisation, or, if the counter wrapped, the process ends in the assertion of
  `Instruction.h:43`. `sparse_core` has both cases beside zeroed memory, and its
  properties name them as exceptions (`FromZero`, `WrapsToZero`): without `FromZero`,
  `FrontTileReturns` fails, and with `NSub = 1` and `Fresh <- MCAny` in
  `SparseCoreBusy.cfg`, so does `EveryTileReturns`, for this reason alone.
* **Synchronising another device waits for nothing** (`openreg/__init__.py:84`). The
  default streams of all devices are created while device 0 is current and
  registered for it. With `Home = 1` in `LaunchPath.cfg` the run violates
  `SynchronizeWaits`; the docstring of `synchronize` (line 167) says "Synchronize all
  streams on the current device."
* **"Completed" means issued** (`Scheduler.cc:51`). A kernel is popped, logged as
  completed and timed when its last tile is handed out, not when it has executed.
* **A sector line filled with another block's data** (`Cache.cc:122`).
  `SectorCacheBlock::allocate` does not reserve the line, so two fetches may be
  given the same one, and the first to come back fills the tag of the second.
  `LineFilledByOwnData` without its first condition fails for the sector setups.
* **FIFO and output pipe full at once** (`simulator.py:387`). Output is drained only
  after all commands are written: with `FifoCapacity` as small as `OutCapacity`, the
  simulator blocks on its output and the worker on the FIFO.

Others that the models record, as part of an action or as an exception in a
property, but state no property of:

* The constructor of the driver opens the FIFO before the simulator has shown
  that it lives, and waits for ever if it has not; a standalone run without a time
  limit waits for simlets whose simulator is dead (`Hung`).
* An event is one flag without a version: an event that is recorded again before
  it completes lets waiters pass early, and a wait queued before may then wait
  for itself (`stream.cpp:115`). The documentation comments of `OpenRegGuard.h`
  describe records and queries that its functions do not do.
* The handle of the pool's first stream is null until the pool exists, so work on
  the default stream is refused before anyone asks for a pool stream.
* A cache block whose tag is in every way, with nothing valid, is never given a
  line (`Unplaceable`), and its requests are refused for ever. `Cache.cc:78` and 83
  compute with `>` where a shift is meant.
* In trace mode a sparse core gives a tile back while stores and a last
  computation are under way (`SparseCore.cc:220`). The merge table is drained with
  `<=`, one request more than there are ports.
* Byte credit accumulates over idle time without a cap (`Dram.cc:480`). As a channel
  admits one request per cycle at most, `BandwidthHeld` is a bound over the whole
  run and not over a window after a pause.
* The parser drops nodes in the body of an outer parallel loop other than the
  innermost, keeps no order inside flattened inner loops, and throws at a node
  behind the outermost loop or a nest whose first loop is not parallel. That a
  skipped load is really redundant rests on equal tags naming equal addresses.
* The hash comment (`Hashing.cc:33`) promises freedom from conflicts for all
  power-of-two strides and names the polynomial IPOLY(5) for 16 channels; the
  equations are those of IPOLY(19), and the promise fails for 2, 4 and 8 channels.
  With a number of channels that is no power of two, different transactions get the
  same channel and partition address.
* `simulator.py:958-961` says that the link to the DRAM simlet only ever consumes the
  simlet's own `latency_ns`, so that every round reports the same result and round 1's
  log will do. `DramLegoSimLink.cc:82-84` computes the latency from the interchiplet
  cycle instead (`latency_ns` is the fallback without a clock frequency), so rounds may
  differ, and a network delay that shows only in a later round is not in the result
  that is reported.
* The end of a weight range is exclusive where it is written and inclusive where it is
  read (`WeightAddressRanges.cc:60`).
* The shift in `Instruction.cc:111` applies to the base address too.

## 8. What is not modelled

* Data, compute latencies, statistics, logs: no property here is about them. The
  address arithmetic of a tile's DMA (`Instruction.cc`), the addresses of write-backs
  inside a block and the rounding of frequencies to periods are out of scope.
* Attributes the parser copies through: NUMA ids and strides, indirect accesses,
  the asynchronous flag, the map of subgraphs to cores. `NpuCore` and
  `KernelScheduler` take them as constants.
* `DramRamulator2`, `Booksim2Interconnect` and the STONNE simulator: wrappers
  around code in submodules that the tree does not contain. Hence no subcore that
  executes instead of replaying a trace: what it records depends on when STONNE
  changes its status. The coordinator of LegoSim is external: a queue and the two
  clock rates, which is all the links depend on.
* Cache variants that `L2DataCache` never uses: `ReadOnlyCache`, allocation on fill,
  sector-associative MSHRs.
* The files that number processes and traces (`SsdTrace.cc:78`, 137) and results
  (`simulator.py:535`): several processes that read and increment one file may get
  one number. The models start from the files a run has opened.
* Destruction of streams (`Module.cpp:175`, `stream.cpp:62`) and `orStreamQuery`. Nothing
  in the repository calls the latter. `Stream.__del__` (`openreg/__init__.py:92`) calls
  the former when a stream loses its last reference; the repository's only streams
  are the default ones, which a dictionary of the module holds until the interpreter
  shuts down, and there `__del__` destroys them if the module's globals still
  stand. The models end before that. The worker may miss the notification of the
  destructor, and the join is called with the interpreter lock held.
* The allocators, guards, generator and hooks of the device runtime: calls
  forwarded to PyTorch, and memory mapped and protected under one lock.
* Frontend, configuration, arrival generator, scripts: sequential translation or
  glue; their results enter the models as constants.
