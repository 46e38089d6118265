--------------------------- MODULE KernelScheduler ---------------------------
(***************************************************************************)
(* Dispatch of kernels to the cores of TOGSim: the per-partition Scheduler *)
(* with its queue of TileGraphs, the TileSubGraphs a kernel is cut into,   *)
(* and the part of Simulator::cycle that hands tiles to cores and returns  *)
(* finished ones.  TOGSim is single threaded; a step of this module is one *)
(* visit of one core inside Simulator::core_cycle.  What a core does with  *)
(* a tile is left open (see NpuCore): an issued tile finishes some time.   *)
(***************************************************************************)
EXTENDS Naturals, Sequences, FiniteSets

CONSTANTS
  NCores,      (* config.num_cores                                         *)
  MaxSlot,     (* Simulator::_max_slot, 2: a core is double buffered        *)
  Partitions,  (* the partitions, one Scheduler each                       *)
  PartitionOf, (* config.partiton_map: the partition of a core             *)
  Capacity,    (* tiles a core takes before can_issue says no              *)
  Kernels,     (* the kernels of the trace                                 *)
  KernelPart,  (* stream index of LAUNCH_KERNEL: the partition it runs on  *)
  Arrival,     (* arrival_time of a kernel, in core cycles                 *)
  KindOf,      (* "ws" or "stonne": TileGraph::StonneGraph                 *)
  CoreKind,    (* config.core_type of a core                               *)
  Subs,        (* ids of TileSubGraphs, numbered in creation order         *)
  KernelOf,    (* the TileGraph a subgraph was appended to                 *)
  Pin,         (* TileSubGraph::_core_id: a core, or AnyCore               *)
  AnyCore,     (* the -1 of an unpinned subgraph                           *)
  NoSub,       (* the nullptr of _cpu_graph_map                            *)
  Tiles,
  SubOf,       (* Tile::_onwer_graph                                       *)
  Children,    (* Tile::_child_tiles                                       *)
  MaxCycle     (* _core_cycles saturates here: bound for model checking    *)

Cores == 0 .. NCores - 1
Slots == 0 .. MaxSlot - 1
Parents(t) == {p \in Tiles : t \in Children[p]}
TilesOf(s) == {t \in Tiles : SubOf[t] = s}
KernelTiles(k) == {t \in Tiles : KernelOf[SubOf[t]] = k}

(* What the parser and the configuration guarantee.  MaxCycle does not cut *)
(* an arrival off: at MaxCycle every kernel has arrived.                   *)
ASSUME ShapeAssumption ==
  /\ NCores \in Nat \ {0}
  /\ MaxSlot \in Nat \ {0}
  /\ PartitionOf \in [Cores -> Partitions]
  /\ Capacity \in [Cores -> Nat]
  /\ KernelPart \in [Kernels -> Partitions]
  /\ Arrival \in [Kernels -> Nat]
  /\ MaxCycle \in Nat
  /\ \A k \in Kernels : Arrival[k] <= MaxCycle
  /\ KindOf \in [Kernels -> {"ws", "stonne"}]
  /\ CoreKind \in [Cores -> {"ws", "stonne"}]

ASSUME GraphAssumption ==
  /\ Subs \subseteq Nat
  /\ NoSub \notin Subs
  /\ AnyCore \notin Cores
  /\ KernelOf \in [Subs -> Kernels]
  /\ Pin \in [Subs -> Cores \cup {AnyCore}]
  /\ IsFiniteSet(Tiles)
  /\ SubOf \in [Tiles -> Subs]
  /\ Children \in [Tiles -> SUBSET Tiles]
  /\ \A t \in Tiles : \A c \in Children[t] : SubOf[c] = SubOf[t]

VARIABLES
  mode,      (* "reading" commands, "cycling" in Simulator::cycle          *)
  launched,  (* kernels the trace has launched                             *)
  queue,     (* Scheduler::_tile_graph, one sequence per partition         *)
  pending,   (* TileGraph::_subgraph_vec                                   *)
  alloc,     (* TileGraph::_cpu_graph_map                                  *)
  ready,     (* the union of the subgraphs' _ready_tile_queues             *)
  waiting,   (* the union of the subgraphs' _tile_sets                     *)
  counter,   (* Tile::_ready_counter                                       *)
  onCore,    (* Core::_tiles                                               *)
  finishedQ, (* Core::_finished_tiles                                      *)
  done,      (* tiles given back through TileSubGraph::finish_tile         *)
  clock,     (* Simulator::_core_cycles                                    *)
  phase,     (* where in the loop of Simulator::cycle control is           *)
  iter,      (* i of the slot loop; _slot_id has the same value            *)
  cur        (* core_id of the core loops                                  *)

graphVars == <<queue, pending, alloc, ready, waiting, counter>>
loopVars == <<phase, iter, cur>>
vars == <<mode, launched, graphVars, onCore, finishedQ, done, clock, loopVars>>

FinishedOnCore(c) == {finishedQ[c][i] : i \in 1 .. Len(finishedQ[c])}

(* The tiles whose instructions have all finished on a core.               *)
executed == done \cup UNION {FinishedOnCore(c) : c \in Cores}

(* The tiles that have been issued to a core, and those that have not.     *)
begun == executed \cup UNION {onCore[c] : c \in Cores}
Unissued == ready \cup waiting
-----------------------------------------------------------------------------
(* TileSubGraph::is_finished: no tile left to issue. *)
SubIssued(s, rdy, wtg) == TilesOf(s) \cap (rdy \cup wtg) = {}

(* TileGraph::is_finished: every subgraph handed out, none with a tile left *)
GraphFinished(k, pnd, alc, rdy, wtg) ==
  /\ pnd[k] = {}
  /\ \A c \in Cores, l \in Slots :
       alc[k][c][l] # NoSub => SubIssued(alc[k][c][l], rdy, wtg)

(* Scheduler::refresh_status: pops the head graph once it is finished.     *)
refresh_status(q, pnd, alc, rdy, wtg) ==
  IF q # <<>> /\ GraphFinished(Head(q), pnd, alc, rdy, wtg) THEN Tail(q) ELSE q

(* A faulty empty that forgets the subgraphs not yet handed out. *)
SchedulerEmpty_NoPending(c) ==
  LET q == queue[PartitionOf[c]] IN
  q # <<>> => \A l \in Slots : alloc[Head(q)][c][l] = NoSub

(* Scheduler::empty(core_id), which looks at the head graph only.          *)
SchedulerEmpty(c) ==
  LET q == queue[PartitionOf[c]] IN
  q # <<>> => /\ pending[Head(q)] = {}
              /\ \A l \in Slots : alloc[Head(q)][c][l] = NoSub

(* Core::running as far as tiles go; Residual stands for the rest.         *)
CoreRunning(c) == onCore[c] # {}

(* Simulator::running *)
running == \E c \in Cores : CoreRunning(c) \/ ~SchedulerEmpty(c)
-----------------------------------------------------------------------------
Init ==
  /\ mode = "reading"
  /\ launched = {}
  /\ queue = [p \in Partitions |-> <<>>]
  /\ pending = [k \in Kernels |-> {s \in Subs : KernelOf[s] = k}]
  /\ alloc = [k \in Kernels |-> [c \in Cores |-> [l \in Slots |-> NoSub]]]
  /\ ready = {}
  /\ waiting = {}
  /\ counter = [t \in Tiles |-> Cardinality(Parents(t))]
  /\ onCore = [c \in Cores |-> {}]
  /\ finishedQ = [c \in Cores |-> <<>>]
  /\ done = {}
  /\ clock = 0
  /\ phase = "check"
  /\ iter = 0
  /\ cur = 0

(* LAUNCH_KERNEL: launchKernel parses the graph, TileSubGraph::add_tile    *)
(* sorts its tiles by ready counter, Scheduler::enqueue_graph appends it   *)
(* and refreshes.                                                          *)
Launch(k) ==
  /\ mode = "reading"
  /\ k \notin launched
  /\ launched' = launched \cup {k}
  /\ ready' = ready \cup {t \in KernelTiles(k) : counter[t] = 0}
  /\ waiting' = waiting \cup {t \in KernelTiles(k) : counter[t] # 0}
  /\ queue' = [queue EXCEPT ![KernelPart[k]] =
                 refresh_status(Append(@, k), pending, alloc, ready', waiting')]
  /\ UNCHANGED <<mode, pending, alloc, counter, onCore, finishedQ, done,
                 clock, loopVars>>

(* DEVICE_SYNC, and the end of the trace: enter Simulator::cycle.          *)
Sync ==
  /\ mode = "reading"
  /\ launched # {}
  /\ mode' = "cycling"
  /\ UNCHANGED <<launched, graphVars, onCore, finishedQ, done, clock, loopVars>>

(* The loop of Simulator::cycle goes round once more.  Write              *)
(* acknowledgements that are still under way when the last tile has left   *)
(* its core also keep the loop going; such a round can only hand back what *)
(* is in finishedQ, hence the last disjunct.                               *)
Iterate ==
  /\ mode = "cycling"
  /\ phase = "check"
  /\ running \/ clock < 1 \/ \E c \in Cores : finishedQ[c] # <<>>
  /\ phase' = "slots"
  /\ iter' = 0
  /\ cur' = 0
  /\ UNCHANGED <<mode, launched, graphVars, onCore, finishedQ, done, clock>>

(* The simulator is idle: cycle returns and the command loop goes on.      *)
SyncReturns ==
  /\ mode = "cycling"
  /\ phase = "check"
  /\ ~running /\ clock >= 1
  /\ mode' = "reading"
  /\ UNCHANGED <<launched, graphVars, onCore, finishedQ, done, clock, loopVars>>
-----------------------------------------------------------------------------
(* The slot loop of core_cycle: at most one tile is issued per slot, to    *)
(* the first core in id order that can take one.                           *)
GoTo(p, i, c) == phase' = p /\ iter' = i /\ cur' = c

NextSlot == IF iter + 1 < MaxSlot THEN GoTo("slots", iter + 1, 0)
                                  ELSE GoTo("cores", 0, 0)

NextCore == IF cur + 1 < NCores THEN GoTo("slots", iter, cur + 1) ELSE NextSlot

HeadQueue == queue[PartitionOf[cur]]
(* A faulty peek at the newest graph instead of the oldest. *)
HeadKernel_Back == HeadQueue[Len(HeadQueue)]

HeadKernel == Head(HeadQueue)
CurSub == alloc[HeadKernel][cur][iter]

InSlotLoop == mode = "cycling" /\ phase = "slots"

(* Scheduler::peek_tile gets past its own tests to TileGraph::peek_tile.   *)
CanPeek ==
  /\ HeadQueue # <<>>
  /\ Arrival[HeadKernel] <= clock
  /\ KindOf[HeadKernel] = CoreKind[cur]

(* The slot holds no subgraph, or one whose tiles have all been issued.    *)
SlotFree == CurSub = NoSub \/ SubIssued(CurSub, ready, waiting)

PeekNothing ==
  /\ InSlotLoop
  /\ ~CanPeek
  /\ NextCore
  /\ UNCHANGED <<mode, launched, graphVars, onCore, finishedQ, done, clock>>

(* TileGraph::allocate_subgraph: the slot gets the first subgraph of       *)
(* _subgraph_vec that is not pinned to another core, or nothing.           *)
(* A faulty test of _core_id, without the -1 case. *)
Candidates_PinnedOnly(k, c) == {s \in pending[k] : Pin[s] = c}

Candidates(k, c) == {s \in pending[k] : Pin[s] \in {AnyCore, c}}

allocate_subgraph(k, c, l) ==
  \/ /\ Candidates(k, c) = {}
     /\ alloc' = [alloc EXCEPT ![k][c][l] = NoSub]
     /\ UNCHANGED pending
  \/ \E s \in Candidates(k, c) :
       /\ \A r \in Candidates(k, c) : s <= r
       /\ alloc' = [alloc EXCEPT ![k][c][l] = s]
       /\ pending' = [pending EXCEPT ![k] = @ \ {s}]

PeekAllocates ==
  /\ InSlotLoop
  /\ CanPeek
  /\ SlotFree
  /\ allocate_subgraph(HeadKernel, cur, iter)
  /\ NextCore
  /\ UNCHANGED <<mode, launched, queue, ready, waiting, counter, onCore,
                 finishedQ, done, clock>>

(* Core::can_issue *)
can_issue(c) == Cardinality(onCore[c]) < Capacity[c]

(* Tiles all need the same amount of SRAM as far as the scheduler knows,   *)
(* so which of the ready ones is on top of the priority queue is open.     *)
ReadyInSlot == {t \in ready : SubOf[t] = CurSub}

PeekCannotIssue ==
  /\ InSlotLoop
  /\ CanPeek
  /\ ~SlotFree
  /\ ReadyInSlot = {} \/ ~can_issue(cur)
  /\ NextCore
  /\ UNCHANGED <<mode, launched, graphVars, onCore, finishedQ, done, clock>>

(* Scheduler::get_tile pops the tile and refreshes; Core::issue takes it;  *)
(* the break ends this slot's scan of the cores.                           *)
IssueTile(t) ==
  /\ InSlotLoop
  /\ CanPeek
  /\ ~SlotFree
  /\ t \in ReadyInSlot
  /\ can_issue(cur)
  /\ ready' = ready \ {t}
  /\ onCore' = [onCore EXCEPT ![cur] = @ \cup {t}]
  /\ queue' = [queue EXCEPT ![PartitionOf[cur]] =
                 refresh_status(@, pending, alloc, ready', waiting)]
  /\ NextSlot
  /\ UNCHANGED <<mode, launched, pending, alloc, waiting, counter, finishedQ,
                 done, clock>>
-----------------------------------------------------------------------------
InCoreLoop == mode = "cycling" /\ phase = "cores"

EndOfCore ==
  IF cur + 1 < NCores
    THEN GoTo("cores", 0, cur + 1) /\ UNCHANGED clock
    ELSE /\ GoTo("check", 0, 0)
         /\ clock' = IF clock < MaxCycle THEN clock + 1 ELSE clock

(* Faulty hand-backs: the freed child stays in _tile_set; every child is   *)
(* freed, whatever its counter.                                            *)
HandBack_NoErase(c) ==
  IF finishedQ[c] = <<>>
    THEN UNCHANGED <<done, counter, ready, waiting>>
    ELSE LET t == Head(finishedQ[c])
         IN /\ done' = done \cup {t}
            /\ counter' = [x \in Tiles |-> IF x \in Children[t]
                                             THEN counter[x] - 1 ELSE counter[x]]
            /\ ready' = ready \cup {x \in Children[t] : counter[x] = 1}
            /\ UNCHANGED waiting

HandBack_FreesAll(c) ==
  IF finishedQ[c] = <<>>
    THEN UNCHANGED <<done, counter, ready, waiting>>
    ELSE LET t == Head(finishedQ[c])
         IN /\ done' = done \cup {t}
            /\ ready' = ready \cup (Children[t] \cap waiting)
            /\ waiting' = waiting \ Children[t]
            /\ UNCHANGED counter

(* Core::pop_finished_tile, then TileSubGraph::finish_tile: each child     *)
(* loses one from its ready counter and is ready to issue at zero.         *)
HandBack(c) ==
  IF finishedQ[c] = <<>>
    THEN UNCHANGED <<done, counter, ready, waiting>>
    ELSE LET t == Head(finishedQ[c])
             freed == {x \in Children[t] : counter[x] = 1}
         IN /\ done' = done \cup {t}
            /\ counter' = [x \in Tiles |-> IF x \in Children[t]
                                             THEN counter[x] - 1 ELSE counter[x]]
            /\ ready' = ready \cup freed
            /\ waiting' = waiting \ freed

PopFinished(c) == IF finishedQ[c] = <<>> THEN <<>> ELSE Tail(finishedQ[c])

(* Core::cycle as seen from here: at most one tile finishes.               *)
CoreCycleIdle ==
  /\ InCoreLoop
  /\ HandBack(cur)
  /\ finishedQ' = [finishedQ EXCEPT ![cur] = PopFinished(cur)]
  /\ EndOfCore
  /\ UNCHANGED <<mode, launched, queue, pending, alloc, onCore>>

CoreCycleFinishes(t) ==
  /\ InCoreLoop
  /\ t \in onCore[cur]
  /\ HandBack(cur)
  /\ onCore' = [onCore EXCEPT ![cur] = @ \ {t}]
  /\ finishedQ' = [finishedQ EXCEPT ![cur] = Append(PopFinished(cur), t)]
  /\ EndOfCore
  /\ UNCHANGED <<mode, launched, queue, pending, alloc>>
-----------------------------------------------------------------------------
Next ==
  \/ \E k \in Kernels : Launch(k)
  \/ Sync
  \/ Iterate
  \/ SyncReturns
  \/ PeekNothing
  \/ PeekAllocates
  \/ PeekCannotIssue
  \/ \E t \in Tiles : IssueTile(t)
  \/ CoreCycleIdle
  \/ \E t \in Tiles : CoreCycleFinishes(t)

(* The loop never stops by itself: weak fairness of the steps inside       *)
(* Simulator::cycle.  A core finishes every tile it was given if it is     *)
(* cycled often enough: strong fairness per tile, what NpuCore shows.      *)
CycleStep == mode = "cycling" /\ Next

Fairness ==
  /\ WF_vars(CycleStep)
  /\ \A t \in Tiles : SF_vars(CoreCycleFinishes(t))

Spec == Init /\ [][Next]_vars
FairSpec == Spec /\ Fairness
-----------------------------------------------------------------------------
TypeOK ==
  /\ mode \in {"reading", "cycling"}
  /\ launched \subseteq Kernels
  /\ queue \in [Partitions -> Seq(Kernels)]
  /\ pending \in [Kernels -> SUBSET Subs]
  /\ alloc \in [Kernels -> [Cores -> [Slots -> Subs \cup {NoSub}]]]
  /\ ready \subseteq Tiles
  /\ waiting \subseteq Tiles
  /\ counter \in [Tiles -> Nat]
  /\ onCore \in [Cores -> SUBSET Tiles]
  /\ finishedQ \in [Cores -> Seq(Tiles)]
  /\ done \subseteq Tiles
  /\ clock \in Nat
  /\ phase \in {"check", "slots", "cores"}
  /\ iter \in Slots
  /\ cur \in Cores

(* A tile is never on two cores, never issued again while it is ready,     *)
(* running or finished: a shared_ptr left behind in _ready_tile_queue or   *)
(* _tile_set (TileSubGraph::get_tile, finish_tile) would run it twice.     *)
TileInOnePlace ==
  /\ ready \cap waiting = {}
  /\ (ready \cup waiting) \cap executed = {}
  /\ \A c \in Cores :
       /\ onCore[c] \cap (ready \cup waiting \cup executed) = {}
       /\ FinishedOnCore(c) \cap done = {}
       /\ \A d \in Cores \ {c} :
            (onCore[c] \cup FinishedOnCore(c)) \cap (onCore[d] \cup FinishedOnCore(d)) = {}

(* A tile is on a core only after every tile it depends on has finished    *)
(* there and been handed back through TileSubGraph::finish_tile.           *)
ParentsFirst ==
  \A c \in Cores : \A t \in onCore[c] : Parents(t) \subseteq done

(* A tile's ready counter is the number of its parents still to finish, so *)
(* Tile::dec_ready_counter never finds it at zero and the child becomes    *)
(* ready exactly once.                                                     *)
CounterIsOpenParents ==
  \A t \in Tiles : counter[t] = Cardinality(Parents(t) \ done)

(* Kernels of a partition are issued in the order they were launched: no   *)
(* tile is on a core while a kernel ahead of its own still has a tile to   *)
(* issue (Scheduler looks at _tile_graph.at(0) only).                      *)
KernelOrder ==
  \A p \in Partitions : \A i \in 2 .. Len(queue[p]) :
    KernelTiles(queue[p][i]) \cap begun = {}

(* DEVICE_SYNC is a barrier: when Simulator::cycle returns, every tile of  *)
(* every kernel launched before it has been executed (main.cc logs         *)
(* "Device synchronization completed").                                    *)
AllExecuted == \A k \in launched : KernelTiles(k) \subseteq executed
SyncIsBarrier == [][mode = "cycling" /\ mode' = "reading" => AllExecuted]_vars

(* A tile waits exactly while a parent is open, nothing of a kernel moves  *)
(* before it is launched, and a core has at most one tile to give back.    *)
StageMatchesCounter ==
  /\ \A t \in waiting : counter[t] # 0
  /\ \A t \in Tiles \ waiting :
       KernelOf[SubOf[t]] \in launched => counter[t] = 0
  /\ \A t \in ready \cup waiting : KernelOf[SubOf[t]] \in launched
  /\ \A c \in Cores :
       /\ \A t \in onCore[c] : KernelOf[SubOf[t]] \in launched
       /\ finishedQ[c] # <<>> => \E t \in Tiles : finishedQ[c] = <<t>>
       /\ \A t \in FinishedOnCore(c) : KernelOf[SubOf[t]] \in launched
  /\ \A t \in done : KernelOf[SubOf[t]] \in launched

(* The inductive invariant of KernelSchedulerProofs.                       *)
IInv == TypeOK /\ TileInOnePlace /\ CounterIsOpenParents /\ StageMatchesCounter

(* What KernelOrder and SyncIsBarrier rest on.  A kernel is in one place of *)
(* the queue of its partition; a subgraph is pending, then in the slot of a *)
(* core of that partition for as long as it has a tile to issue; a tile of  *)
(* a launched kernel never disappears.                                      *)
Queue(p) == {queue[p][i] : i \in 1 .. Len(queue[p])}

QueuedOnce ==
  \A p \in Partitions : \A i \in 1 .. Len(queue[p]) :
    /\ queue[p][i] \in launched /\ KernelPart[queue[p][i]] = p
    /\ \A j \in 1 .. Len(queue[p]) : queue[p][i] = queue[p][j] => i = j

SlotsHoldOwn ==
  \A k \in Kernels, c \in Cores, l \in Slots : alloc[k][c][l] # NoSub =>
    /\ KernelOf[alloc[k][c][l]] = k /\ alloc[k][c][l] \notin pending[k]
    /\ PartitionOf[c] = KernelPart[k]

PendingUnissued ==
  /\ \A k \in Kernels : \A s \in pending[k] : KernelOf[s] = k
  /\ \A k \in Kernels \ launched : \A s \in Subs : KernelOf[s] = k => s \in pending[k]
  /\ \A k \in launched : \A s \in pending[k] : TilesOf(s) \subseteq Unissued

NoTileLost ==
  /\ \A t \in Tiles : KernelOf[SubOf[t]] \in launched =>
       t \in Unissued \cup begun
  /\ \A t \in Unissued :
       LET k == KernelOf[SubOf[t]] IN
       /\ k \in Queue(KernelPart[k])
       /\ \/ SubOf[t] \in pending[k]
          \/ \E c \in Cores, l \in Slots : alloc[k][c][l] = SubOf[t]

(* The head of a queue has a tile to issue.  refresh_status pops one kernel *)
(* at a time, when a tile is issued: it holds unless some kernel is null.   *)
NoNullKernel ==
  /\ \A k \in Kernels : \E s \in Subs : KernelOf[s] = k
  /\ \A s \in Subs : TilesOf(s) # {}
  /\ \A k \in Kernels : \E c \in Cores : PartitionOf[c] = KernelPart[k]

HeadUnissued ==
  \A p \in Partitions : queue[p] # <<>> => KernelTiles(Head(queue[p])) \cap Unissued # {}

OrderInv ==
  /\ QueuedOnce /\ SlotsHoldOwn /\ PendingUnissued /\ NoTileLost /\ KernelOrder
  /\ NoNullKernel => HeadUnissued

(* Every synchronisation returns, whatever the shape of the kernels: the   *)
(* low core ids' priority and the head-of-line arrival test delay a tile   *)
(* but cannot starve it.                                                   *)
SyncTerminates == (mode = "cycling") ~> (mode = "reading")
=============================================================================
