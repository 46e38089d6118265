------------------------------- MODULE NpuCore -------------------------------
(***************************************************************************)
(* One core of TOGSim (class Core) with its DMA engine and its tag table.  *)
(* Tiles arrive with their instruction graph; every Core::cycle finishes   *)
(* compute instructions, moves the DMA on, issues one instruction and      *)
(* removes one finished tile.  The rest of the machine is the path of the  *)
(* memory requests: core, interconnect, cache port, memory, and back.      *)
(*                                                                         *)
(* pc says how far Core::cycle has come; "idle" is the time between two    *)
(* core cycles, when tiles are issued and the interconnect runs.           *)
(***************************************************************************)
EXTENDS Naturals, Sequences, FiniteSets

CONSTANTS
  Tiles,
  TileSucc,   (* Tile::_child_tiles                                        *)
  Capacity,   (* tiles a core takes before can_issue says no: 4            *)
  Insts,      (* all instructions of all tiles                             *)
  TileOf,     (* Instruction::_owner                                       *)
  Succ,       (* Instruction::child_inst                                   *)
  Op,         (* opcode: "MOVIN", "MOVOUT", "COMP" or "BAR"                *)
  Unit,       (* compute type of a COMP: "VU", "MATMUL" or "PRELOAD"       *)
  Async,      (* the MOVINs with _is_async_dma                             *)
  Sparse,     (* the MOVINs with _is_sparse_inst                           *)
  ZeroCycle,  (* the COMPs whose compute_cycle is 0                        *)
  Oracle,     (* transfers timed by the SSD or DRAM simlet, not by Dram    *)
  Tags, Tag,  (* (subgraph, tag key) of a MOVIN or BAR                     *)
  Requests,   (* number of memory requests a transfer is cut into          *)
  Ports,      (* config.icnt_injection_ports_per_core                      *)
  NSA,        (* config.num_systolic_array_per_core                        *)
  NoInst      (* nullptr                                                   *)

Units == 0 .. NSA                   (* 0 is the vector unit *)
Loads == {i \in Insts : Op[i] = "MOVIN"}
Stores == {i \in Insts : Op[i] = "MOVOUT"}
Computes == {i \in Insts : Op[i] = "COMP"}
Barriers == {i \in Insts : Op[i] = "BAR"}
Preds(i) == {p \in Insts : i \in Succ[p]}
InstsOf(t) == {i \in Insts : TileOf[i] = t}
TileParents(t) == {p \in Tiles : t \in TileSucc[p]}

ASSUME CoreAssumption ==
  /\ TileSucc \in [Tiles -> SUBSET Tiles]
  /\ Capacity \in Nat \ {0}
  /\ Ports \in Nat \ {0}
  /\ NSA \in Nat \ {0}
  /\ IsFiniteSet(Insts)
  /\ NoInst \notin Insts
  /\ TileOf \in [Insts -> Tiles]
  /\ Succ \in [Insts -> SUBSET Insts]
  /\ \A i \in Insts : \A j \in Succ[i] : TileOf[j] = TileOf[i]
  /\ Op \in [Insts -> {"MOVIN", "MOVOUT", "COMP", "BAR"}]
  /\ Unit \in [Computes -> {"VU", "MATMUL", "PRELOAD"}]
  /\ Async \subseteq Loads
  /\ Sparse \subseteq Loads
  /\ ZeroCycle \subseteq Computes
  /\ Oracle \subseteq Loads \cup Stores
  /\ Tag \in [Loads \cup Barriers -> Tags]
  /\ Requests \in [Loads \cup Stores -> Nat \ {0}]

(* TileGraphParser gives a tag to one MOVIN of a subgraph, or to several   *)
(* asynchronous ones (check_memory_tag is reset per outer loop), and puts  *)
(* the MOVIN a BAR waits for before the BAR: in its tile, as an ancestor,  *)
(* or in a tile the BAR's tile depends on.                                 *)
Before(i, j) ==
  \/ j \in Succ[i]
  \/ TileOf[j] \in TileSucc[TileOf[i]]

ASSUME TagAssumption ==
  /\ \A i, j \in Loads :
       i # j /\ Tag[i] = Tag[j] => {i, j} \subseteq Async \ Sparse
  /\ \A b \in Barriers : \E i \in Loads \cap (Async \cup Sparse) :
       Tag[i] = Tag[b] /\ Before(i, b)

VARIABLES
  pc,
  tiles,         (* Core::_tiles                                           *)
  finishedTiles, (* Core::_finished_tiles                                  *)
  started,       (* tiles issued to the core so far                        *)
  retired,       (* tiles given back through pop_finished_tile             *)
  ready,         (* the tiles' _ready_queues; the order in them is open    *)
  counter,       (* Instruction::ready_counter                             *)
  finished,      (* Instruction::finished                                  *)
  fault,         (* an error exit, a failed assert or an exception         *)
  pipe,          (* _vu_compute_pipeline and the _sa_compute_pipelines     *)
  rr,            (* _systolic_array_rr                                     *)
  zero,          (* the COMPs whose compute_cycle is 0 now                 *)
  ldQ, stQ,      (* _ld_inst_queue, _st_inst_queue                         *)
  cur,           (* DMA::_current_inst                                     *)
  dmaFinished,   (* DMA::_finished                                         *)
  generated,     (* DMA::_generated_once                                   *)
  pend,          (* length of DMA::_pending_accesses                       *)
  ssd,           (* DMA::_ssd_pending                                      *)
  waitQ,         (* _dma_waiting_queue                                     *)
  doneQ,         (* _dma_finished_queue                                    *)
  wake,          (* waiters of a tag still to be finished in this drain    *)
  tag,           (* DMA::tag_table: 0 is "loading", -1 is "sparse"         *)
  waiters,       (* DMA::waiters                                           *)
  waiting,       (* Instruction::_nr_waiting_request                       *)
  reqQ,          (* _request_queue: requests of each instruction           *)
  net,           (* requests on their way to the cache port                *)
  mem            (* requests past the cache port                           *)

tileVars == <<tiles, finishedTiles, started, retired>>
instVars == <<ready, counter, finished, fault>>
pipeVars == <<pipe, rr, zero>>
dmaVars == <<ldQ, stQ, cur, dmaFinished, generated, pend, ssd>>
doneVars == <<waitQ, doneQ, wake>>
tagVars == <<tag, waiters>>
memVars == <<waiting, reqQ, net, mem>>
vars == <<pc, tileVars, instVars, pipeVars, dmaVars, doneVars, tagVars, memVars>>

Elems(q) == {q[k] : k \in 1 .. Len(q)}
-----------------------------------------------------------------------------
Init ==
  /\ pc = "idle"
  /\ tiles = <<>> /\ finishedTiles = <<>> /\ started = {} /\ retired = {}
  /\ ready = {} /\ finished = {} /\ fault = FALSE
  /\ counter = [i \in Insts |-> Cardinality(Preds(i))]
  /\ pipe = [u \in Units |-> <<>>] /\ rr = 0 /\ zero = ZeroCycle
  /\ ldQ = <<>> /\ stQ = <<>> /\ cur = NoInst
  /\ dmaFinished = TRUE /\ generated = FALSE /\ pend = 0 /\ ssd = FALSE
  /\ waitQ = {} /\ doneQ = <<>> /\ wake = {}
  /\ tag = [k \in Tags |-> "absent"]
  /\ waiters = [k \in Tags |-> {}]
  /\ waiting = [i \in Loads \cup Stores |-> 0]
  /\ reqQ = waiting /\ net = waiting /\ mem = waiting

(* Instruction::dec_ready_counter, of each child: the owner's ready queue  *)
(* gets the child at zero, and a counter that is zero already is asserted. *)
dec_ready_counter(js) ==
  /\ fault' = (fault \/ \E j \in js : counter[j] = 0)
  /\ counter' = [j \in Insts |-> IF j \in js /\ counter[j] # 0 THEN counter[j] - 1
                                                                ELSE counter[j]]

Released(js) == {j \in js : counter[j] = 1}

(* A faulty finish that releases children still waiting for others. *)
Finish_ReleasesAll(i) ==
  IF i \in finished
    THEN fault' = TRUE /\ UNCHANGED <<ready, counter, finished>>
    ELSE /\ finished' = finished \cup {i}
         /\ ready' = (ready \ {i}) \cup Succ[i]
         /\ UNCHANGED <<counter, fault>>

(* An error exit, an assertion that fails or an exception.                 *)
Fault == fault' = TRUE /\ UNCHANGED <<ready, counter, finished>>

(* Instruction::finish_instruction, with the erasing of the instruction    *)
(* from the ready queue by the issue loop.                                 *)
finish_instruction(i) ==
  /\ finished' = finished \cup {i}
  /\ dec_ready_counter(Succ[i])
  /\ ready' = (ready \ {i}) \cup Released(Succ[i])

(* Core::finish_instruction: exits if the instruction is finished already. *)
Finish(i) == IF i \in finished THEN Fault ELSE finish_instruction(i)
-----------------------------------------------------------------------------
(* The tag table of the DMA engine.  A tag that is not in it is "absent".  *)

(* A faulty load that does not enter its tag. *)
register_tag_Skip(k, value) == UNCHANGED tagVars

register_tag(k, value) ==
  /\ tag' = [tag EXCEPT ![k] = value]
  /\ waiters' = [waiters EXCEPT ![k] = {}]

tag_key_exist(k) == tag[k] # "absent"

set_tag_finish(k) == tag' = [tag EXCEPT ![k] = "loaded"]

(* The instruction leaves the ready queue and is finished with the tag.    *)
register_tag_waiter(k, i) ==
  /\ waiters' = [waiters EXCEPT ![k] = @ \cup {i}]
  /\ ready' = ready \ {i}
  /\ UNCHANGED <<counter, finished, fault>>

get_tag_waiter(k) == waiters[k]

(* mark_tag_used throws for a tag that is absent or not loaded yet.  The   *)
(* count it keeps in the table is never read.                              *)
FinishUser(k, i) == IF tag[k] \in {"absent", "loading"} THEN Fault ELSE Finish(i)
-----------------------------------------------------------------------------
(* The simulator issues a tile (KernelScheduler): Core::issue queues the   *)
(* instructions that wait for nothing.                                     *)
can_issue == Len(tiles) < Capacity

StartTile(t) ==
  /\ pc = "idle"
  /\ t \notin started
  /\ TileParents(t) \subseteq retired
  /\ can_issue
  /\ started' = started \cup {t}
  /\ tiles' = Append(tiles, t)
  /\ ready' = ready \cup {i \in InstsOf(t) : counter[i] = 0}
  /\ UNCHANGED <<pc, finishedTiles, retired, counter, finished, fault, pipeVars,
                 dmaVars, doneVars, tagVars, memVars>>

(* Simulator::core_cycle takes a finished tile back, then calls cycle.     *)
BeginCycle ==
  /\ pc = "idle"
  /\ pc' = "compute"
  /\ IF finishedTiles = <<>>
       THEN UNCHANGED <<finishedTiles, retired>>
       ELSE /\ retired' = retired \cup {Head(finishedTiles)}
            /\ finishedTiles' = Tail(finishedTiles)
  /\ UNCHANGED <<tiles, started, instVars, pipeVars, dmaVars, doneVars, tagVars,
                 memVars>>

(* compute_cycle: heads of the pipelines whose finish_cycle has come.      *)
PipeFinishes(u) ==
  /\ pc = "compute"
  /\ pipe[u] # <<>>
  /\ Finish(Head(pipe[u]))
  /\ pipe' = [pipe EXCEPT ![u] = Tail(@)]
  /\ UNCHANGED <<pc, tileVars, rr, zero, dmaVars, doneVars, tagVars, memVars>>

ComputeDone ==
  /\ pc = "compute"
  /\ pc' = "oracle"
  /\ UNCHANGED <<tileVars, instVars, pipeVars, dmaVars, doneVars, tagVars, memVars>>
-----------------------------------------------------------------------------
(* dma_cycle, first part: update_ssd and take_ssd_finished.  A write is    *)
(* finished here, a read goes through the finished queue.                  *)
OracleAnswers ==
  /\ pc = "oracle"
  /\ ssd
  /\ ssd' = FALSE
  /\ dmaFinished' = TRUE
  /\ generated' = FALSE
  /\ cur' = NoInst
  /\ IF cur \in Stores \cup Async THEN Finish(cur) ELSE UNCHANGED instVars
  /\ doneQ' = IF cur \in Stores THEN doneQ ELSE Append(doneQ, cur)
  /\ pc' = "drain"
  /\ UNCHANGED <<tileVars, pipeVars, ldQ, stQ, pend, waitQ, wake, tagVars, memVars>>

OracleSilent ==
  /\ pc = "oracle"
  /\ pc' = "drain"
  /\ UNCHANGED <<tileVars, instVars, pipeVars, dmaVars, doneVars, tagVars, memVars>>

(* The loop over _dma_finished_queue.  A load finishes when its last       *)
(* response is in; for an asynchronous one, which finished when its last   *)
(* request left, the tag is set and its waiters are finished, one by one.  *)
DrainSync ==
  /\ pc = "drain" /\ doneQ # <<>> /\ Head(doneQ) \notin Async
  /\ IF Head(doneQ) \in Loads THEN Finish(Head(doneQ)) ELSE UNCHANGED instVars
  /\ doneQ' = Tail(doneQ)
  /\ UNCHANGED <<pc, tileVars, pipeVars, dmaVars, waitQ, wake, tagVars, memVars>>

(* A faulty drain that sets the tag and forgets who waits for it. *)
DrainAsync_NoWake ==
  /\ pc = "drain" /\ doneQ # <<>> /\ Head(doneQ) \in Async
  /\ tag' = [tag EXCEPT ![Tag[Head(doneQ)]] = "loaded"]
  /\ wake' = {}
  /\ pc' = "wake"
  /\ UNCHANGED <<tileVars, instVars, pipeVars, dmaVars, waitQ, doneQ, waiters,
                 memVars>>

DrainAsync ==
  /\ pc = "drain" /\ doneQ # <<>> /\ Head(doneQ) \in Async
  /\ LET i == Head(doneQ) IN
       /\ fault' = (fault \/ tag[Tag[i]] # "loading" \/ i \notin finished)
       /\ set_tag_finish(Tag[i])
       /\ wake' = get_tag_waiter(Tag[i])
  /\ pc' = "wake"
  /\ UNCHANGED <<tileVars, ready, counter, finished, pipeVars, dmaVars, waitQ,
                 doneQ, waiters, memVars>>

Wake(i) ==
  /\ pc = "wake"
  /\ i \in wake
  /\ FinishUser(Tag[i], i)
  /\ wake' = wake \ {i}
  /\ UNCHANGED <<pc, tileVars, pipeVars, dmaVars, waitQ, doneQ, tagVars, memVars>>

WakeDone ==
  /\ pc = "wake"
  /\ wake = {}
  /\ doneQ' = Tail(doneQ)
  /\ pc' = "drain"
  /\ UNCHANGED <<tileVars, instVars, pipeVars, dmaVars, waitQ, wake, tagVars, memVars>>

DrainDone ==
  /\ pc = "drain" /\ doneQ = <<>>
  /\ pc' = "dma"
  /\ UNCHANGED <<tileVars, instVars, pipeVars, dmaVars, doneVars, tagVars, memVars>>

(* A faulty hand-over that treats a posted store as done. *)
DmaHandsOver_DropsStore ==
  /\ pc = "dma"
  /\ dmaFinished /\ cur # NoInst
  /\ IF cur \in Stores \cup Async THEN Finish(cur) ELSE UNCHANGED instVars
  /\ waitQ' = IF cur \in Stores THEN waitQ ELSE waitQ \cup {cur}
  /\ cur' = NoInst
  /\ UNCHANGED <<pc, tileVars, pipeVars, ldQ, stQ, dmaFinished, generated, pend,
                 ssd, doneQ, wake, tagVars, memVars>>

(* All requests of the current transfer have left: a store and an          *)
(* asynchronous load are finished, and the transfer waits for responses.   *)
DmaHandsOver ==
  /\ pc = "dma"
  /\ dmaFinished /\ cur # NoInst
  /\ IF cur \in Stores \cup Async THEN Finish(cur) ELSE UNCHANGED instVars
  /\ waitQ' = waitQ \cup {cur}
  /\ cur' = NoInst
  /\ UNCHANGED <<pc, tileVars, pipeVars, ldQ, stQ, dmaFinished, generated, pend,
                 ssd, doneQ, wake, tagVars, memVars>>

(* DMA::issue_tile of the next transfer, loads first. *)
DmaStarts ==
  /\ pc = "dma"
  /\ dmaFinished /\ cur = NoInst
  /\ \/ /\ ldQ # <<>>
        /\ cur' = Head(ldQ)
        /\ ldQ' = Tail(ldQ)
        /\ UNCHANGED stQ
     \/ /\ ldQ = <<>>
        /\ stQ # <<>>
        /\ cur' = Head(stQ)
        /\ stQ' = Tail(stQ)
        /\ UNCHANGED ldQ
  /\ dmaFinished' = FALSE
  /\ ssd' = FALSE
  /\ pc' = "generate"
  /\ UNCHANGED <<tileVars, instVars, pipeVars, generated, pend, doneVars, tagVars,
                 memVars>>

DmaIdle ==
  /\ pc = "dma"
  /\ dmaFinished /\ cur = NoInst /\ ldQ = <<>> /\ stQ = <<>>
  /\ pc' = "issue"
  /\ UNCHANGED <<tileVars, instVars, pipeVars, dmaVars, doneVars, tagVars, memVars>>

DmaGoesOn ==
  /\ pc = "dma"
  /\ ~dmaFinished
  /\ pc' = "generate"
  /\ UNCHANGED <<tileVars, instVars, pipeVars, dmaVars, doneVars, tagVars, memVars>>

(* DMA::get_memory_access: the transfer is timed by a simlet, or cut into  *)
(* requests on the first call and up to Ports of them sent on every call.  *)
WaitsForOracle ==
  /\ pc = "generate"
  /\ ssd \/ (~generated /\ cur \in Oracle)
  /\ ssd' = TRUE
  /\ pc' = "issue"
  /\ UNCHANGED <<tileVars, instVars, pipeVars, ldQ, stQ, cur, dmaFinished,
                 generated, pend, doneVars, tagVars, memVars>>

inc_waiting_request(i, n) == waiting' = [waiting EXCEPT ![i] = @ + n]

GenerateRequests ==
  /\ pc = "generate"
  /\ ~ssd
  /\ generated \/ cur \notin Oracle
  /\ LET left == IF generated THEN pend ELSE Requests[cur]
         sent == IF left < Ports THEN left ELSE Ports
     IN /\ IF generated THEN UNCHANGED waiting
                        ELSE inc_waiting_request(cur, Requests[cur])
        /\ reqQ' = [reqQ EXCEPT ![cur] = @ + sent]
        /\ pend' = left - sent
        /\ dmaFinished' = (left = sent)
        /\ generated' = (left # sent)
  /\ pc' = "issue"
  /\ UNCHANGED <<tileVars, instVars, pipeVars, ldQ, stQ, cur, ssd, doneVars,
                 tagVars, net, mem>>
-----------------------------------------------------------------------------
(* The issue loop of Core::cycle takes the first instruction of the first  *)
(* tile, in the order of _tiles, that has a ready one.                     *)
FirstReady(i) ==
  /\ pc = "issue"
  /\ i \in ready
  /\ \E k \in 1 .. Len(tiles) :
       /\ tiles[k] = TileOf[i]
       /\ \A m \in 1 .. k - 1 : InstsOf(tiles[m]) \cap ready = {}

(* After an instruction is issued no tile is removed in this cycle. *)
Issued == pc' = "cache"

IssueSparseLoad(i) ==
  /\ FirstReady(i)
  /\ i \in Sparse
  /\ register_tag(Tag[i], "sparse")
  /\ Finish(i)
  /\ Issued
  /\ UNCHANGED <<tileVars, pipeVars, dmaVars, doneVars, memVars>>

(* An asynchronous load whose tag is known is skipped: it is finished at   *)
(* once or waits for the load that is under way.                           *)
SkipLoad(i) ==
  /\ FirstReady(i)
  /\ i \in Async \ Sparse
  /\ tag_key_exist(Tag[i])
  /\ IF tag[Tag[i]] = "loading"
       THEN register_tag_waiter(Tag[i], i)
       ELSE Finish(i) /\ UNCHANGED waiters
  /\ Issued
  /\ UNCHANGED <<tileVars, pipeVars, dmaVars, doneVars, tag, memVars>>

IssueLoad(i) ==
  /\ FirstReady(i)
  /\ i \in Loads \ Sparse
  /\ ~(i \in Async /\ tag_key_exist(Tag[i]))
  /\ register_tag(Tag[i], "loading")
  /\ ldQ' = Append(ldQ, i)
  /\ ready' = ready \ {i}
  /\ Issued
  /\ UNCHANGED <<tileVars, counter, finished, fault, pipeVars, stQ, cur,
                 dmaFinished, generated, pend, ssd, doneVars, memVars>>

IssueStore(i) ==
  /\ FirstReady(i)
  /\ i \in Stores
  /\ stQ' = Append(stQ, i)
  /\ ready' = ready \ {i}
  /\ Issued
  /\ UNCHANGED <<tileVars, counter, finished, fault, pipeVars, ldQ, cur,
                 dmaFinished, generated, pend, ssd, doneVars, tagVars, memVars>>

(* get_compute_pipeline: systolic arrays take turns. *)
TargetPipe(i) == IF Unit[i] = "VU" THEN 0 ELSE rr + 1
TakeTurn(i) == rr' = IF Unit[i] = "VU" THEN rr ELSE (rr + 1) % NSA

IssueCompute(i) ==
  /\ FirstReady(i)
  /\ i \in Computes \ zero
  /\ pipe' = [pipe EXCEPT ![TargetPipe(i)] = Append(@, i)]
  /\ TakeTurn(i)
  /\ ready' = ready \ {i}
  /\ Issued
  /\ UNCHANGED <<tileVars, counter, finished, fault, zero, dmaVars, doneVars,
                 tagVars, memVars>>

(* A compute of zero cycles is finished on the spot and the loop goes on.  *)
SkipCompute(i) ==
  /\ FirstReady(i)
  /\ i \in zero
  /\ Finish(i)
  /\ TakeTurn(i)
  /\ UNCHANGED <<pc, tileVars, pipe, zero, dmaVars, doneVars, tagVars, memVars>>

(* A faulty barrier that takes an entry in the table for the data. *)
IssueBarrier_NoWait(i) ==
  /\ FirstReady(i)
  /\ i \in Barriers
  /\ Finish(i)
  /\ Issued
  /\ UNCHANGED <<tileVars, pipeVars, dmaVars, doneVars, tagVars, memVars>>

(* BAR: get_tag_finish throws on an unknown tag; a sparse tag makes the    *)
(* matrix products that wait for it free.                                  *)
MakeFree(i) == zero' = zero \cup {j \in Succ[i] \cap Computes : Unit[j] = "MATMUL"}

IssueBarrier(i) ==
  /\ FirstReady(i)
  /\ i \in Barriers
  /\ CASE tag[Tag[i]] = "loading" -> register_tag_waiter(Tag[i], i) /\ UNCHANGED zero
       [] tag[Tag[i]] = "sparse" -> Finish(i) /\ MakeFree(i) /\ UNCHANGED waiters
       [] OTHER -> FinishUser(Tag[i], i) /\ UNCHANGED <<zero, waiters>>
  /\ Issued
  /\ UNCHANGED <<tileVars, pipe, rr, dmaVars, doneVars, tag, memVars>>

(* Nothing issued: the first tile whose instructions have all finished     *)
(* leaves the core.                                                        *)
AllFinished(t) == InstsOf(t) \subseteq finished

RetireTile ==
  /\ pc = "issue"
  /\ \A k \in 1 .. Len(tiles) : InstsOf(tiles[k]) \cap ready = {}
  /\ pc' = "cache"
  /\ \/ /\ \A k \in 1 .. Len(tiles) : ~AllFinished(tiles[k])
        /\ UNCHANGED <<tiles, finishedTiles>>
     \/ \E k \in 1 .. Len(tiles) :
          /\ AllFinished(tiles[k])
          /\ \A m \in 1 .. k - 1 : ~AllFinished(tiles[m])
          /\ finishedTiles' = Append(finishedTiles, tiles[k])
          /\ tiles' = SubSeq(tiles, 1, k - 1) \o SubSeq(tiles, k + 1, Len(tiles))
  /\ UNCHANGED <<started, retired, instVars, pipeVars, dmaVars, doneVars, tagVars,
                 memVars>>
-----------------------------------------------------------------------------
(* The memory path as the core sees it.  The interconnect takes requests   *)
(* between core cycles; the cache port is cycled after the cores, in the   *)
(* same core_cycle; responses arrive between core cycles, in any order.    *)
pop_memory_request(i) == reqQ[i] > 0 /\ reqQ' = [reqQ EXCEPT ![i] = @ - 1]

Inject(i) ==
  /\ pc = "idle"
  /\ pop_memory_request(i)
  /\ net' = [net EXCEPT ![i] = @ + 1]
  /\ UNCHANGED <<pc, tileVars, instVars, pipeVars, dmaVars, doneVars, tagVars,
                 waiting, mem>>

(* A cache port clocked on its own, between core cycles. *)
CachePasses_AnyTime(i) ==
  /\ net[i] > 0
  /\ net' = [net EXCEPT ![i] = @ - 1]
  /\ mem' = [mem EXCEPT ![i] = @ + 1]
  /\ UNCHANGED <<pc, tileVars, instVars, pipeVars, dmaVars, doneVars, tagVars,
                 waiting, reqQ>>

CachePasses(i) ==
  /\ pc = "cache"
  /\ net[i] > 0
  /\ net' = [net EXCEPT ![i] = @ - 1]
  /\ mem' = [mem EXCEPT ![i] = @ + 1]
  /\ UNCHANGED <<pc, tileVars, instVars, pipeVars, dmaVars, doneVars, tagVars,
                 waiting, reqQ>>

EndCycle ==
  /\ pc = "cache"
  /\ pc' = "idle"
  /\ UNCHANGED <<tileVars, instVars, pipeVars, dmaVars, doneVars, tagVars, memVars>>

(* Asserts that the instruction waits for a response. *)
dec_waiting_request(i) ==
  /\ fault' = (fault \/ waiting[i] = 0)
  /\ waiting' = [waiting EXCEPT ![i] = IF @ = 0 THEN 0 ELSE @ - 1]

(* push_memory_response: the last response moves the transfer on, if it    *)
(* is in the waiting queue.                                                *)
push_memory_response(i) ==
  /\ pc = "idle"
  /\ mem[i] > 0
  /\ mem' = [mem EXCEPT ![i] = @ - 1]
  /\ dec_waiting_request(i)
  /\ IF waiting[i] = 1 /\ i \in waitQ
       THEN waitQ' = waitQ \ {i} /\ doneQ' = Append(doneQ, i)
       ELSE UNCHANGED <<waitQ, doneQ>>
  /\ UNCHANGED <<pc, tileVars, ready, counter, finished, pipeVars, dmaVars, wake,
                 tagVars, reqQ, net>>
-----------------------------------------------------------------------------
Issue(i) ==
  \/ IssueSparseLoad(i) \/ SkipLoad(i) \/ IssueLoad(i) \/ IssueStore(i)
  \/ IssueCompute(i) \/ SkipCompute(i) \/ IssueBarrier(i)

SomePipeFinishes == \E u \in Units : PipeFinishes(u)
SomeRequestInjected == \E i \in Loads \cup Stores : Inject(i)
SomeRequestPasses == \E i \in Loads \cup Stores : CachePasses(i)
SomeResponse == \E i \in Loads \cup Stores : push_memory_response(i)
SomeTileStarts == \E t \in Tiles : StartTile(t)

Next ==
  \/ SomeTileStarts \/ BeginCycle \/ SomePipeFinishes \/ ComputeDone
  \/ OracleAnswers \/ OracleSilent \/ DrainSync \/ DrainAsync
  \/ \E i \in Insts : Wake(i)
  \/ WakeDone \/ DrainDone \/ DmaHandsOver \/ DmaStarts \/ DmaIdle \/ DmaGoesOn
  \/ WaitsForOracle \/ GenerateRequests
  \/ \E i \in Insts : Issue(i)
  \/ RetireTile \/ SomeRequestInjected \/ SomeRequestPasses \/ EndCycle
  \/ SomeResponse

(* Simulator::cycle keeps cycling; a pipeline head reaches its finish      *)
(* cycle, a simlet's latency is finite, and the memory system moves every  *)
(* request on if it is cycled long enough.                                 *)
Fairness ==
  /\ WF_vars(Next /\ pc' # pc)
  /\ SF_vars(SomeTileStarts)
  /\ SF_vars(SomePipeFinishes)
  /\ SF_vars(OracleAnswers)
  /\ WF_vars(DrainSync) /\ WF_vars(DmaHandsOver)
  /\ WF_vars(\E i \in Insts : Wake(i) \/ SkipCompute(i))
  /\ SF_vars(SomeRequestInjected)
  /\ SF_vars(SomeRequestPasses)
  /\ SF_vars(SomeResponse)

Spec == Init /\ [][Next]_vars
FairSpec == Spec /\ Fairness
-----------------------------------------------------------------------------
(* None of the error exits, asserts and exceptions of Core and DMA can be  *)
(* reached: no instruction is finished twice, no barrier or response finds *)
(* its tag missing, no response completes a load that was not issued.      *)
NoFault == ~fault

(* The last response of a transfer always finds it in _dma_waiting_queue;  *)
(* otherwise push_memory_response would drop it ("Can't happend") and the  *)
(* core would wait for ever.  A request leaves one cycle before its        *)
(* transfer reaches the waiting queue, so this rests on the cache port     *)
(* being cycled after the cores, in the same clock domain.                 *)
NoLostCompletion == \A i \in waitQ : waiting[i] > 0

(* A compute instruction starts only when the data it waits for are in the *)
(* scratchpad: no load with the tag of a barrier before it, and no         *)
(* synchronous load before it, still has a response to come.               *)
Fetching(i) == i \in Elems(ldQ) \/ i = cur \/ waiting[i] > 0

InPipe(c) == \E u \in Units : c \in Elems(pipe[u])

DataBeforeCompute ==
  \A c \in Computes : InPipe(c) \/ c \in finished =>
    /\ \A b \in Preds(c) \cap Barriers :
         /\ tag[Tag[b]] \in {"loaded", "sparse"}
         /\ \A i \in Loads : Tag[i] = Tag[b] => ~Fetching(i)
    /\ \A i \in (Preds(c) \cap Loads) \ (Async \cup Sparse) : ~Fetching(i)

(* Core::running: no request, not even the acknowledgement of a store, is  *)
(* under way when the core says it is idle, so DEVICE_SYNC waits for it.   *)
running ==
  \/ tiles # <<>> \/ waitQ # {} \/ doneQ # <<>> \/ cur # NoInst
  \/ ldQ # <<>> \/ stQ # <<>>
  \/ \E u \in Units : pipe[u] # <<>>

IdleMeansDrained ==
  ~running => \A i \in Loads \cup Stores : waiting[i] = 0

(* The core executes the instruction graph: one instruction at a time is   *)
(* finished, each once, and after all it depends on.                       *)
Dag == INSTANCE DagExecution WITH Nodes <- Insts, completed <- finished
ExecutesGraph == Dag!DagSpec

(* The inductive invariant of NpuCoreProofs.  Moving: instructions of the  *)
(* DMA engine with requests still to send; Landing: all requests are sent; *)
(* Piped: in a pipeline; Parked: waiting for a tag that is being loaded.   *)
Moving == Elems(ldQ) \cup Elems(stQ) \cup ({cur} \ {NoInst})
Landing == waitQ \cup Elems(doneQ)
Piped == UNION {Elems(pipe[u]) : u \in Units}
Parked == wake \cup {i \in Async \cup Barriers :
                       tag[Tag[i]] = "loading" /\ i \in waiters[Tag[i]]}

Transfers == (Loads \ Sparse) \cup Stores
NoRepeat(q) == \A m, n \in 1 .. Len(q) : q[m] = q[n] => m = n

TypeOK ==
  /\ pc \in {"idle", "compute", "oracle", "drain", "wake", "dma", "generate",
             "issue", "cache"}
  /\ tiles \in Seq(Tiles) /\ finishedTiles \in Seq(Tiles)
  /\ started \subseteq Tiles /\ retired \subseteq Tiles
  /\ ready \subseteq Insts /\ finished \subseteq Insts /\ fault \in BOOLEAN
  /\ counter \in [Insts -> Nat]
  /\ pipe \in [Units -> Seq(Computes)] /\ rr \in 0 .. NSA - 1 /\ zero \subseteq Computes
  /\ ldQ \in Seq(Loads \ Sparse) /\ stQ \in Seq(Stores)
  /\ cur \in Transfers \cup {NoInst}
  /\ {dmaFinished, generated, ssd} \subseteq BOOLEAN /\ pend \in Nat
  /\ waitQ \subseteq Transfers /\ doneQ \in Seq(Transfers)
  /\ wake \subseteq Async \cup Barriers
  /\ tag \in [Tags -> {"absent", "loading", "sparse", "loaded"}]
  /\ waiters \in [Tags -> SUBSET (Async \cup Barriers)]
  /\ {waiting, reqQ, net, mem} \subseteq [Loads \cup Stores -> Nat]

(* A ready counter counts open predecessors, and it is zero for whatever   *)
(* is ready, under way or finished.                                        *)
CounterInv ==
  /\ \A i \in Insts : counter[i] = Cardinality(Preds(i) \ finished)
  /\ \A i \in ready \cup Moving \cup Piped \cup Parked \cup Landing \cup finished :
       counter[i] = 0 /\ TileOf[i] \in started

(* An instruction is in one place, and finished only once it is in none or *)
(* only its responses are still to come.                                   *)
PlaceInv ==
  /\ (ready \cup Moving \cup Piped \cup Parked) \cap finished = {}
  /\ \A i \in Landing : i \in finished <=> i \in Stores \cup Async
  /\ ready \cap (Moving \cup Piped \cup Parked \cup Landing) = {}
  /\ Moving \cap (Parked \cup Landing) = {}

QueueInv ==
  /\ NoRepeat(ldQ) /\ NoRepeat(stQ) /\ NoRepeat(doneQ)
  /\ cur \notin Elems(ldQ) \cup Elems(stQ)
  /\ waitQ \cap Elems(doneQ) = {}
  /\ \A u \in Units : /\ NoRepeat(pipe[u])
                      /\ \A v \in Units \ {u} : Elems(pipe[u]) \cap Elems(pipe[v]) = {}

(* One load at a time has a tag, which is "loading" until the load is      *)
(* drained and then for good.                                              *)
TagInv ==
  /\ pc = "wake" => /\ doneQ # <<>> /\ Head(doneQ) \in Async
                    /\ tag[Tag[Head(doneQ)]] = "loaded"
  /\ \A i \in (Moving \cup Landing) \cap Loads :
       \/ tag[Tag[i]] = "loading"
       \/ pc = "wake" /\ i = Head(doneQ)
  /\ \A i, j \in (Moving \cup Landing) \cap Loads : Tag[i] = Tag[j] => i = j
  /\ \A i \in wake : pc = "wake" /\ Tag[i] = Tag[Head(doneQ)]
  /\ \A k \in Tags : tag[k] = "loading" => \A i \in waiters[k] : Tag[i] = k
  /\ \A i \in finished \cap Loads : tag[Tag[i]] # "absent"
  /\ \A i \in finished \cap Barriers : tag[Tag[i]] \in {"loaded", "sparse"}

TileInv ==
  /\ \A t \in Elems(finishedTiles) \cup retired : InstsOf(t) \subseteq finished
  /\ \A t \in started : TileParents(t) \subseteq retired

(* A transfer waits for the requests of it that are under way or still to  *)
(* be sent; its last request has not passed the cache port before it is in *)
(* the waiting queue.                                                      *)
DmaInv ==
  /\ ~dmaFinished => cur # NoInst
  /\ dmaFinished => ~generated /\ ~ssd
  /\ generated => pend > 0 /\ ~ssd
  /\ pc = "generate" => ~dmaFinished
  /\ cur # NoInst =>
       IF dmaFinished
         THEN reqQ[cur] > 0 \/ (pc \notin {"issue", "cache"} /\ net[cur] > 0)
         ELSE generated \/ waiting[cur] = 0
  /\ \A i \in Loads \cup Stores :
       /\ waiting[i] = reqQ[i] + net[i] + mem[i]
                         + (IF i = cur /\ generated THEN pend ELSE 0)
       /\ waiting[i] > 0 => i = cur \/ i \in waitQ

IInv ==
  /\ TypeOK /\ CounterInv /\ PlaceInv /\ QueueInv /\ TagInv /\ TileInv /\ DmaInv
  /\ NoFault /\ NoLostCompletion

(* Every tile is eventually given back: no barrier, tag waiter, transfer   *)
(* or pipeline keeps a tile for ever.                                      *)
EveryTileRetires == \A t \in Tiles : <>(t \in retired)
=============================================================================
