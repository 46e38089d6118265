------------------------------ MODULE SparseCore ------------------------------
(***************************************************************************)
(* A STONNE core of TOGSim (class SparseCore) that replays traces: tiles   *)
(* are spread over subcores; each subcore issues the instructions of its   *)
(* first tile in order.  All subcores share one compute pipeline, one      *)
(* queue of transfers and one table that merges requests to an address.    *)
(* A subcore that runs STONNE itself instead of a trace is not modelled.   *)
(*                                                                         *)
(* pc and sub say how far SparseCore::cycle has come; "idle" is the time   *)
(* between two core cycles.                                                *)
(***************************************************************************)
EXTENDS Naturals, Sequences, FiniteSets, SequencesExt

CONSTANTS
  NSub,      (* config.num_stonne_per_core                                 *)
  NPorts,    (* config.num_stonne_port: r_port_nr and w_port_nr            *)
  Tiles,
  Addrs,     (* addresses, aligned to dram_req_size                        *)
  Prog,      (* Tile::_instructions: what each instruction is and touches  *)
  CounterSize, (* values of a size_t                                       *)
  Fresh      (* what the memory of ready_counter holds in new instructions *)

Subs == 0 .. NSub - 1
Opcodes == {"MOVIN", "COMP", "MOVOUT"}
Insts == UNION {{t} \X DOMAIN Prog[t] : t \in Tiles}
Op(i) == Prog[i[1]][i[2]].op
AddrsOf(i) == Prog[i[1]][i[2]].addrs

(* tog_generator chains the nodes of a trace: add_child makes each         *)
(* instruction wait for the one before it.  Instruction(Opcode), which     *)
(* makes them, does not initialise ready_counter: the counting starts at   *)
(* whatever is there.                                                      *)
ASSUME TraceAssumption ==
  /\ NSub \in Nat \ {0} /\ NPorts \in Nat \ {0}
  /\ IsFiniteSet(Addrs)
  /\ Prog \in [Tiles -> Seq([op : Opcodes, addrs : SUBSET Addrs])]
  /\ CounterSize \in Nat \ {0, 1}
  /\ Fresh \subseteq [Insts -> 0 .. CounterSize - 1]

(* A mem_fetch: its address, its direction and whom it calls back.         *)
Keys == Addrs \X {"MOVIN", "MOVOUT"}

VARIABLES
  pc, sub,
  issued,    (* tiles the scheduler has issued to this core                *)
  rr,        (* rr_idx                                                     *)
  busy,      (* coreBusy                                                   *)
  traced,    (* subcores whose traceMode is set                            *)
  tilesAt,   (* percore_tiles                                              *)
  pos,       (* instructions of a tile taken from get_instructions()       *)
  finished,  (* Instruction::finished                                      *)
  pipe,      (* get_compute_pipeline(0)                                    *)
  dmaQ,      (* _dma_finished_queue                                        *)
  waiting,   (* Instruction::_nr_waiting_request                           *)
  table,     (* request_merge_table                                        *)
  reqQ,      (* _request_queue, whose order is open                        *)
  net,       (* requests in the interconnect and the memory                *)
  respQ,     (* _response_queue, whose order is open                       *)
  finishedQ, (* _finished_tiles                                            *)
  given,     (* tiles given back through pop_finished_tile                 *)
  fresh,     (* for each instruction, ready_counter before add_child       *)
  fault      (* "inst already finished", exit; assert(ready_counter!=0)    *)

tileVars == <<issued, rr, busy, traced, tilesAt, finishedQ, given>>
instVars == <<pos, finished, pipe, dmaQ, waiting, fresh, fault>>
memVars == <<table, reqQ, net, respQ>>
vars == <<pc, sub, tileVars, instVars, memVars>>

Init ==
  /\ pc = "idle" /\ sub = 0
  /\ issued = {} /\ rr = 0 /\ traced = {}
  /\ busy = [s \in Subs |-> FALSE]
  /\ tilesAt = [s \in Subs |-> <<>>]
  /\ pos = [t \in Tiles |-> 0]
  /\ finished = {} /\ pipe = <<>> /\ dmaQ = <<>>
  /\ waiting = [i \in Insts |-> 0]
  /\ table = {} /\ reqQ = {} /\ net = {} /\ respQ = {}
  /\ finishedQ = <<>> /\ given = {}
  /\ fresh \in Fresh
  /\ fault = FALSE

can_issue == \E s \in Subs : ~busy[s]

(* The loop looks for an index whose subcore is idle, and takes the        *)
(* round-robin index when it finds one.                                    *)
Selected == rr
NextTurn == (Selected + 1) % NSub

issue(t) ==
  /\ pc = "idle" /\ ~fault /\ t \notin issued
  /\ can_issue
  /\ issued' = issued \cup {t}
  /\ rr' = NextTurn
  /\ busy' = [busy EXCEPT ![Selected] = TRUE]
  /\ traced' = traced \cup {Selected}
  /\ tilesAt' = [tilesAt EXCEPT ![Selected] = Append(@, t)]
  /\ UNCHANGED <<pc, sub, finishedQ, given, instVars, memVars>>

(* Simulator::core_cycle takes one finished tile and calls cycle().        *)
BeginCycle ==
  /\ pc = "idle" /\ pc' = "drain" /\ sub' = 0
  /\ finishedQ' = IF finishedQ = <<>> THEN <<>> ELSE Tail(finishedQ)
  /\ given' = IF finishedQ = <<>> THEN given ELSE given \cup {Head(finishedQ)}
  /\ UNCHANGED <<issued, rr, busy, traced, tilesAt, instVars, memVars>>

NextSub == IF sub + 1 < NSub THEN sub' = sub + 1 /\ pc' = "drain"
                             ELSE sub' = 0 /\ pc' = "memory"

(* The subcore has had no tile yet and runs an idle STONNE instance.       *)
SkipUnused ==
  /\ pc = "drain" /\ sub \notin traced
  /\ NextSub
  /\ UNCHANGED <<tileVars, instVars, memVars>>
-----------------------------------------------------------------------------
(* ready_counter, raised once by add_child for the instruction before, and *)
(* lowered when that one finishes.                                         *)
Before(i) == <<i[1], i[2] - 1>>
After(i) == <<i[1], i[2] + 1>>
Raised(c) == IF c + 1 = CounterSize THEN 0 ELSE c + 1
ready_counter(i) ==
  IF i[2] = 1 \/ Before(i) \in finished THEN fresh[i] ELSE Raised(fresh[i])
is_ready(i) == ready_counter(i) = 0

(* finish_instruction exits if it is called twice; dec_ready_counter       *)
(* asserts that the counter of the instruction after is not zero.          *)
FailsToFinish(S) ==
  \/ S \cap finished # {}
  \/ \E i \in S : After(i) \in Insts /\ ready_counter(After(i)) = 0

(* The loop over _dma_finished_queue only looks at its front: it removes   *)
(* transfers as long as the front waits for no request.                    *)
Drained_Any == dmaQ
Drained ==
  LET n == SelectInSeq(dmaQ, LAMBDA i : waiting[i] > 0)
  IN IF n = 0 THEN dmaQ ELSE SubSeq(dmaQ, 1, n - 1)

(* Finishes reads only: a write finished when it was issued.               *)
FinishedHere_Writes(D) == ToSet(D)
FinishedHere(D) == {i \in ToSet(D) : Op(i) = "MOVIN"}

(* Completions that a subcore collects for all: the computation at the     *)
(* front of the pipeline may have reached its finish_cycle, and the        *)
(* transfers that are through.  The count of finished instructions in the  *)
(* owner, which may be gone by then, is never read and left out.           *)
DrainCompletions(computed) ==
  /\ pc = "drain" /\ ~fault /\ sub \in traced
  /\ computed => pipe # <<>>
  /\ LET new == FinishedHere(Drained) \cup IF computed THEN {Head(pipe)} ELSE {}
     IN /\ finished' = finished \cup new
        /\ fault' = FailsToFinish(new)
  /\ pipe' = IF computed THEN Tail(pipe) ELSE pipe
  /\ dmaQ' = SubSeq(dmaQ, Len(Drained) + 1, Len(dmaQ))
  /\ pc' = "tile"
  /\ UNCHANGED <<sub, tileVars, pos, waiting, fresh, memVars>>
-----------------------------------------------------------------------------
Current == Head(tilesAt[sub])
AtTile == pc = "tile" /\ tilesAt[sub] # <<>>
Emptied == pos[Current] = Len(Prog[Current])
inst == <<Current, pos[Current] + 1>>

FinishTile ==
  /\ AtTile /\ Emptied /\ busy[sub]
  /\ finishedQ' = Append(finishedQ, Current)
  /\ tilesAt' = [tilesAt EXCEPT ![sub] = Tail(@)]
  /\ busy' = [busy EXCEPT ![sub] = FALSE]
  /\ NextSub
  /\ UNCHANGED <<issued, rr, traced, given, instVars, memVars>>

(* No tile, a tile that ran out of instructions while the subcore did not  *)
(* count as busy, or an instruction whose counter is not zero.             *)
NothingToIssue ==
  /\ pc = "tile"
  /\ \/ tilesAt[sub] = <<>>
     \/ AtTile /\ Emptied /\ ~busy[sub]
     \/ AtTile /\ ~Emptied /\ ~is_ready(inst)
  /\ NextSub
  /\ UNCHANGED <<tileVars, instVars, memVars>>

(* registerMemfetch: a request to an address that still is in the table    *)
(* only adds its callback.                                                 *)
Registered_Once(i) ==
  table \cup {[key |-> <<a, Op(i)>>, calls |-> {i}] :
                a \in {a \in AddrsOf(i) : \A w \in table : w.key # <<a, Op(i)>>}}
Registered(i) ==
  LET Mine == {<<a, Op(i)>> : a \in AddrsOf(i)}
  IN {w \in table : w.key \notin Mine}
       \cup {[key |-> k, calls |-> {i} \cup UNION {w.calls : w \in {w \in table : w.key = k}}] :
               k \in Mine}

Issuing(op) ==
  /\ AtTile /\ ~Emptied /\ Op(inst) = op /\ is_ready(inst)
  /\ pos' = [pos EXCEPT ![Current] = @ + 1]
  /\ NextSub
  /\ UNCHANGED <<tileVars, fresh>>

Transfer ==
  /\ waiting' = [waiting EXCEPT ![inst] = @ + Cardinality(AddrsOf(inst))]
  /\ table' = Registered(inst)
  /\ dmaQ' = Append(dmaQ, inst)
  /\ UNCHANGED <<pipe, reqQ, net, respQ>>

IssueLoad ==
  /\ Issuing("MOVIN") /\ Transfer
  /\ UNCHANGED <<finished, fault>>

IssueStore ==
  /\ Issuing("MOVOUT") /\ Transfer
  /\ finished' = finished \cup {inst}
  /\ fault' = FailsToFinish({inst})

IssueCompute ==
  /\ Issuing("COMP")
  /\ pipe' = Append(pipe, inst)
  /\ UNCHANGED <<finished, dmaQ, waiting, fault, memVars>>
-----------------------------------------------------------------------------
(* Both loops of cycle() let one more pass than there are ports.           *)
Burst(Q) == {S \in SUBSET Q : Cardinality(S) = IF Cardinality(Q) <= NPorts + 1
                                               THEN Cardinality(Q) ELSE NPorts + 1}

HandleMemory(S, R) ==
  /\ pc = "memory" /\ pc' = "idle" /\ sub' = 0
  /\ table' = table \ S
  /\ reqQ' = reqQ \cup S
  /\ respQ' = respQ \ R
  /\ waiting' = [i \in Insts |-> waiting[i] - Cardinality({w \in R : i \in w.calls})]
  /\ UNCHANGED <<net, tileVars, pos, finished, pipe, dmaQ, fresh, fault>>

(* Simulator::icnt_cycle between two core cycles.                          *)
pop_memory_request(w) ==
  /\ pc = "idle" /\ ~fault
  /\ reqQ' = reqQ \ {w} /\ net' = net \cup {w}
  /\ UNCHANGED <<pc, sub, table, respQ, tileVars, instVars>>

push_memory_response(w) ==
  /\ pc = "idle" /\ ~fault
  /\ net' = net \ {w} /\ respQ' = respQ \cup {w}
  /\ UNCHANGED <<pc, sub, table, reqQ, tileVars, instVars>>

CycleStep ==
  /\ ~fault
  /\ \/ BeginCycle \/ SkipUnused \/ FinishTile \/ NothingToIssue
     \/ \E c \in BOOLEAN : DrainCompletions(c)
     \/ IssueLoad \/ IssueStore \/ IssueCompute
     \/ \E S \in Burst(table), R \in Burst(respQ) : HandleMemory(S, R)

RequestLeaves == \E w \in reqQ : pop_memory_request(w)
ResponseComes == \E w \in net : push_memory_response(w)

(* The process has exited. *)
Aborted == fault /\ UNCHANGED vars

Next ==
  \/ \E t \in Tiles : issue(t)
  \/ CycleStep \/ RequestLeaves \/ ResponseComes
  \/ Aborted

(* Cycles go on while a tile is here; the interconnect and the memory take *)
(* and answer what is there; a computation reaches its finish_cycle.       *)
Fairness ==
  /\ WF_vars(CycleStep)
  /\ SF_vars(DrainCompletions(TRUE))
  /\ SF_vars(RequestLeaves) /\ SF_vars(ResponseComes)

Spec == Init /\ [][Next]_vars
FairSpec == Spec /\ Fairness
-----------------------------------------------------------------------------
InFlight == table \cup reqQ \cup net \cup respQ

(* Uninitialised memory whose value add_child turns into zero: the         *)
(* instruction seems ready although the one before it has not finished.    *)
WrapsToZero(i) == i[2] > 1 /\ Raised(fresh[i]) = 0

(* No instruction is finished twice, at which finish_instruction exits the *)
(* simulator, although subcores collect each other's completions; and no   *)
(* counter is lowered below zero but one that wrapped when it was made.    *)
NoFault == fault => \E i \in Insts : WrapsToZero(i)

(* An instruction is taken only when the data of all loads before it in    *)
(* its tile have arrived and the computations before it are over, whatever *)
(* the counters started from; save for the one before an instruction whose *)
(* counter wrapped to zero.                                                *)
DataBeforeUse ==
  \A i \in Insts : i[2] < pos[i[1]] /\ ~WrapsToZero(After(i)) =>
    /\ Op(i) = "MOVIN" => \A w \in InFlight : i \notin w.calls
    /\ \A n \in DOMAIN pipe : pipe[n] # i

(* The tile at the front of a busy subcore is given back in the end, if    *)
(* its counters started from zero and no assertion ends the process: the   *)
(* shared queues and the table keep no tile waiting for ever, also when    *)
(* the other subcores hang.                                                *)
FromZero(t) == \A i \in Insts : i[1] = t => fresh[i] = 0
FrontTileReturns ==
  \A t \in Tiles, s \in Subs :
    (busy[s] /\ tilesAt[s] # <<>> /\ Head(tilesAt[s]) = t /\ FromZero(t))
      ~> (t \in given \/ fault)

(* What a device synchronisation waits for: every tile the scheduler gives *)
(* to the core is given back.                                              *)
EveryTileReturns == \A t \in Tiles : t \in issued ~> t \in given

-----------------------------------------------------------------------------
(* The inductive invariant of SparseCoreProofs.                            *)
Requests == [key : Keys, calls : SUBSET Insts]
TypeOK ==
  /\ pc \in {"idle", "drain", "tile", "memory"} /\ sub \in Subs
  /\ issued \subseteq Tiles /\ rr \in Subs /\ traced \subseteq Subs
  /\ busy \in [Subs -> BOOLEAN] /\ tilesAt \in [Subs -> Seq(Tiles)]
  /\ finishedQ \in Seq(Tiles) /\ given \subseteq Tiles
  /\ pos \in [Tiles -> Nat] /\ \A t \in Tiles : pos[t] <= Len(Prog[t])
  /\ finished \subseteq Insts /\ pipe \in Seq(Insts) /\ dmaQ \in Seq(Insts)
  /\ waiting \in [Insts -> Nat] /\ fresh \in [Insts -> 0 .. CounterSize - 1]
  /\ InFlight \subseteq Requests

(* An instruction is in the pipeline or the queue of transfers once, and   *)
(* unfinished there unless it is a store; all before the last one taken of *)
(* a tile are finished, save those in front of a counter that wrapped.     *)
Taken == {i \in Insts : i[2] <= pos[i[1]]}
Once(q) == \A m, n \in DOMAIN q : q[m] = q[n] => m = n
OrderInv ==
  /\ finished \subseteq Taken
  /\ Once(pipe) /\ Once(dmaQ)
  /\ \A n \in DOMAIN pipe : pipe[n] \in Taken \ finished /\ Op(pipe[n]) = "COMP"
  /\ \A n \in DOMAIN dmaQ : /\ dmaQ[n] \in Taken
                            /\ Op(dmaQ[n]) # "COMP"
                            /\ Op(dmaQ[n]) = "MOVIN" => dmaQ[n] \notin finished
  /\ \A i \in Insts : i[2] < pos[i[1]] /\ ~WrapsToZero(After(i)) => i \in finished

(* A request is at one stage of its way and calls back instructions that   *)
(* wait for its address; an instruction waits for an address once.         *)
KeysOf(i) == AddrsOf(i) \X {Op(i)}
StageInv ==
  /\ table \cap (reqQ \cup net \cup respQ) = {}
  /\ reqQ \cap (net \cup respQ) = {} /\ net \cap respQ = {}
CallInv ==
  /\ \A w \in InFlight : w.calls # {} /\ \A i \in w.calls : i \in Taken /\ w.key \in KeysOf(i)
  /\ \A w, v \in InFlight : w.key = v.key /\ w.calls \cap v.calls # {} => w = v
  /\ \A w, v \in table : w.key = v.key => w = v

(* _nr_waiting_request counts the addresses whose response is outstanding, *)
(* and a load that is finished has none.                                   *)
Calling(i, S) == {w \in S : i \in w.calls}
OpenKeys(i) == {w.key : w \in Calling(i, InFlight)}
CountInv ==
  /\ \A i \in Insts : waiting[i] = Cardinality(OpenKeys(i))
  /\ \A i \in finished : Op(i) = "MOVIN" => OpenKeys(i) = {}

IInv == TypeOK /\ OrderInv /\ StageInv /\ CallInv /\ CountInv /\ NoFault
=============================================================================
