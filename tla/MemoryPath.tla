------------------------------ MODULE MemoryPath ------------------------------
(***************************************************************************)
(* The way of memory requests through the loop of Simulator::cycle: cores, *)
(* SimpleInterconnect, NoL2Cache and SimpleDRAM, each cycled by its clock  *)
(* domain, and back.  Which domains a round cycles is left open, so the    *)
(* results hold for every frequency ratio (ClockDomains has the ratio).    *)
(***************************************************************************)
EXTENDS Interconnect

CONSTANTS
  NCores,   (* config.num_cores                                            *)
  NPorts,   (* config.icnt_injection_ports_per_core                        *)
  NChans,   (* config.dram_channels                                        *)
  CoreOf,   (* the core a request is generated on                          *)
  ChanOf    (* Dram::get_channel_id of its address                         *)

Cores == 0 .. NCores - 1
Chans == 0 .. NChans - 1
Offset == NCores * NPorts
PortNodes == 0 .. Offset - 1
Core(n) == n \div NPorts            (* of port node n    *)
Chan(n) == n - Offset               (* of channel node n *)

ASSUME PathAssumption ==
  /\ {NCores, NPorts, NChans} \subseteq Nat \ {0}
  /\ NNodes = Offset + NChans
  /\ CoreOf \in [Packets -> Cores]
  /\ ChanOf \in [Packets -> Chans]

VARIABLES
  pc,        (* where the round of Simulator::cycle is                     *)
  due,       (* _cycle_mask                                                *)
  node,      (* core_id * ports + noc_id or core_offset + mem_id           *)
  reqQ,      (* Core::_request_queue                                       *)
  fromXbar,  (* m_from_crossbar_queue                                      *)
  toMem,     (* l_to_mem_queue                                             *)
  dram,      (* SimpleDRAM::_mem                                           *)
  toXbar,    (* m_to_crossbar_queue                                        *)
  replied,   (* mem_fetch::m_type is a reply                               *)
  issued,    (* requests generated so far                                  *)
  answers    (* requests given to Core::push_memory_response, per core     *)

chanVars == <<fromXbar, toMem, dram, toXbar>>
coreVars == <<reqQ, issued, answers>>
vars == <<icntVars, pc, due, node, chanVars, replied, coreVars>>

Domains == {"core", "dram", "icnt"}

Init ==
  /\ IcntInit
  /\ pc = "mask" /\ due = {} /\ node = 0
  /\ reqQ = [c \in Cores |-> <<>>]
  /\ fromXbar = [m \in Chans |-> <<>>]
  /\ toMem = fromXbar /\ dram = fromXbar /\ toXbar = fromXbar
  /\ replied = {} /\ issued = {}
  /\ answers = [c \in Cores |-> {}]

(* set_cycle_mask *)
SetCycleMask(D) ==
  /\ pc = "mask"
  /\ D # {}
  /\ due' = D
  /\ pc' = "core"
  /\ UNCHANGED <<icntVars, node, chanVars, replied, coreVars>>

(* Core::cycle: DMA::get_memory_access makes requests (see NpuCore). *)
Generate(r) ==
  /\ pc = "core" /\ "core" \in due
  /\ r \notin issued
  /\ issued' = issued \cup {r}
  /\ reqQ' = [reqQ EXCEPT ![CoreOf[r]] = Append(@, r)]
  /\ UNCHANGED <<icntVars, pc, due, node, chanVars, replied, answers>>

CoresDone ==
  /\ pc = "core"
  /\ pc' = "cache"
  /\ UNCHANGED <<icntVars, due, node, chanVars, replied, coreVars>>

(* A faulty cache port that belongs to the memory's clock. *)
CacheDue_Dram == "dram" \in due
CacheDue == "core" \in due

(* SimpleDRAM::cache_cycle: NoL2Cache passes one request per channel on. *)
CacheCycle ==
  /\ pc = "cache"
  /\ pc' = "dram"
  /\ LET passing == {m \in Chans : CacheDue /\ fromXbar[m] # <<>>} IN
     /\ fromXbar' = [m \in Chans |->
                       IF m \in passing THEN Tail(fromXbar[m]) ELSE fromXbar[m]]
     /\ toMem' = [m \in Chans |->
                    IF m \in passing THEN Append(toMem[m], Head(fromXbar[m])) ELSE toMem[m]]
  /\ UNCHANGED <<icntVars, due, node, dram, toXbar, replied, coreVars>>

(* SimpleDRAM::cycle.  Each channel admits at most one request, if it has  *)
(* the bandwidth credit (A), and returns at most one, if its latency is    *)
(* over (B); a request may be both admitted and returned in one cycle.     *)
Admitted(A, m) == IF m \in A THEN Append(dram[m], Head(toMem[m])) ELSE dram[m]

DramCycle(A, B) ==
  /\ pc = "dram"
  /\ pc' = "icnt"
  /\ "dram" \notin due => A \cup B = {}
  /\ \A m \in A : toMem[m] # <<>>
  /\ \A m \in B : Admitted(A, m) # <<>>
  /\ toMem' = [m \in Chans |-> IF m \in A THEN Tail(toMem[m]) ELSE toMem[m]]
  /\ dram' = [m \in Chans |-> IF m \in B THEN Tail(Admitted(A, m)) ELSE Admitted(A, m)]
  /\ toXbar' = [m \in Chans |-> IF m \in B THEN Append(toXbar[m], Head(Admitted(A, m)))
                                           ELSE toXbar[m]]
  /\ replied' = replied \cup {Head(Admitted(A, m)) : m \in B}
  /\ UNCHANGED <<icntVars, due, node, fromXbar, coreVars>>

-----------------------------------------------------------------------------
get_dest_node(r) ==
  IF r \in replied THEN CoreOf[r] * NPorts + (ChanOf[r] % NPorts) ELSE Offset + ChanOf[r]

Send(q, n) == IF q = <<>> THEN inBuf ELSE Pushed(inBuf, n, get_dest_node(Head(q)), Head(q))
Rest(q) == IF q = <<>> THEN q ELSE Tail(q)

(* A faulty receiver that reads the queue without popping it. *)
Receive_Keeps(n) == outBuf
Receive(n) == IF outBuf[n] = <<>> THEN outBuf ELSE Popped(outBuf, n)

NextNode == IF node + 1 < NNodes THEN node' = node + 1 /\ pc' = "icnt"
                                 ELSE node' = 0 /\ pc' = "route"

(* icnt_cycle at a port of a core: one request in, one response out. *)
PortCycle ==
  /\ pc = "icnt" /\ "icnt" \in due /\ node \in PortNodes
  /\ NextNode
  /\ LET c == Core(node) IN
     /\ inBuf' = Send(reqQ[c], node)
     /\ reqQ' = [reqQ EXCEPT ![c] = Rest(@)]
     /\ outBuf' = Receive(node)
     /\ answers' = IF outBuf[node] = <<>> THEN answers
                   ELSE [answers EXCEPT ![c] = @ \cup {Head(outBuf[node])}]
  /\ UNCHANGED <<arrived, rr, due, chanVars, replied, issued>>

(* icnt_cycle at a memory channel: one request out, one response in. *)
ChannelCycle ==
  /\ pc = "icnt" /\ "icnt" \in due /\ node \notin PortNodes
  /\ NextNode
  /\ LET m == Chan(node) IN
     /\ outBuf' = Receive(node)
     /\ fromXbar' = IF outBuf[node] = <<>> THEN fromXbar
                    ELSE [fromXbar EXCEPT ![m] = Append(@, Head(outBuf[node]))]
     /\ inBuf' = Send(toXbar[m], node)
     /\ toXbar' = [toXbar EXCEPT ![m] = Rest(@)]
  /\ UNCHANGED <<arrived, rr, due, toMem, dram, replied, coreVars>>

NoIcntCycle ==
  /\ pc = "icnt" /\ "icnt" \notin due
  /\ pc' = "mask"
  /\ UNCHANGED <<icntVars, due, node, chanVars, replied, coreVars>>

(* SimpleInterconnect::cycle at the end of icnt_cycle. *)
RouterCycle(E) ==
  /\ pc = "route"
  /\ CycleWith(E)
  /\ pc' = "mask"
  /\ UNCHANGED <<due, node, chanVars, replied, coreVars>>
-----------------------------------------------------------------------------
Heads == {x \in Nodes \X Nodes : inBuf[x[1]][x[2]] # <<>>}
Waiting == {m \in Chans : toMem[m] # <<>>}
Returning == {m \in Chans : Admitted(Waiting, m) # <<>>}

Next ==
  \/ \E D \in SUBSET Domains : SetCycleMask(D)
  \/ \E r \in Packets : Generate(r)
  \/ CoresDone \/ CacheCycle
  \/ \E A, B \in SUBSET Chans : DramCycle(A, B)
  \/ PortCycle \/ ChannelCycle \/ NoIcntCycle
  \/ \E E \in SUBSET Heads : RouterCycle(E)

(* The loop goes on.  The clocks all fall together every common multiple   *)
(* of their periods (ClockDomains); latencies and bandwidth credits are    *)
(* finite, so a time comes when whatever is still under way has arrived.   *)
Fairness ==
  /\ WF_vars(Next /\ <<pc, node>>' # <<pc, node>>)
  /\ SF_vars(SetCycleMask(Domains))
  /\ SF_vars(DramCycle(Waiting, Returning))
  /\ SF_vars(RouterCycle(Heads))

Spec == Init /\ [][Next]_vars
FairSpec == Spec /\ Fairness
-----------------------------------------------------------------------------
Elems(q) == {q[i] : i \in 1 .. Len(q)}

(* Where a request is.                                                     *)
Queued(r) == \E c \in Cores : r \in Elems(reqQ[c])
InNet(r) ==
  \/ \E s, d \in Nodes : r \in Elems(inBuf[s][d])
  \/ \E d \in Nodes : r \in Elems(outBuf[d])
AtPort(r) == \E m \in Chans : r \in Elems(fromXbar[m])
InMemory(r) == \E m \in Chans : r \in Elems(toMem[m]) \cup Elems(dram[m]) \cup Elems(toXbar[m])
Answered(r) == \E c \in Cores : r \in answers[c]

(* A request is never lost or answered twice, and its answer goes back to  *)
(* the core that sent it: each is in one place of its round trip, as a     *)
(* request before the memory has turned it round and as a reply after.     *)
OneRoundTrip ==
  \A r \in Packets :
    /\ Cardinality({q \in {"core", "net", "port", "memory", "answered"} :
         CASE q = "core" -> Queued(r) [] q = "net" -> InNet(r)
           [] q = "port" -> AtPort(r) [] q = "memory" -> InMemory(r)
           [] OTHER -> Answered(r)}) = IF r \in issued THEN 1 ELSE 0
    /\ Queued(r) \/ AtPort(r) => r \notin replied
    /\ Answered(r) => r \in replied
    /\ \A c \in Cores : r \in answers[c] => c = CoreOf[r]

(* The memory path is what NpuCore assumes: a request is accepted by the   *)
(* cache port in a core cycle after the interconnect took it, and only     *)
(* then answered.                                                          *)
stage ==
  [r \in Packets |->
     IF r \notin issued THEN "new" ELSE IF Queued(r) THEN "core"
     ELSE IF Answered(r) THEN "answered"
     ELSE IF InMemory(r) \/ r \in replied THEN "memory" ELSE "net"]
clock ==
  IF pc \in {"core", "cache"} /\ "core" \in due THEN "core"
  ELSE IF pc \in {"icnt", "route"} THEN "icnt" ELSE "other"
Path == INSTANCE RequestPath WITH Requests <- Packets
ImplementsRequestPath == Path!PathSpec

(* The inductive invariant of MemoryPathProofs: no queue holds a request   *)
(* twice, no request is in two queues, each is in the queues of its own    *)
(* core, channel and destination, and only the way back holds replies.     *)
Contents(f) == UNION {Elems(f[i]) : i \in DOMAIN f}
Wires == [x \in Nodes \X Nodes |-> inBuf[x[1]][x[2]]]
Done == UNION {answers[c] : c \in Cores}

NoRepeat(q) == \A m, n \in 1 .. Len(q) : q[m] = q[n] => m = n

Neat(S, f) ==
  /\ f \in [S -> Seq(Packets)]
  /\ \A i \in S : NoRepeat(f[i])
  /\ \A i, j \in S : i # j => Elems(f[i]) \cap Elems(f[j]) = {}

TypeOK ==
  /\ pc \in {"mask", "core", "cache", "dram", "icnt", "route"}
  /\ due \subseteq Domains /\ node \in Nodes
  /\ inBuf \in [Nodes -> [Nodes -> Seq(Packets)]] /\ rr \in [Nodes -> Nodes]
  /\ issued \subseteq Packets /\ replied \subseteq issued
  /\ answers \in [Cores -> SUBSET Packets]
  /\ Neat(Cores, reqQ) /\ Neat(Nodes \X Nodes, Wires) /\ Neat(Nodes, outBuf)
  /\ Neat(Chans, fromXbar) /\ Neat(Chans, toMem) /\ Neat(Chans, dram)
  /\ Neat(Chans, toXbar)

RouteInv ==
  /\ \A c \in Cores : \A r \in Elems(reqQ[c]) \cup answers[c] : c = CoreOf[r]
  /\ \A s, d \in Nodes : \A r \in Elems(inBuf[s][d]) : d = get_dest_node(r)
  /\ \A d \in Nodes : \A r \in Elems(outBuf[d]) : d = get_dest_node(r)
  /\ \A m \in Chans :
       \A r \in Elems(fromXbar[m]) \cup Elems(toMem[m]) \cup Elems(dram[m])
                \cup Elems(toXbar[m]) : m = ChanOf[r]

Apart(Q, W, O, F, T, D, X, A, I, R) ==
  /\ Q \cap (W \cup O \cup F \cup T \cup D \cup X \cup A) = {}
  /\ W \cap (O \cup F \cup T \cup D \cup X \cup A) = {}
  /\ O \cap (F \cup T \cup D \cup X \cup A) = {}
  /\ F \cap (T \cup D \cup X \cup A) = {}
  /\ T \cap (D \cup X \cup A) = {}
  /\ D \cap (X \cup A) = {}
  /\ X \cap A = {}
  /\ I = Q \cup W \cup O \cup F \cup T \cup D \cup X \cup A
  /\ (Q \cup F \cup T \cup D) \cap R = {}
  /\ X \cup A \subseteq R

PlaceInv ==
  Apart(Contents(reqQ), Contents(Wires), Contents(outBuf), Contents(fromXbar),
        Contents(toMem), Contents(dram), Contents(toXbar), Done, issued, replied)

IInv == TypeOK /\ RouteInv /\ PlaceInv

(* Every request is answered, however the clocks interleave and whatever   *)
(* else contends for the ports, the arbiters and the channel.              *)
EveryRequestAnswered == \A r \in Packets : r \in issued ~> Answered(r)
=============================================================================
