---------------------------- MODULE Interconnect ----------------------------
(***************************************************************************)
(* SimpleInterconnect: a buffer for every pair of nodes, an output queue   *)
(* for every node, and a round-robin arbiter per output that moves one     *)
(* packet per cycle.  The latency of a packet is left open: any time after *)
(* it reaches the head of its buffer its finish_cycle may have come.       *)
(***************************************************************************)
EXTENDS Integers, Sequences, FiniteSets

CONSTANTS
  NNodes,   (* _n_nodes: the cores' ports, then the memory channels        *)
  Packets   (* the mem_fetches                                             *)

ASSUME NodeAssumption == NNodes \in Nat \ {0}

Nodes == 0 .. NNodes - 1

VARIABLES
  inBuf,    (* _in_buffers[src][dest]                                      *)
  arrived,  (* the <<src, dest>> whose head has reached its finish_cycle   *)
  outBuf,   (* _out_buffers                                                *)
  rr        (* _rr_next_src                                                *)

icntVars == <<inBuf, arrived, outBuf, rr>>

IcntInit ==
  /\ inBuf = [s \in Nodes |-> [d \in Nodes |-> <<>>]]
  /\ arrived = {}
  /\ outBuf = [d \in Nodes |-> <<>>]
  /\ rr = [d \in Nodes |-> 0]

(* How far the arbiter, standing at a, is from source b. *)
Dist(a, b) == IF a <= b THEN b - a ELSE b - a + NNodes

(* Faulty scans: from _rr_next_src to the last node, without coming round. *)
Served_NoWrap(E) ==
  {x \in E : /\ rr[x[2]] <= x[1]
             /\ \A t \in rr[x[2]] .. x[1] - 1 : <<t, x[2]>> \notin E}

(* The scan of cycle(): per destination the first source, from             *)
(* _rr_next_src on, with a packet to deliver.                              *)
Served(E) ==
  {x \in E : \A t \in Nodes :
     <<t, x[2]>> \in E => Dist(rr[x[2]], x[1]) <= Dist(rr[x[2]], t)}

Serves(E, d) == \E s \in Nodes : <<s, d>> \in Served(E)
Source(E, d) == CHOOSE s \in Nodes : <<s, d>> \in Served(E)

(* A faulty arbiter that stays with the source they served. *)
NextSource_Stays(s) == s

NextSource(s) == (s + 1) % NNodes

(* SimpleInterconnect::cycle, E being the pairs whose head has arrived.    *)
CycleWith(E) ==
  /\ arrived \subseteq E
  /\ \A x \in E : inBuf[x[1]][x[2]] # <<>>
  /\ inBuf' = [s \in Nodes |-> [d \in Nodes |->
                 IF <<s, d>> \in Served(E) THEN Tail(inBuf[s][d]) ELSE inBuf[s][d]]]
  /\ outBuf' = [d \in Nodes |->
                  IF Serves(E, d) THEN Append(outBuf[d], Head(inBuf[Source(E, d)][d]))
                                  ELSE outBuf[d]]
  /\ rr' = [d \in Nodes |-> IF Serves(E, d) THEN NextSource(Source(E, d)) ELSE rr[d]]
  /\ arrived' = E \ Served(E)

(* push and pop as functions of the buffers, for the modules that combine  *)
(* several of them in one step.                                            *)
Pushed(buf, src, dest, p) == [buf EXCEPT ![src][dest] = Append(@, p)]
Popped(buf, n) == [buf EXCEPT ![n] = Tail(@)]
=============================================================================
