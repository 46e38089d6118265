------------------------------ MODULE IcntTraffic ------------------------------
(***************************************************************************)
(* SimpleInterconnect under any traffic: every node may push at any time   *)
(* to any other, for ever.  What the arbiter owes each source.  The names  *)
(* leave MemoryPath's free: MemoryPathProofs has the theorems of both.     *)
(***************************************************************************)
EXTENDS Interconnect

VARIABLES
  passed   (* how often a packet that had arrived has seen another one
              delivered before it: a history variable                       *)

trafficVars == <<icntVars, passed>>

InFlight ==
  {p \in Packets :
     \/ \E s, d \in Nodes : \E i \in 1 .. Len(inBuf[s][d]) : inBuf[s][d][i] = p
     \/ \E d \in Nodes : \E i \in 1 .. Len(outBuf[d]) : outBuf[d][i] = p}

TrafficInit == IcntInit /\ passed = [s \in Nodes |-> [d \in Nodes |-> 0]]

Push(s, d, p) ==
  /\ p \in Packets \ InFlight
  /\ inBuf' = Pushed(inBuf, s, d, p)
  /\ UNCHANGED <<arrived, outBuf, rr, passed>>

Pop(n) ==
  /\ outBuf[n] # <<>>
  /\ outBuf' = Popped(outBuf, n)
  /\ UNCHANGED <<inBuf, arrived, rr, passed>>

(* A packet that has arrived and is not served is passed over. *)
Cycle ==
  \E E \in SUBSET (Nodes \X Nodes) :
    /\ CycleWith(E)
    /\ passed' = [s \in Nodes |-> [d \in Nodes |->
                    IF <<s, d>> \in E \ Served(E) THEN passed[s][d] + 1
                    ELSE IF <<s, d>> \in Served(E) THEN 0 ELSE passed[s][d]]]

SomePush == \E s, d \in Nodes : \E p \in Packets : Push(s, d, p)
SomePop == \E n \in Nodes : Pop(n)
TrafficNext == SomePush \/ SomePop \/ Cycle

TrafficSpec == TrafficInit /\ [][TrafficNext]_trafficVars
-----------------------------------------------------------------------------
TrafficTypeOK ==
  /\ inBuf \in [Nodes -> [Nodes -> Seq(Packets)]]
  /\ arrived \subseteq Nodes \X Nodes
  /\ outBuf \in [Nodes -> Seq(Packets)]
  /\ rr \in [Nodes -> Nodes]
  /\ passed \in [Nodes -> [Nodes -> Nat]]

(* The arbiter starves nobody: whatever the other nodes send, a packet     *)
(* that has arrived is passed over less than NNodes times.                 *)
BoundedBypass == \A s, d \in Nodes : passed[s][d] < NNodes

(* The reason for BoundedBypass, inductive: each time a packet is passed   *)
(* over the arbiter comes closer to its source.                            *)
ArbiterApproaches ==
  /\ \A s, d \in Nodes : <<s, d>> \in arrived =>
       passed[s][d] + Dist(rr[d], s) < NNodes
  /\ \A s, d \in Nodes : <<s, d>> \notin arrived => passed[s][d] = 0
TrafficInv == TrafficTypeOK /\ ArbiterApproaches
=============================================================================
