----------------------------- MODULE MCIcntTraffic -----------------------------
(* Three nodes and three packets that are pushed again and again, so       *)
(* that all sources contend for a destination again and again.             *)
EXTENDS IcntTraffic, TLC

Sym == Permutations(Packets)
=============================================================================
