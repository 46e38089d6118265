----------------------------- MODULE MCSparseCore -----------------------------
(* Three traces for two subcores: A and B load the same address, A loads   *)
(* and stores more than pass the ports in a cycle, B ends with its         *)
(* computation, C only computes.  The memory of the counters is zero, or   *)
(* one counter starts from another value: A's second instruction is never  *)
(* ready, B's is before its load is over.                                  *)
EXTENDS SparseCore

I(op, addrs) == [op |-> op, addrs |-> addrs]
MCProg == [t \in Tiles |->
  CASE t = "A" -> <<I("MOVIN", {1, 2, 3}), I("COMP", {}), I("MOVOUT", {1, 2})>>
    [] t = "B" -> <<I("MOVIN", {1}), I("COMP", {})>>
    [] OTHER -> <<I("COMP", {})>>]

Except(t, k, value) == [i \in Insts |-> IF i = <<t, k>> THEN value ELSE 0]
MCZeroed == {[i \in Insts |-> 0]}
MCAny == MCZeroed \cup {Except("B", 2, CounterSize - 1), Except("A", 2, 1)}
=============================================================================
