----------------------------- MODULE DagExecution -----------------------------
(***************************************************************************)
(* What both levels of TOGSim promise: the nodes of a dependency graph     *)
(* are completed one at a time, each once, each after all the nodes it     *)
(* depends on.  The nodes are the tiles of a TileSubGraph (Tile::          *)
(* _ready_counter) or the instructions of a tile (Instruction::            *)
(* ready_counter).                                                         *)
(***************************************************************************)
CONSTANTS
  Nodes,
  Succ   (* Succ[n]: the nodes that wait for n *)

VARIABLE completed

DagInit == completed = {}

Complete(n) ==
  /\ n \notin completed
  /\ \A p \in Nodes : n \in Succ[p] => p \in completed
  /\ completed' = completed \cup {n}

DagNext == \E n \in Nodes : Complete(n)

DagSpec == DagInit /\ [][DagNext]_completed
=============================================================================
