----------------------------- MODULE RequestPath -----------------------------
(***************************************************************************)
(* What the cores may rely on: a memory request is answered once, by way   *)
(* of stages that are left in the cycles of particular clock domains.  The *)
(* network hands requests over in interconnect cycles and the memory side  *)
(* accepts them in core cycles, so a whole core cycle lies between a       *)
(* request and its answer.  NpuCore assumes this; MemoryPath is shown to   *)
(* implement it.                                                           *)
(***************************************************************************)
CONSTANT Requests

VARIABLES
  stage,  (* "new", "core", "net", "memory" or "answered"                  *)
  clock   (* the domain being cycled                                       *)

Move ==
  [core |-> {<<"new", "core">>, <<"net", "memory">>},
   icnt |-> {<<"core", "net">>, <<"memory", "answered">>},
   other |-> {}]

PathInit ==
  /\ stage = [r \in Requests |-> "new"]
  /\ clock \in DOMAIN Move

Advance ==
  \A r \in Requests : stage'[r] = stage[r] \/ <<stage[r], stage'[r]>> \in Move[clock]

PathSpec ==
  PathInit /\ [][/\ Advance
                 /\ DOMAIN stage' = Requests
                 /\ clock' \in DOMAIN Move]_<<stage, clock>>
=============================================================================
