----------------------------- MODULE ClockDomains -----------------------------
(***************************************************************************)
(* The clocks of Simulator::cycle: cores, memory and interconnect each have *)
(* a period, and every round of the loop ticks those whose time is least.  *)
(***************************************************************************)
EXTENDS Integers

CONSTANTS
  Domains,  (* core, dram and icnt                                         *)
  Period,   (* _core_period, _dram_period, _icnt_period                    *)
  MaxTime   (* bound for model checking: no round starts after it          *)

ASSUME PeriodAssumption ==
  /\ Domains # {}
  /\ Period \in [Domains -> Nat \ {0}]
  /\ MaxTime \in Nat

VARIABLES
  time,   (* _core_time, _dram_time, _icnt_time                            *)
  mask,   (* _cycle_mask                                                   *)
  ticks   (* how often each domain has been cycled, a history variable     *)

vars == <<time, mask, ticks>>

Init ==
  /\ time = [d \in Domains |-> 0]
  /\ mask = {}
  /\ ticks = [d \in Domains |-> 0]

Earliest(d) == \A e \in Domains : time[d] <= time[e]

(* A faulty mask that ticks every domain in every round. *)
Due_Always(d) == TRUE

(* "_core_time <= minimum_time", the same for each domain. *)
Due(d) == Earliest(d)

(* set_cycle_mask *)
set_cycle_mask ==
  /\ \E d \in Domains : Earliest(d) /\ time[d] < MaxTime
  /\ mask' = {d \in Domains : Due(d)}
  /\ time' = [d \in Domains |-> IF Due(d) THEN time[d] + Period[d] ELSE time[d]]
  /\ ticks' = [d \in Domains |-> IF Due(d) THEN ticks[d] + 1 ELSE ticks[d]]

Spec == Init /\ [][set_cycle_mask]_vars
-----------------------------------------------------------------------------
TypeOK ==
  /\ time \in [Domains -> Nat]
  /\ mask \subseteq Domains
  /\ ticks \in [Domains -> Nat]

(* No clock runs ahead: a domain is never more than one of its own periods *)
(* past any other, so every domain ticks again within bounded time and the *)
(* fairness that MemoryPath assumes of the clocks is justified.            *)
NoDrift == \A d, e \in Domains : time[d] <= time[e] + Period[d]

(* Over any number of rounds the domains tick in the ratio of their        *)
(* periods, give or take one tick: set_cycle_mask loses no cycle when      *)
(* several clocks fall together.                                           *)
TicksInProportion ==
  \A d, e \in Domains :
    ticks[d] * Period[d] <= ticks[e] * Period[e] + Period[d]

(* The inductive invariant: a clock is where its ticks have taken it. *)
TimeIsTicks == \A d \in Domains : time[d] = ticks[d] * Period[d]
IInv == TypeOK /\ NoDrift /\ TimeIsTicks
=============================================================================
