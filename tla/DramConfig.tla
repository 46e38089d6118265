------------------------------- MODULE DramConfig -------------------------------
(***************************************************************************)
(* What SimpleDRAM makes of its section of the hardware configuration.  A  *)
(* section is a record of the keys, Absent when a key is not given; a      *)
(* bandwidth is in MB/s, which a frequency in MHz turns into bytes per     *)
(* cycle.                                                                  *)
(***************************************************************************)
EXTENDS Integers

CONSTANT Absent

Given(y, key) == y[key] # Absent
Capped(y) == Given(y, "per_channel") \/ Given(y, "total")
OrElse(v, default) == IF v = Absent THEN default ELSE v

Frequency(y, core_freq) == OrElse(y.freq, core_freq)
PerChannel(y, channels) ==
  IF Given(y, "total") THEN y.total \div channels ELSE OrElse(y.per_channel, 0)

(* The sections apply_yaml_to_simulation_config throws at. *)
Rejected(y, channels, core_freq) ==
  \/ ~Given(y, "latency")
  \/ OrElse(y.req_size, 32) = 0
  \/ Given(y, "per_channel") /\ Given(y, "total")
  \/ Given(y, "total") /\ channels = 0
  \/ Capped(y) /\ (PerChannel(y, channels) <= 0 \/ ~Given(y, "freq"))
  \/ Frequency(y, core_freq) = 0

apply_yaml_to_simulation_config(y, channels, core_freq) ==
  [latency |-> y.latency, req_size |-> OrElse(y.req_size, 32),
   per_channel |-> PerChannel(y, channels), freq |-> Frequency(y, core_freq)]

(* _bytes_per_dram_cycle, 0 when the bandwidth is not limited *)
BytesPerCycle(cfg) == cfg.per_channel \div cfg.freq
=============================================================================
