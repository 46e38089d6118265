----------------------------- MODULE MCDramChannel -----------------------------
(* Two channels that the hash chooses, requests of 7 bytes and 3.2 GB/s in *)
(* all, 2 bytes per cycle and channel: a request is paid for every fourth  *)
(* cycle, with a rest that adds up.  The clocks are those of a 940 MHz     *)
(* core, an 800 MHz memory and a 2000 MHz interconnect: no period divides  *)
(* another.                                                                *)
EXTENDS DramChannel, DramAddress, DramConfig, TLC

MCPeriod == "core" :> 17 @@ "dram" :> 20 @@ "icnt" :> 8

Section == [latency |-> 2, req_size |-> 7, per_channel |-> Absent, total |-> 3200,
            freq |-> 800]
ASSUME SectionAccepted == ~Rejected(Section, 2, 940)
MCConfig == apply_yaml_to_simulation_config(Section, 2, 940)
MCReqSize == MCConfig.req_size
MCRate == BytesPerCycle(MCConfig)
MCLatency == MCConfig.latency

(* Three transactions of one channel and one of the other. *)
MCTxs == {0, 1, 3, 4}
MCChanOf == [t \in MCTxs |-> get_channel_id(t, 0, 2, 1)]

(* The calculations of DramAddress on bounded inputs. *)
ASSUME HashIsExact == HashIsResidue /\ AddressKept
=============================================================================
