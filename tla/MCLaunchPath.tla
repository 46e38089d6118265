---------------------------- MODULE MCLaunchPath ----------------------------
(* Two devices with their default streams, three kernels of which one cannot *)
(* be parsed. In a standalone session a kernel runs on two cores at 700 MHz, *)
(* whose accesses to DRAM overlap; one is a read of a weight, one a write to *)
(* the same place, one crosses a page. The latency file has rows of both     *)
(* kernels, two of them for one instruction and one for another core. The    *)
(* output pipe holds one line, so the simulator is blocked on it until the   *)
(* client reads it.                                                          *)
EXTENDS LaunchPath

MCDevices == {0, 1}
MCKernels == {1, 2, 3}
MCFaulty == {3}
MCWeightLines == <<<<48, 64>>, <<16, 0>>>>
MCBandwidth == [ssd |-> 4, dram |-> 4]
MCBaseLatency == [ssd |-> 2, dram |-> 3]
Read(i, a, b) == [inst |-> i, write |-> FALSE, addr |-> a, bits |-> b]
Write(i, a, b) == [inst |-> i, write |-> TRUE, addr |-> a, bits |-> b]
MCProgram ==
  [k \in MCKernels |->
    IF k = 1 THEN (0 :> <<Read(1, 8, 60), Write(2, 8, 32)>> @@ 1 :> <<Read(3, 30, 64)>>)
    ELSE (0 :> <<Read(4, 20, 8), Read(5, 63, 8)>> @@ 1 :> <<Write(6, 40, 128), Read(7, 50, 64)>>)]
MCLatencyRows == <<<<0, 1, 9>>, <<1, 7, 3>>, <<1, 1, 5>>, <<0, 1, 4>>>>
=============================================================================
