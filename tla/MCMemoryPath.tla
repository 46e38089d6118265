----------------------------- MODULE MCMemoryPath -----------------------------
(* Two cores of two injection ports each and two channels: a and b contend *)
(* for channel 0 and c, from the same core as b, crosses them on channel 1. *)
EXTENDS MemoryPath, TLC

MCCoreOf == "a" :> 0 @@ "b" :> 1 @@ "c" :> 1
MCChanOf == "a" :> 0 @@ "b" :> 0 @@ "c" :> 1
=============================================================================
