---------------------------- MODULE MCStreamPool ----------------------------
(* Two threads, two devices, one event, pools of two streams and a counter   *)
(* that wraps after four: the threads race to create a pool, go round it,    *)
(* record the event on one stream, have another one wait for it, and record  *)
(* it again.                                                                 *)
EXTENDS StreamPool
=============================================================================
