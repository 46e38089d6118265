-------------------------- MODULE MCKernelScheduler --------------------------
(* Two systolic cores and a STONNE core share partition p0, a systolic     *)
(* core is partition p1.  In p0, ka has a subgraph with a nested loop,     *)
(* pinned to core 1 (t1, its iterations t2 and t3, and the tile t4 after   *)
(* the loop, as TileLoopNode::get_tiles_from_iter builds them), and a      *)
(* subgraph of a single tile; the STONNE kernel kb, a two-tile chain,      *)
(* arrives a cycle late behind it.  p1 gets kc, pinned to its core.        *)
(* Capacity 2 instead of 4 makes cores fill up.                            *)
EXTENDS KernelScheduler, TLC

MCPartitionOf == [c \in Cores |-> IF c = 3 THEN "p1" ELSE "p0"]
MCCapacity == [c \in Cores |-> 2]
MCKernelPart == [k \in Kernels |-> IF k = "kc" THEN "p1" ELSE "p0"]
MCArrival == [k \in Kernels |-> IF k = "kb" THEN 1 ELSE 0]
MCKindOf == [k \in Kernels |-> IF k = "kb" THEN "stonne" ELSE "ws"]
MCCoreKind == [c \in Cores |-> IF c = 2 THEN "stonne" ELSE "ws"]
MCKernelOf == 1 :> "ka" @@ 2 :> "ka" @@ 3 :> "kb" @@ 4 :> "kc"
MCPin == 1 :> 1 @@ 2 :> AnyCore @@ 3 :> AnyCore @@ 4 :> 3
MCSubOf == "t1" :> 1 @@ "t2" :> 1 @@ "t3" :> 1 @@ "t4" :> 1
           @@ "t5" :> 2 @@ "t6" :> 3 @@ "t7" :> 3 @@ "t8" :> 4
MCChildren == "t1" :> {"t2", "t3", "t4"} @@ "t2" :> {"t4"} @@ "t3" :> {"t4"}
              @@ "t4" :> {} @@ "t5" :> {} @@ "t6" :> {"t7"} @@ "t7" :> {} @@ "t8" :> {}

(* The hypothesis of SynchronizationIsBarrier: no kernel here is null.     *)
ASSUME KernelsNotNull == NoNullKernel
=============================================================================
