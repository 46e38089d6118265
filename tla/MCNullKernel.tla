----------------------------- MODULE MCNullKernel -----------------------------
(* One core and three kernels, the middle one null: its graph has no loop  *)
(* nodes, so TileGraphParser returns a TileGraph without a subgraph.       *)
EXTENDS KernelScheduler, TLC

MCPartitionOf == [c \in Cores |-> "p0"]
MCCapacity == [c \in Cores |-> 4]
MCKernelPart == [k \in Kernels |-> "p0"]
MCArrival == [k \in Kernels |-> 0]
MCKindOf == [k \in Kernels |-> "ws"]
MCCoreKind == [c \in Cores |-> "ws"]
MCKernelOf == 1 :> "ka" @@ 2 :> "kb"
MCPin == 1 :> AnyCore @@ 2 :> AnyCore
MCSubOf == "t1" :> 1 @@ "t2" :> 2
MCChildren == "t1" :> {} @@ "t2" :> {}
=============================================================================
