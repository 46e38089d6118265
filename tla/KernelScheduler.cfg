SPECIFICATION FairSpec
CONSTANTS
  NCores = 4
  MaxSlot = 2
  Partitions = {"p0", "p1"}
  PartitionOf <- MCPartitionOf
  Capacity <- MCCapacity
  Kernels = {"ka", "kb", "kc"}
  KernelPart <- MCKernelPart
  Arrival <- MCArrival
  KindOf <- MCKindOf
  CoreKind <- MCCoreKind
  Subs = {1, 2, 3, 4}
  KernelOf <- MCKernelOf
  Pin <- MCPin
  AnyCore = 99
  NoSub = 0
  Tiles = {"t1", "t2", "t3", "t4", "t5", "t6", "t7", "t8"}
  SubOf <- MCSubOf
  Children <- MCChildren
  MaxCycle = 1
INVARIANTS
  TileInOnePlace
  ParentsFirst
  KernelOrder
PROPERTIES
  SyncIsBarrier
  SyncTerminates
