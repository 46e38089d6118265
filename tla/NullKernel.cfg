SPECIFICATION Spec
CONSTANTS
  NCores = 1
  MaxSlot = 2
  Partitions = {"p0"}
  PartitionOf <- MCPartitionOf
  Capacity <- MCCapacity
  Kernels = {"ka", "null", "kb"}
  KernelPart <- MCKernelPart
  Arrival <- MCArrival
  KindOf <- MCKindOf
  CoreKind <- MCCoreKind
  Subs = {1, 2}
  KernelOf <- MCKernelOf
  Pin <- MCPin
  AnyCore = 99
  NoSub = 0
  Tiles = {"t1", "t2"}
  SubOf <- MCSubOf
  Children <- MCChildren
  MaxCycle = 1
PROPERTIES
  SyncIsBarrier
