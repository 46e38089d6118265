SPECIFICATION FairSpec
CONSTANTS
  Tiles = {"T1", "T2", "T3"}
  TileSucc <- MCTileSucc
  Capacity = 4
  Insts = {"a", "s", "b", "c", "o", "a2", "b2", "c2", "d", "e", "f", "g", "p", "q", "r", "m"}
  TileOf <- MCTileOf
  Succ <- MCSucc
  Op <- MCOp
  Unit <- MCUnit
  Async = {"a", "a2", "d"}
  Sparse = {"p"}
  ZeroCycle = {"c2"}
  Oracle = {"d", "e", "g"}
  Tags = {"x", "s", "d", "g", "y"}
  Tag <- MCTag
  Requests <- MCRequests
  Ports = 1
  NSA = 2
  NoInst = "none"
INVARIANTS
  NoFault
  NoLostCompletion
  DataBeforeCompute
  IdleMeansDrained
PROPERTIES
  ExecutesGraph
  EveryTileRetires
