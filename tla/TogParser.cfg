CONSTANTS
  SystolicSize = 2
  SparseTiles = {1}
  RequestSize = 1
  MinBucket = 2
  CounterSize = 64
  FreshCounters = {0, 1, 63}
  Graphs <- MCGraphs
  Literals <- MCLiterals
  AddressInfo <- MCAddressInfo
  Plans <- MCPlans
SPECIFICATION Spec
INVARIANTS
  ExactlyOnce
  LoopOrder
  CountersAgree
  BarrierAfterLoad
  CachePlanFound
