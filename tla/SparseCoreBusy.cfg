CONSTANTS
  NSub = 2
  NPorts = 1
  Tiles = {"A", "B", "C"}
  Addrs = {1, 2, 3}
  Prog <- MCProg
  CounterSize = 4
  Fresh <- MCZeroed
SPECIFICATION FairSpec
PROPERTIES
  EveryTileReturns
