CONSTANTS
  Domains = {"core", "dram", "icnt"}
  Period <- MCPeriod
  MaxTime = 170
  Txs <- MCTxs
  Chans = {0, 1}
  ChanOf <- MCChanOf
  Absent = Absent
  ReqSize <- MCReqSize
  Rate <- MCRate
  Latency <- MCLatency
  MaxRefusals = 1
SPECIFICATION ChanSpec
INVARIANTS
  TicksInProportion
  BandwidthHeld
  FullRate
  LatencyKept
CHECK_DEADLOCK FALSE
