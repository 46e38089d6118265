\* Stream sessions that synchronise on device 0, and standalone sessions with
\* every choice of links, with and without a limit of time.
SPECIFICATION Spec
CONSTANTS
  Devices <- MCDevices
  Kernels <- MCKernels
  Faulty <- MCFaulty
  Home = 0
  Program <- MCProgram
  SyncBound = 1
  FifoCapacity = 5
  OutCapacity = 1
  NumCores = 2
  CoreMHz = 700
  WeightLines <- MCWeightLines
  PageBytes = 16
  Bandwidth <- MCBandwidth
  BaseLatency <- MCBaseLatency
  LatencyRows <- MCLatencyRows
  MemoryLatency = 2
INVARIANTS
  SynchronizeWaits
  LaunchedIsSimulated
  NoOrphans
  OracleAnswer
PROPERTY
  SessionEnds
