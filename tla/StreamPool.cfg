SPECIFICATION Spec
CONSTANTS
  Threads = {t1, t2}
  Devices = {0, 1}
  Events = {e1}
  PoolSize = 2
  CounterSize = 4
  MaxOps = 5
INVARIANTS
  StreamsAreDealtRound
  EventFollowsWork

CHECK_DEADLOCK FALSE
PROPERTY EverythingRuns
