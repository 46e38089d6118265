SPECIFICATION FairSpec
CONSTANTS
  r1 = r1  r2 = r2  r3 = r3  r4 = r4  r5 = r5  r6 = r6  a = a  b = b  c = c  None = None
  Requests = {r1, r2, r3, r4, r5, r6}
  Cores = {0}
  BlockOf <- MCBlockOf
  SectorOf <- MCSectorOf
  CoreOf <- MCCoreOf
  Writes = {r2, r5}
  Cacheable = {r1, r2, r3, r4, r5}
  Blocks = {a, b, c}
  Sectors = {0, 1}
  Ways = 2
  Setups <- MCSetups
  MissQueueSize = 2
  ReadPorts = 2
  WritePorts = 1
INVARIANTS OneReply MshrBacked RetrySentNothing LineFilledByOwnData
PROPERTIES ArrivedIsAnswered
