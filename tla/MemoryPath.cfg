CONSTANTS
  NNodes = 6
  Packets = {"a", "b", "c"}
  NCores = 2
  NPorts = 2
  NChans = 2
  CoreOf <- MCCoreOf
  ChanOf <- MCChanOf
SPECIFICATION FairSpec
INVARIANTS
  OneRoundTrip
PROPERTIES
  ImplementsRequestPath
  EveryRequestAnswered
