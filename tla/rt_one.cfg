SPECIFICATION RtFairSpec
CONSTANTS
  c1 = c1
  c2 = c2
  Clients = {c1}
  NoClient = NoClient
  Num_msgs = 3
  W_SIZE = 3
  LATENCY = 0
  Boot = 2
  MaxClock = 2
INVARIANTS
  NeededIsCached
PROPERTY EveryMessagePasses
