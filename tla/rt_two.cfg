SPECIFICATION RtSpec
CONSTANTS
  c1 = c1
  c2 = c2
  Clients = {c1, c2}
  NoClient = NoClient
  Num_msgs = 3
  W_SIZE = 1
  LATENCY = 0
  Boot = 2
  MaxClock = 3
INVARIANTS
  ServerNeverHangs
