SPECIFICATION RtSpec
CONSTANTS
  c1 = c1
  c2 = c2
  Clients = {c1}
  NoClient = NoClient
  Num_msgs = 3
  W_SIZE = 2
  LATENCY = 1
  Boot = 3
  MaxClock = 5
PROPERTY DeliveredInOrder
