SPECIFICATION TcpFairSpec
CONSTANTS
  c = c
  d = d
  TcpSenders = {c, d}
  Size <- SizeOfTwo
  HDR = 2
  MSG = 2
  SOCKBUF = 5
  MAXCONN = 2
INVARIANTS
  EachInOrder
  ClosedMeansCopied
PROPERTY EveryTransferEnds
CHECK_DEADLOCK FALSE
