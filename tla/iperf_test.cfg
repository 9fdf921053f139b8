SPECIFICATION FairSpec
CONSTANTS
  p = p
  q = q
  Clients = {p, q}
  NoConn = NoConn
  MAX_STREAMS = 2
  mode <- ModeOf
  num_streams <- StreamsOf
  omit <- OmitOf
  Mortal = {p, q}
  reopen = {q}
  one_off = FALSE
  MayFail = {"listen", "auth", "rate", "idle", "rcv_timeout", "grace", "signal"}
INVARIANTS
  IperfTypeOK
  StreamsAreTheClients
  InStep
  RunningTogether
CHECK_DEADLOCK FALSE
PROPERTIES
  IsService
  EveryClientEnds
  ServesAgain
