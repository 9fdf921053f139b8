SPECIFICATION FairSpec
CONSTANTS
  num_streams = 1
  blksize = 1
  rate = 6
  INT_MAX = 100
  Directions = {TRUE, FALSE}
  duration = 2
  omit = 1
  bytes = 0
  stats_interval = 500000
  reporter_interval = 500000
  pacing_timer = 1000000
  grace_period = 0
  TICK = 1000000
  MAX_SKEW = 0
  MAX_CLOCK = 3
  MAX_PACKETS = 2
  Faults = {"lost_hello", "nobufs", "terminate"}
CHECK_DEADLOCK FALSE
INVARIANTS
  PointersLive
  NoTimerLeft
  IntervalsAddUp
  ReportsAreFresh
  
  LossIsTrue
PROPERTIES
  TestEnds
