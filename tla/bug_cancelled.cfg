SPECIFICATION Spec
CONSTANTS
  num_streams = 1
  blksize = 1
  rate = 6
  INT_MAX = 100
  Directions = {TRUE, FALSE}
  duration = 1
  omit = 0
  bytes = 0
  stats_interval = 3000000
  reporter_interval = 3000000
  pacing_timer = 1000000
  grace_period = 1
  TICK = 1000000
  MAX_SKEW = 0
  MAX_CLOCK = 2
  MAX_PACKETS = 2
  Faults = {}
INVARIANT CancelledNeverRuns
CHECK_DEADLOCK FALSE
