SPECIFICATION Spec
CONSTANTS
  RANDOM_SKIP = 1024
  MAX_OPT_LIMIT = 10000000
  MAX_THREAD = 1
  MAX_FINISHED = 1
  NS_PER_SEC = 1000000000
  MB = 1048576
  Durations <- FullSizeDurations
  Unwritten <- NoFailure
  RunOptions <- FullSizeOptions
INVARIANT
  AccessBelowEnd
