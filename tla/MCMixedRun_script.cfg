SPECIFICATION Spec
CONSTANTS
  RANDOM_SKIP = 2
  MAX_OPT_LIMIT = 5
  MAX_THREAD = 2
  MAX_FINISHED = 3
  NS_PER_SEC = 100
  MB = 4
  Durations <- ClockDurations
  Unwritten <- NoFailure
  RunOptions <- ScriptOptions
INVARIANT
  BlockSizeIsUsed
