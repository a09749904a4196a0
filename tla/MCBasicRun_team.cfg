SPECIFICATION FairSpec
CONSTANTS
  RANDOM_SKIP = 2
  MAX_OPT_LIMIT = 5
  MAX_THREAD = 3
  MAX_FINISHED = 1
  NS_PER_SEC = 100
  MB = 4
  Durations <- TeamDurations
  Unwritten <- Leftover
  RunOptions <- TeamOptions
PROPERTIES
  SummaryAfterAllReports
  RunEnds
