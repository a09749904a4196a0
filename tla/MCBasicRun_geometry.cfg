SPECIFICATION Spec
CONSTANTS
  RANDOM_SKIP = 2
  MAX_OPT_LIMIT = 5
  MAX_THREAD = 2
  MAX_FINISHED = 1
  NS_PER_SEC = 100
  MB = 4
  Durations <- GeometryDurations
  Unwritten <- Leftover
  RunOptions <- GeometryOptions
INVARIANTS
  TypeOK
  RegionsPartitionPool
  SpansStayInRegion
  SaneRunsDoNotFault
  RaceFree
  CountIsHonest
