SPECIFICATION FairSpec
CONSTANTS
  MAX_THREAD = 2
  QUEUE = 2
  PAGE = 2
  MAX_UNIT = 14
  MB = 2
  Durations <- TwoDurations
  Args <- Calling
INVARIANTS
  WritesInPlace
  ReturnIsHonest
  SaneRunsDoNotFault
PROPERTIES
  SumAfterAllRates
  RunEnds
