SPECIFICATION Spec
CONSTANTS
  ADDR_SPACE = 4096
  Calls <- MCCalls
INVARIANTS
  MovesLikeMemmove
  AlignedNeverTraps
PROPERTY
  CopyEnds
