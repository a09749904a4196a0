SPECIFICATION FairSpec
CONSTANTS
  Lines <- MCLines
  Modes <- MCModes
  Targets <- MCTargets
  MAX_OPS = 2
INVARIANTS
  Durable
PROPERTIES
  ImplementsDurableStore
  WriteReturns
