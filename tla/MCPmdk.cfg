SPECIFICATION PmdkSpec
CONSTANTS
  Threads = {t1}
  Uuids = {1, 2}
  Addresses = {100, 200}
  Offsets = {0, 8}
  NULL = NULL
  INT_MOD = 4
  MAX_CLOSES = 3
  Fields <- MCFields
  Programs <- MCPrograms
  Errors = {1, 2}
  Noise = 9
  Garbage = Indeterminate
  Builds = {FALSE, TRUE}
  TypeNames <- MCTypeNames
  RootType = "root"
  Places <- MCPlaces
  NoType = NoType
  MAX_COUNTER = 1
  Objects <- MCObjects
  Types <- MCTypes
  Heads = {h1, h2}
  Elements <- MCElements
VIEW View
INVARIANTS
  NeverStale
  BlockInv
  TypesAreTold
  LoopsInv
  ListsInv
PROPERTIES
  AllOrNothing
  ImplementsSequences
  LoopsEnd
