SPECIFICATION PartsSpec
CONSTANTS
  p1 = p1
  p2 = p2
  p3 = p3
  Unset = Unset
  B8 = B8
  B64 = B64
  t1 = t1
  t2 = t2
  Sizes <- MCSizes
  Names <- MCNames
  Pairs <- MCPairs
  Other = Other
  SumTexts <- MCSumTexts
  Counts <- MCCounts
  Values <- MCValues
  Lines <- MCLines
  MixedTexts <- MCMixedTexts
  MaxFiles = 3
  NSEC = 3
  SIZE_MOD = 32
  MAX_CLOCK = 12
  RUN = 4
  LATEST_START = 7
  Uninit <- Garbage
  Boot <- Booted
  WORD = 128
  MHZ = 11
  KILO = 5
  MAX_START = 3
  MAX_CYCLES = 17
  Delays <- Requests
  Processors <- Packages
  Skew <- Synced
  CommandLines <- Shell
  Builds <- AllBuilds
  Mappings <- Lengths
  Addresses <- OneAddress
  INT_MOD = 16
  SIZE_T_MOD = 256
  MB = 16
  BLOCK_SIZE = 8
  DATA_AMOUNT = 32
  PMEM_SIZE = 64
  ALIGN_SIZE = 16
  Programs <- AllPrograms
  numa_bind <- Table
  MAX_THREAD = 5
  SSD_THREADS = 5
  CPU_SETSIZE = 8
  Online <- FourProcessors
  Beyond <- Behind
INVARIANTS
  OptionsInv
  BindingInv
  SheetsInv
  NeverEarly
  NeverShort
PROPERTIES
  IsStopwatch
  WaitsEnd
