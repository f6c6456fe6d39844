\* A device of 7 grains, of which mode 1 may use 5, in regions of at most 3;
\* both allocation modes and an invalid one.
SPECIFICATION Spec
CONSTANTS
  kMinAllocationSize = 2
  kNumBins = 2
  kMaxInternalFragmentation = 2
  GlobalMemSize = 14
  SystemReserved = 4
  LimitAlloc = 3
  kSmallSize = 1
  kSmallBuffer = 2
  kLargeBuffer = 4
  kMinLargeAlloc = 3
  kRoundLarge = 3
  GrainModulus = 1024
  AllocModes = {1, 2, 3}
  Requests = {0, 1, 3, 5, 8, 12}
  LastGrain = 7
  AddressSpace <- MCAddressSpace
VIEW PoolView
INVARIANTS
  TypeOK
  NoCheckFails
  ChunksTileRegions
  FreeChunksAreBinned
  FreeChunksCoalesced
  NoHandleLeaks
  BlocksAreChunks
  WithinMemoryLimit
PROPERTIES
  BestFit
  GrowsOnlyWhenNeeded
  ImplementsAllocator
