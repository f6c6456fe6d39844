\* Requests of ten grains and more, a driver that may refuse every call, and a
\* size_t of 6 bits: the size of the next region goes from 40 to 16, to 32 and,
\* while a request of ten grains still fits, to 0.
SPECIFICATION FairSpec
CONSTANTS
  kMinAllocationSize = 1
  kNumBins = 4
  kMaxInternalFragmentation = 2
  GlobalMemSize = 41
  SystemReserved = 1
  LimitAlloc = 10
  kSmallSize = 1
  kSmallBuffer = 2
  kLargeBuffer = 4
  kMinLargeAlloc = 3
  kRoundLarge = 2
  GrainModulus = 64
  AllocModes = {1}
  Requests = {0, 10, 17}
  LastGrain = 42
  AddressSpace <- MCAddressSpace
PROPERTIES
  LargeCallReturns
