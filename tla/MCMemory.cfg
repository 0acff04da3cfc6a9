SPECIFICATION DisjointSpec
CONSTANTS
  AddressLimit = 16
  RAMBlock = 8
  Byte = {0, 1}
  RegionRequests <- MemoryRAM
  AliasRequests <- MemoryAliases
  ReadOnlyRequests = {4, 12}
  LoadRequests <- MemoryLoads
  FlashImages <- MemoryFlash
  AccessAddresses <- MemoryAccesses
  AccessSizes = {1, 2, 4}
  WatchRequests <- MemoryWatchPoints
  MallocOutcomes = {TRUE}
  MaxRegions = 4
  MaxCount = 2
INVARIANTS NeverWild AliasesFollowRedirect
PROPERTIES ImplementsFlatMemory
VIEW SimState
