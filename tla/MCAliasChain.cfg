SPECIFICATION DisjointSpec
CONSTANTS
  AddressLimit = 16
  RAMBlock = 8
  Byte = {0}
  RegionRequests <- ChainRegions
  AliasRequests <- ChainAliases
  ReadOnlyRequests = {}
  LoadRequests = {}
  FlashImages = {}
  AccessAddresses = {}
  AccessSizes = {1, 2, 4}
  WatchRequests = {}
  MallocOutcomes = {TRUE}
  MaxRegions = 3
  MaxCount = 1
INVARIANTS AliasesFollowRedirect
VIEW SimState
