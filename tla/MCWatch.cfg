SPECIFICATION Spec
CONSTANTS
  AddressLimit = 16
  RAMBlock = 8
  Byte = {0}
  RegionRequests <- WatchRegions
  AliasRequests <- WatchAliases
  ReadOnlyRequests = {4}
  LoadRequests <- WatchLoads
  FlashImages <- WatchFlash
  AccessAddresses <- WatchAccesses
  AccessSizes = {1, 2, 4}
  WatchRequests <- WatchPoints
  MallocOutcomes = {TRUE, FALSE}
  MaxRegions = 3
  MaxCount = 1
INVARIANTS TypeOK WatchpointsOrdered ScanIsComplete
PROPERTIES LaterRegionsNeverShadow FailedCallKeepsExtents
VIEW SimState
CHECK_DEADLOCK FALSE
