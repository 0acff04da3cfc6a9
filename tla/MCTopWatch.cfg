SPECIFICATION DisjointSpec
CONSTANTS
  AddressLimit = 16
  RAMBlock = 8
  Byte = {0}
  RegionRequests <- TopRegions
  AliasRequests = {}
  ReadOnlyRequests = {}
  LoadRequests = {}
  FlashImages = {}
  AccessAddresses = {12, 14}
  AccessSizes = {1, 2, 4}
  WatchRequests <- TopWatchPoints
  MallocOutcomes = {TRUE}
  MaxRegions = 1
  MaxCount = 1
PROPERTIES WatchpointCoversItsBytes
VIEW SimState
