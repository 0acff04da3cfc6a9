SPECIFICATION Spec
CONSTANTS
  AddressLimit = 32
  RAMBlock = 8
  Byte = {0, 1}
  Elfs <- WrapElfs
  Behind <- SameBehind
  EhdrSize = 2
  PhdrSize = 1
  MallocOutcomes = {TRUE}
INVARIANT OnlyWellFormedIsLoaded
CHECK_DEADLOCK FALSE
