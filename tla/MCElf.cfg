SPECIFICATION Spec
CONSTANTS
  AddressLimit = 32
  RAMBlock = 8
  Byte = {0, 1}
  Elfs <- SmallElfs
  Behind <- SameBehind
  EhdrSize = 2
  PhdrSize = 1
  MallocOutcomes = {TRUE, FALSE}
INVARIANTS ElfTypeOK ElfFormatIsChecked ElfIsLoaded SegmentsAreLocked
CHECK_DEADLOCK FALSE
