SPECIFICATION Spec
CONSTANTS
  AddressLimit = 32
  RAMBlock = 8
  Byte = {0, 1}
  f = f
  g = g
  d = d
  ArgumentLists <- CommandLines
  ImageFile = {f, g}
  DumpFile = {d}
  NoFile = NoFile
  BinData <- Bytes
  ElfImages <- FlashImages
  PartialImages <- Unfinished
  DumpRegions <- RAM
  FileOutcomes = {TRUE, FALSE}
  MallocOutcomes = {TRUE, FALSE}
INVARIANTS CommandLineTypeOK EverythingIsReleasedOnce ArgumentsAreCheckedFirst
  LastOptionDecides AliasesAreMade CountersBeforeSession
PROPERTIES LaunchEnds
CHECK_DEADLOCK FALSE
