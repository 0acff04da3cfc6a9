SPECIFICATION Spec
CONSTANTS
  AddressLimit = 16
  RAMBlock = 8
  Byte = {0, 1}
  Dumps <- CompleteAndCut
  Images <- EmptyOrImage
  RegisterCount = 3
  FloatCount = 2
  V = V
  Value = {ZeroValue, DEFAULT_SP_VALUE, V}
  ZeroValue = ZeroValue
  DEFAULT_SP_VALUE = DEFAULT_SP_VALUE
  CRASH_CATCHER_STACK_SENTINEL = 9
  MallocOutcomes = {TRUE, FALSE}
INVARIANTS DumpTypeOK ImageIsKept DumpIsRead CutIsNoticed OverflowIsReportedLast
PROPERTIES ImplementsDumpLoader
CHECK_DEADLOCK FALSE
