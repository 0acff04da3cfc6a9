SPECIFICATION Spec
CONSTANTS
  AddressLimit = 64
  RAMBlock = 32
  Byte = {0, 1}
  Logs <- FullAndShortLogs
  Images <- EmptyOrImage
  R0 = R0
  S0 = S0
  FPSCR = FPSCR
  MSP = MSP
  PSP = PSP
  Register = {R0, MSP, PSP, S0, FPSCR}
  FloatRegister = {S0}
  Value = {ZeroValue, DEFAULT_SP_VALUE}
  ZeroValue = ZeroValue
  DEFAULT_SP_VALUE = DEFAULT_SP_VALUE
  MallocOutcomes = {TRUE, FALSE}
INVARIANTS GdbTypeOK WholeLogIsRead AscendingLogIsRead SecondPassFits ImageIsKept
PROPERTIES ImplementsDumpLoader
CHECK_DEADLOCK FALSE
