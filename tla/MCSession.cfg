SPECIFICATION Spec
CONSTANTS
  AddressLimit = 64
  Byte = {0, 1, 2, 64, 129, 130}
  RAMBlock = 64
  Launches <- SmallLaunches
  Packets <- SmallPackets
  MallocOutcomes = {TRUE, FALSE}
  Builds = {"POSIX", "WIN32"}
  CFSR = 40
  HFSR = 44
  MMFAR = 52
  BFAR = 56
INVARIANTS SessionTypeOK FaultsAreAsked FaultIsDescribed
PROPERTIES ImplementsDebugTarget ConsoleFailureEndsSession
CHECK_DEADLOCK FALSE
