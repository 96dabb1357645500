SPECIFICATION Spec
CONSTANTS
  NumBuses = 2
  NumDevices = 2
  NumFunctions = 3
  Machines <- MCMachines
  PageSize = 4096
  WindowSize = 16384
  PointerSlots = 2
INVARIANTS
  TypeOK
  ScanExact
  WindowsApart
  AccessReachesController
  PanicOnlyBeyondLimits
  RunsConfigured
PROPERTIES
  AckOnly
  ConfiguredWhileHalted
  BringUpEnds
CHECK_DEADLOCK FALSE
