SPECIFICATION Spec
CONSTANTS
  MemoryMaps <- MCMemoryMaps
  LowMemory = 3
  MinBumpArea = 12
  BumpSize = 11
  StackSize = 1
  NodeSize = 2
  NodeAlign = 2
  Layouts <- MCLayouts
  PageSize = 2
  DeviceLayouts <- MCDeviceLayouts
  AddressLimit <- MCAddressLimit
  Hhdm = 2
INVARIANTS
  DeviceInWindow
CHECK_DEADLOCK FALSE
