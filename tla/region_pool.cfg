SPECIFICATION Spec
CONSTANTS
  Areas <- MCAreas
  Requests <- MCRequests
  Hhdm <- MCHhdm
INVARIANTS
  TypeOK
  FreeApart
  FreeClearOfLive
PROPERTIES
  HeapSpec
CHECK_DEADLOCK FALSE
