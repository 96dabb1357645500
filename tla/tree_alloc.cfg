SPECIFICATION Spec
CONSTANTS
  MaxHeight = 5
  AreaList <- MCAreaList
  Requests <- MCRequests
  Hhdm <- MCHhdm
INVARIANTS
  KeysOrdered
  Balanced
  MaxSizeExact
  AllocComplete
  NodesConserved
  NoPanic
PROPERTIES
  PoolSpec
