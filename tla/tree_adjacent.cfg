SPECIFICATION Spec
CONSTANTS
  MaxHeight = 5
  AreaList <- MCAreaList
  Requests <- MCRequests
  Hhdm <- MCHhdm
INVARIANTS
  NoPanic
