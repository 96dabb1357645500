SPECIFICATION Spec
CONSTANTS
  RingSize = 5
  MaxCommands = 13
INVARIANTS
  TypeOK
  ExecutedInOrder
  SubmittedIsNext
  FullLapCanEnd
