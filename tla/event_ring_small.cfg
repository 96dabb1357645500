SPECIFICATION Spec
CONSTANTS
  SegmentSize = 4
  BufferLens <- MCBufferLens
  MaxEvents = 11
INVARIANTS
  AmountsAddUp
