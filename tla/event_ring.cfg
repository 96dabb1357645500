SPECIFICATION Spec
CONSTANTS
  SegmentSize = 4
  BufferLens <- MCBufferLens
  MaxEvents = 11
INVARIANTS
  TypeOK
  CycleMarksUnread
  SegmentFits
PROPERTIES
  QueueSpec
