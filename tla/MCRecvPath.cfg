SPECIFICATION Spec
CONSTANTS
  Capacity = 8
  HeadLen = 2
  Lengths <- SomeLengths
  IntLimit = 32
  MaxFrames = 3
INVARIANTS
  BodiesInOrder
PROPERTIES
  RingIsFifo
  HandledInTheEnd
CHECK_DEADLOCK FALSE
