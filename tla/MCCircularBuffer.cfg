SPECIFICATION Spec
CONSTANTS
  Capacity = 4
  MaxPiece = 4
  MaxBytes = 9
INVARIANTS
  TypeOK
  NoOverwrite
  DatumInOrder
  AccessesSafe
PROPERTIES
  LayoutComplete
  ImplementsFifo
CHECK_DEADLOCK FALSE
