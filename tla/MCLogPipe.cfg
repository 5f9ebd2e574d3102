SPECIFICATION Spec
CONSTANTS
  w1 = w1
  w2 = w2
  Writers = {w1, w2}
  MaxLine = 4
  Byte = 2
  Prefix = 1
  IntSize = 1
  Capacity = 12
  FileSize = 11
  Parts <- SomeParts
  MaxParts = 2
  MaxLines = 3
  None = None
INVARIANTS
  TypeOK
  OutInOrder
  WritesFit
PROPERTIES
  ComesOut
CHECK_DEADLOCK FALSE
