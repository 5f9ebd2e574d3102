SPECIFICATION Spec
CONSTANTS
  Conns = {1, 2, 3}
  Fields <- SomeFields
  MaxFields = 2
  N = 7
  Room = 8
  Short = 1
  ShortLimit = 4
  Word = 2
  Long = 4
  None = None
INVARIANTS
  ReadsBack
  Delivered
CHECK_DEADLOCK FALSE
