SPECIFICATION Spec
CONSTANTS
  l = l
  k1 = k1
  c1 = c1
  c2 = c2
  N = 2
  MaxTaskSize = 1
  Conns = {c1, c2}
  Listener = l
  Clients = {k1}
  Openers <- SomeOpeners
  None = None
INVARIANTS
  OneThread
  RegisteredIsHeld
  ServedIsManaged
PROPERTIES
  OneWay
  AddedIsPolled
  InvalidIsDestroyed
  ShutdownEnds
CHECK_DEADLOCK FALSE
