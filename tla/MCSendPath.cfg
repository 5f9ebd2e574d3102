SPECIFICATION Spec
CONSTANTS
  Capacity = 4
  KernelRoom = 2
  Sizes = {2, 3, 4}
  MaxPackets = 3
INVARIANTS
  StreamInOrder
PROPERTIES
  RingIsFifo
  BufferedIsSent
  FinalSyncEnds
CHECK_DEADLOCK FALSE
