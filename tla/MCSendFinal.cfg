SPECIFICATION Spec
CONSTANTS
  Capacity = 4
  KernelRoom = 2
  Sizes = {2}
  MaxPackets = 1
INVARIANT PeerGetsStream
CHECK_DEADLOCK FALSE
