SPECIFICATION Spec
CONSTANTS
  Capacity = 4
  KernelRoom = 2
  Sizes = {2, 4}
  MaxPackets = 2
INVARIANT TooBigIsDropped
CHECK_DEADLOCK FALSE
