SPECIFICATION Spec
CONSTANTS
  Capacity = 4
  KernelRoom = 2
  Sizes = {2, 3}
  MaxPackets = 3
INVARIANT SendsTheData
CHECK_DEADLOCK FALSE
