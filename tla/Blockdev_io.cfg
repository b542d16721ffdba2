SPECIFICATION Spec
CONSTANTS
  AhciMax = 2
  VblkMax = 2
  AtaMax = 2
  Capacity = 3
  VblkCapacity = 3
  IndexSize = 4
  Extents <- MCExtents
  MaxCalls = 3
INVARIANTS TypeOK   FailureHasACause
PROPERTY TransfersReturn
CHECK_DEADLOCK FALSE
