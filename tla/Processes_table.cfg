CONSTANTS
  PcbMax = 3
  MaxPid = 4
SPECIFICATION Spec
INVARIANTS
  UsedSlotsAreReserved
  RunningIsOnTheStack
  ChildrenReadyOrDone
  ExecutingIsCurrent
CHECK_DEADLOCK FALSE
