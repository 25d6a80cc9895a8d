CONSTANTS
  None = None
  Sizes <- MCSizes
  MaxIssued = 3
  SockCap = 2
  MaxInterrupts = 0
SPECIFICATION Spec
INVARIANT LastSizeStands
CHECK_DEADLOCK FALSE
