SPECIFICATION Spec
CONSTANTS
  Windows = {w1}
  MaxInits = 1
  MaxSerial = 1
  NULL = NULL
INVARIANTS NotDefunct
CHECK_DEADLOCK FALSE
