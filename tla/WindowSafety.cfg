SPECIFICATION Spec
CONSTANTS
  Windows = {w1, w2}
  MaxInits = 3
  MaxSerial = 2
  NULL = NULL
SYMMETRY Symmetry
INVARIANTS TypeOK NoOrphans ListenerFindsWindow StaleCause ErrorCause SameObjects
CHECK_DEADLOCK FALSE
