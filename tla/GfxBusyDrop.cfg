CONSTANTS
  b2 = b2
  b1 = b1
  NULL = NULL
  Junk = Junk
  None = None
  Links = {b1, b2}
  Lists = {"free", "chain"}
  Shapes <- SmallShapes
  PoolSize = 2
  WordBits = 6
  WireMax = 7
  FreshPtr = {NULL}
  Uses = {"attach"}
SPECIFICATION Spec
SYMMETRY Symmetry
INVARIANT AcquireAssertHolds
CHECK_DEADLOCK FALSE
