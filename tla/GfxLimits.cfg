CONSTANTS
  b3 = b3
  b2 = b2
  b1 = b1
  NULL = NULL
  Junk = Junk
  None = None
  Links = {b1, b2, b3}
  Lists = {"free", "chain"}
  Shapes <- LimitShapes
  PoolSize = 8
  WordBits = 8
  WireMax = 31
  FreshPtr = {NULL}
  Uses = {}
SPECIFICATION Spec
CONSTRAINT Untainted
SYMMETRY Symmetry
INVARIANTS BuffersDisjoint RefusalCause GrowthEnds
CHECK_DEADLOCK FALSE
