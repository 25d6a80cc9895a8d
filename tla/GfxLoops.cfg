CONSTANTS
  b3 = b3
  b2 = b2
  b1 = b1
  NULL = NULL
  Junk = Junk
  None = None
  Links = {b1, b2, b3}
  Lists = {"free", "chain"}
  Shapes <- SmallShapes
  PoolSize = 2
  WordBits = 6
  WireMax = 7
  FreshPtr = {NULL}
  Uses = {"deallocate", "resize", "deinit"}
SPECIFICATION FairSpec
CONSTRAINT TaintedInLoop
PROPERTIES LoopsEnd
CHECK_DEADLOCK FALSE
