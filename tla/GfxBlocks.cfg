CONSTANTS
  b3 = b3
  b2 = b2
  b1 = b1
  NULL = NULL
  Junk = Junk
  None = None
  Links = {b1, b2, b3}
  Lists = {"free", "chain"}
  Shapes <- SmallShapes
  PoolSize = 2
  WordBits = 6
  WireMax = 7
  FreshPtr = {NULL, Junk}
  Uses = {"deallocate", "attach", "resize", "deinit"}
SPECIFICATION Spec
CONSTRAINT OneWhenTainted
SYMMETRY Symmetry
INVARIANTS TypeOK ListsAgree OneOwner ReleaseFindsBlock
PROPERTIES DeinitFreesPooled InUseOnlyFromPool
CHECK_DEADLOCK FALSE
