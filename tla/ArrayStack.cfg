CONSTANTS
  a = a
  b = b
  None = None
  Elems = {a, b}
  ElemSizes = {1, 2, 3}
  Word = 16
SPECIFICATION Spec
INVARIANTS TypeOK LimitCause
PROPERTIES ImplementsStack
CHECK_DEADLOCK FALSE
