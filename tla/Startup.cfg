SPECIFICATION Spec
CONSTANTS
  Procs = {p1, p2, p3}
  Nobody = Nobody
  Stale = Stale
SYMMETRY Symmetry
INVARIANTS TypeOK PoolsPrivate NullCause
PROPERTIES RefusedCause ImplementsLock
CHECK_DEADLOCK FALSE
