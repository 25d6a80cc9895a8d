SPECIFICATION Spec
CONSTANTS
  Versions = {3, 5}
  Foreign <- MCForeign
  MaxObjects = 3
  MaxFlight = 2
INVARIANTS TypeOK MeansWhatWasCalled SameObjects UnreadableCause HeardAsSent NoNullSlot
CHECK_DEADLOCK FALSE
