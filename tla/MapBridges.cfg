CONSTANTS
  MaxBus = 3
  MaxClaims = 3
  HeapBytes = {0}
SPECIFICATION Spec
INVARIANT TypeOK
INVARIANT VisitedOnce
INVARIANT EntryNested
INVARIANT WalkComplete
PROPERTY Termination
CHECK_DEADLOCK FALSE
