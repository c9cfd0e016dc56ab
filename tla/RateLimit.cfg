SPECIFICATION Spec
CONSTANTS
  Calls = {c1, c2}
  Limit = 2
  Window = 2
  Retries = 1
  MaxRequests = 3
  MaxClock = 2
SYMMETRY Symmetry
INVARIANTS
  TypeOK
  WithinLimit
  RefusedForThisWindow
  WaitIsEnough
CHECK_DEADLOCK FALSE
