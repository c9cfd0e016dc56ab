SPECIFICATION Spec
CONSTANTS
  Users = {u1, u2}
  Calls = {c1, c2}
  Total = 2
  Ttl = 1
  MaxClock = 2
  UnpackLimit = 2
SYMMETRY Symmetry
INVARIANTS
  HoldsKeepSeats
