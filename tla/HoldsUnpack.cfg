SPECIFICATION Spec
CONSTANTS
  Users = {u1, u2}
  Calls = {c1}
  Total = 2
  Ttl = 1
  MaxClock = 2
  UnpackLimit = 1
SYMMETRY Symmetry
INVARIANTS
  SeatsComeBack
