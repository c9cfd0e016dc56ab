SPECIFICATION Spec
CHECK_DEADLOCK FALSE
CONSTANTS
  Events = {e1}
  Users = {u1, u2, u3}
  Capacities = {2}
  Wants = {1, 2}
  Calls = {c1, c2}
  MaxRepeats = 2
  MaxOutcomes = 5
SYMMETRY Symmetry
INVARIANTS
  TypeOK
  NeverToldTwice
  NothingForgotten
