SPECIFICATION MemSpec
CONSTANTS
  Events = {e1}
  Users = {u1, u2, u3, u4}
  Capacities = {2, 3}
  Wants = {1, 2, 3}
  Stamps = {0, 1, 2}
SYMMETRY Symmetry
INVARIANTS
  SeatsConserved
  OnePlacePerUser
  QueueBlocked
PROPERTIES
  ImplementsLedger
  PlaceKept
