SPECIFICATION Spec
CHECK_DEADLOCK FALSE
CONSTANTS
  Events = {e1}
  Users = {u1}
  Capacities = {1}
  Wants = {1}
  Calls = {c1}
  MaxRepeats = 2
  MaxOutcomes = 4
PROPERTIES
  DropsOnlyRepeats
