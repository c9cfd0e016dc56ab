SPECIFICATION Spec
CONSTANTS
  Events = {e1}
  Users = {u1, u2, u3}
  Capacities = {2}
  Wants = {1, 2}
  Conns = {c1}
  NoConn = NoConn
  MaxClock = 1
PROPERTIES
  WaitingHavePriority
