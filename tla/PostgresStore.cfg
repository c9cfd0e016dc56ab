SPECIFICATION FairSpec
CONSTANTS
  Events = {e1}
  Users = {u1, u2, u3}
  Capacities = {2, 3}
  Wants = {1, 2}
  Conns = {c1, c2}
  NoConn = NoConn
  MaxClock = 1
INVARIANTS
  TypeOK
  SeatsConserved
  OnePlacePerUser
  QueueBlocked
  ReadStaysTrue
  ConstraintsNeverFire
PROPERTIES
  ImplementsLedger
  PlaceBounded
  TransactionsEnd
