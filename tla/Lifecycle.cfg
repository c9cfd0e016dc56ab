SPECIFICATION FairSpec
CONSTANTS
  Replicas = {r1, r2}
  Requests = {q1, q2}
  Latest = 2
  PoolSize = 1
  MaxFaults = 2
  Nobody = Nobody
INVARIANTS
  TypeOK
  ServesMigrated
  NoneCutShort
  RestartSeedsNothing
PROPERTIES
  ShutdownEnds
CHECK_DEADLOCK FALSE
