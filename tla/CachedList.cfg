SPECIFICATION FairSpec
CONSTANTS
  Readers = {r1, r2}
  Writers = {w1}
  MaxVersion = 2
  Ttl = 1
INVARIANTS
  TypeOK
  ReadYourWrites
PROPERTIES
  SelfCorrects
