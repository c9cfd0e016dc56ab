SPECIFICATION Spec
CONSTANTS
  ann = ann
  Ann = Ann
  bob = bob
  short = short
  long = long
  other = other
  Calls = {c1, c2}
  Emails <- MCEmails
  Normal <- MCNormal
  Passwords <- MCPasswords
  First72 <- MCFirst72
  Backends = {"postgres", "memory"}
  MaxId = 2
  MaxRestarts = 1
SYMMETRY Symmetry
INVARIANTS
  TypeOK
  OneAccount
  RefusedRightly
  ConflictIsReal
  TokenNamesOwner
CHECK_DEADLOCK FALSE
