CONSTANTS
  u1 = u1
  u2 = u2
  u3 = u3
  Users = {u1, u2, u3}
  MaxConns = 2
  MaxSessions = 2
  MaxResizes = 1
SPECIFICATION SemFairSpec
INVARIANTS
  TokensConserved
  CrashOnlyAfterKill
PROPERTIES
  AcquireServed
  ReleaseCompletes
CHECK_DEADLOCK FALSE
