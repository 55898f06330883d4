SPECIFICATION Spec
CONSTANTS
  n1 = n1
  n2 = n2
  far = far
  a1 = a1
  a2 = a2
  Item = {n1, n2, far}
  Scope = {n1, n2}
  Asset = {a1, a2}
  Eligible = {a1, a2}
  Contents <- MCContents
  BlockOf <- MCBlockOf
  MaxKeys = 2
  TTL = 0
  MaxTime = 1
  MaxSessions = 2
  MaxFaults = 1
INVARIANTS
  SkippedIsCovered
CHECK_DEADLOCK FALSE
