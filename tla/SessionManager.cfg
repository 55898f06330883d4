CONSTANTS
  s1 = s1
  s2 = s2
  r1 = r1
  r2 = r2
  p1 = p1
  p2 = p2
  Sessions = {s1, s2}
  Requests = {r1}
  Posts = {p1, p2}
  MayShutdown = TRUE
  NoSession = NoSession
SPECIFICATION FairSpec
INVARIANTS
  HookOnce
  OpenWhileListed
  GoneIsKilled
  ListedAreGone
PROPERTIES
  EndWorkAnswered
CHECK_DEADLOCK FALSE
