CONSTANTS
  s1 = s1
  e1 = e1
  e2 = e2
  c1 = c1
  c2 = c2
  m = m
  Sessions = {s1}
  Entities = {e1, e2}
  Addresses = {}
  AssetTypes = {"FQDN"}
  TypeOf <- MCTypeOf
  Owners <- MCOwners
  Metas = {m}
  Callers = {c1, c2}
  Scripts <- RacingScripts
  Started = {}
  Killable = {}
  MaxQueued = 1
  LowWater = 0
  PerSessBurst = 2
  MayShutdown = FALSE
  PipeDepth = 1
  Peers = 2
  CChanCap = 1
  MaxFaults = 1
  NoRow = NoRow
  NoOwner = NoOwner
  NoMeta = NoMeta
  NoType = NoType
  NoElement = NoElement
SPECIFICATION Spec
INVARIANTS
  ScheduledOnce
  MetaAccounted
  QueueBounded
  LeasesAccounted
PROPERTIES
  QueuedIsClaimedFirst
  LedgerSpec
