CONSTANTS
  s1 = s1
  e1 = e1
  e2 = e2
  c1 = c1
  c2 = c2
  m = m
  Sessions = {s1}
  Entities = {e1}
  Addresses = {}
  AssetTypes = {"FQDN"}
  TypeOf <- MCTypeOf
  Owners <- MCOwners
  Metas = {m}
  Callers = {c1, c2}
  Scripts <- TwiceScripts
  Started = {}
  Killable = {s1}
  MaxQueued = 1
  LowWater = 0
  PerSessBurst = 1
  MayShutdown = TRUE
  PipeDepth = 1
  Peers = 1
  CChanCap = 1
  MaxFaults = 0
  NoRow = NoRow
  NoOwner = NoOwner
  NoMeta = NoMeta
  NoType = NoType
  NoElement = NoElement
SPECIFICATION FairSpec
PROPERTIES
  QueuedIsProcessed
  MetaReclaimed
CHECK_DEADLOCK FALSE
