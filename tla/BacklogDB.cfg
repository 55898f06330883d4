CONSTANTS
  Entities = {e1, e2, e3}
  Addresses = {e3}
  Resubmitted = {e1}
  Owners = {o1, o2}
  AssetTypes = {"FQDN", "IPAddress"}
  NoOwner = NoOwner
  NoRow = NoRow
  TypeOf <- MCTypeOf
  TTL = 1
  MaxTime = 2
  MaxEnqueues = 2
  MaxClaims = 2
SPECIFICATION Spec
INVARIANTS
  CompletedOncePerEnqueue
  ExclusiveClaims
PROPERTY
  OldestFirst
SYMMETRY MCSymmetry
CHECK_DEADLOCK FALSE
