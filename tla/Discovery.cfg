SPECIFICATION Spec
CONSTANTS
  w = w
  x = x
  a = a
  b = b
  Names = {w, x}
  Addrs = {a, b}
  Block = Block
  Registration = Registration
  Worlds <- MCWorlds
INVARIANTS
  ScannedOncePerTTL
  ResolvedIsScanned
  NoMissedIP
PROPERTIES
  OnlyAuthorisedContacted
CHECK_DEADLOCK FALSE
