SPECIFICATION Spec
CONSTANTS
  w = w
  x = x
  a = a
  b = b
  Names = {w, x}
  Addrs = {a, b}
  Block = Block
  Registration = Registration
  Worlds <- GapWorlds
INVARIANT
  NoPermanentGap
CHECK_DEADLOCK FALSE
