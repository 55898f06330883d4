SPECIFICATION Spec
CONSTANTS
  Domain <- MCDomain
  Covering <- MCCovering
  Blacklist <- MCBlacklist
  Alike <- MCAlike
  Norm <- MCNorm
  Country <- MCCountry
  Worlds <- MCWorlds
INVARIANTS
  OneOrganization
  InScopeOnce
  ReviewedReaches
CHECK_DEADLOCK FALSE
