CONSTANTS
  Polls = 2
  MaxItems = 2
  FillSize = 1
  SweepCap = 2
  MaxStranded = 1
  MaxFaults = 1
  Deadlines = TRUE
  MayKill = TRUE
SPECIFICATION FairSpec
INVARIANTS
  StopsWhenKilled
PROPERTIES
  CliFinishes
CHECK_DEADLOCK FALSE
