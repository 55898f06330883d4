SPECIFICATION PipeSpec
CONSTANT Configs <- MCConfigs
INVARIANTS
  ExclusiveAlone
  BypassLosesNothing
PROPERTIES
  NoCallAfterCompletion
  EventCompletes
CHECK_DEADLOCK FALSE
