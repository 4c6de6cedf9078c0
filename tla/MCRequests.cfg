SPECIFICATION MCSpec
CONSTANTS
  None = None
  Documents <- MCDocuments
  Configs <- MCConfigs
  Flags <- MCFlags
  MaxChanges = 1
  NSources = 2
  NCopies = 2
  MaxBytes = 2
  MaxEdits = 2
  Host = "linux"
  Guest = "linux"
INVARIANTS
  NothingLate
  ConfigObeyed
  PlanIsBest
  NoFallback
  OnlyBoundInputs
CHECK_DEADLOCK FALSE
