SPECIFICATION MCSpec
CONSTANTS
  None = None
  Commands <- MCCommands
  Host = "windows"
  MaxChanges = 11
  MaxEdits = 3
INVARIANTS
  ExitTruth
  RetryableIsSafe
  ChecksFirst
  LeftCellIsNamed
  SessionStops
  GuidanceIsSafe
  NoRelabelling
CHECK_DEADLOCK FALSE
