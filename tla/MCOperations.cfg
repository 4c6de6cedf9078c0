SPECIFICATION MCSpec
CONSTANTS
  Ops = {1, 2, 3}
  Orphans = {3}
  Cells = {c1}
  Processes = {p1, p2}
  NoProcess = NoProcess
  NoOp = NoOp
  NoTime = NoTime
  GuestErrors = {"OwnershipChanged", "Timeout"}
  Retention = 1
  Batch = 1
  MaxTime = 1
  MaxSetbacks = 1
  MaxCrashes = 1
  MaxCopies = 2
  MaxOthers = 3
  NoReport = NoReport
SYMMETRY Symmetry
CHECK_DEADLOCK FALSE
INVARIANTS
  InterruptedMeansUntouched
  ArtifactsBacked
  ReportIsTrue
PROPERTIES
  CleanupIsSafe
