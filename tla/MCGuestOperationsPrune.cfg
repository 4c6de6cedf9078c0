SPECIFICATION FairSpec
CONSTANTS
  Ops = {1, 2}
  Orphans = {}
  Cells = {c1}
  Processes = {p1}
  NoProcess = NoProcess
  NoOp = NoOp
  NoTime = NoTime
  GuestErrors = {}
  Retention = 0
  Batch = 1
  MaxTime = 1
  MaxSetbacks = 0
  MaxCrashes = 1
CHECK_DEADLOCK FALSE
PROPERTIES
  RemovalCompletes
