SPECIFICATION MCSpec
CONSTANTS
  None = None
  Limit = 2
  MaxBytes = 3
  Platforms = {"linux", "windows"}
  Pids = {a, b}
  MaxToken = 4
  MaxLaunches = 2
  MaxFaults = 2
  LastSession = 4
  Verbs = {"probe", "exec", "deny", "replace", "out"}
  Chunks = 2
  MaxPolls = 2
INVARIANTS
  OkIsWhole
  DefinitionIsTrue
  OwnAnswers
  ResultIsTrue
PROPERTIES
  CallReturns
  CommandEnds
CHECK_DEADLOCK FALSE
