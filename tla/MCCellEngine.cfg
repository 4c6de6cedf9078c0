SPECIFICATION Spec
CONSTANTS
  Cells = {c1}
  Processes = {p1, p2}
  VmIds = {v1, v2}
  c1 = c1
  c2 = c2
  p1 = p1
  p2 = p2
  v1 = v1
  v2 = v2
  NoProcess = NoProcess
  NoCell = NoCell
  NoId = NoId
  NoVm = NoVm
  NoMarker = NoMarker
  Foreign = Foreign
  Provider = "hyperv"
  MaxDrift = 1
  MaxOrphans = 1
INVARIANTS TombstoneMeansReleased EveryVmAccountedFor OwnershipNeverLost
SYMMETRY Symmetric
PROPERTIES VerbsTouchOnlyRecordedVms StartsOnlyConfiguredVms ManifestNeverRegresses ImplementsLifecycle
