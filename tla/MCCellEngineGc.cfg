SPECIFICATION Spec
CONSTANTS
  Cells = {c1, c2}
  Processes = {p1}
  VmIds = {v1, v2}
  c1 = c1
  c2 = c2
  p1 = p1
  p2 = p2
  v1 = v1
  v2 = v2
  NoProcess = NoProcess
  NoCell = NoCell
  NoId = NoId
  NoVm = NoVm
  NoMarker = NoMarker
  Foreign = Foreign
  Provider = "qemu"
  MaxDrift = 0
  MaxOrphans = 0
PROPERTIES GcSparesLiveCells
