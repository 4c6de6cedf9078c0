SPECIFICATION MCSpec
CONSTANTS
  None = None
  Records <- Manifests
  MaxWrites = 3
  MaxCrashes = 1
  MaxPowerLoss = 1
  Images = {i1}
  Cells = {c1, c2}
  Files = {f1}
  Extension <- MCExtension
  Inodes = {n1, n2}
  Contents <- MCContents
  Platforms = {"linux", "windows"}
  Providers = {"hyperv", "qemu"}
  GuestSystems = {"linux", "windows"}
  Processes = {p1, p2}
  NoProcess = NoProcess
  MaxEdits = 2
  MaxRecords = 2
INVARIANTS
  ReportedIsDurable
  CheckIsExact
  DependenciesRegistered
  OverlayFromRegisteredBase
  UsableMeansCreatable
SYMMETRY Symmetry
CHECK_DEADLOCK FALSE
