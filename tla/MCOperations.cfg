SPECIFICATION Spec
CONSTANTS
  Id = {x1, x2}
  Path = {p, q}
  Managed = {p}
  Chunks = 2
  Nothing = Nothing
  Configured = q
  MaxBackends = 2
  Version <- MCVersion
  Report <- MCReport
  Exceptions <- MCExceptions
  MaxDay = 1
  Reports <- MCReports
  MinImprovement = 15
  ErrorBudget = 5
  LatencyBudget = 5
  ShedBudget = 20
  Target = "chat"
  MaxAdopted = 2
SYMMETRY Symmetry
INVARIANTS
  DownloadsAreOwned
  FilesAreSound
  
  RegistryIsRight
  DriftIsBounded
PROPERTIES
  CancelDecides
  FilesStayListed
CHECK_DEADLOCK FALSE
