SPECIFICATION PartsSpec
CONSTANTS
  c1 = c1
  c2 = c2
  Jobs = {j1, j2}
  Fatal = {j2}
  MaxRetries = 2
  NoJob = NoJob
  Lists <- MCLists
  Rows <- MCRows
  Tables <- MCTables
  MaxRows = 3
  Thresholds <- MCThresholds
  Words = {"", "a", "b", "c", "jpg", "png", "txt"}
  Keys <- MCKeys
  Boxes <- MCItemBoxes
  MaxItems = 3
  Limit = 2
  Window = 3
  TicksPerSecond = 2
  Callers = {c1, c2}
  MaxTime = 6
  Width = 8
  DefaultBase = 5
  Bases <- MCBases
  Maxima <- MCMaxima
  Retries = {0, 1, 2, 3, 4, 5, 8, 20}
INVARIANTS
  DiffIsFaithful
  DiffAgreesWithExport
  PackageIsComplete
  BurstBound
  BackoffIsDoubledAndCapped
PROPERTIES
  ImplementsLifecycle
  RetryAfterSuffices
\* The diff, the package and the delay end with their answer.
CHECK_DEADLOCK FALSE
