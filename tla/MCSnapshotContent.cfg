SPECIFICATION Spec
CONSTANTS
  Requests = {r1, r2}
  Datasets = {d1}
  Keys = {"k1", "k2"}
  Categories = {"car"}
  Payloads <- Lists
  Proposals <- Proposed
  MaxSnapshots = 2
  MaxJobs = 2
  MaxPosts = 3
  MaxCandidates = 1
  MaxFailures = 1
SYMMETRY Perms
CHECK_DEADLOCK FALSE
INVARIANTS
  VersionsFollowIds
  AckedImportIsComplete
  ChangesTellOfRows
  MixedOnlyByOverlap
  DecidedOnce
  ConflictHasCause
