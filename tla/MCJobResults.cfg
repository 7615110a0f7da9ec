\* Two attempts that may overlap, with up to two candidates, frames or flagged items each.
SPECIFICATION Spec
CONSTANTS
  Kinds = {"candidates", "frames", "cleaning", "package"}
  MaxAttempts = 2
  MaxSize = 2
  MaxFailures = 2
INVARIANTS
  ResultStaysNamed
  CompletedNamesResult
  ResultOfOneAttempt
  CandidatesMatchJob
\* The attempts end.
CHECK_DEADLOCK FALSE
