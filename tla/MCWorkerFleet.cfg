\* Two jobs of different types on one lane, a worker that can handle only one
\* of them, one lease that runs out under a live worker, and one process
\* killed or one push lost at any moment.
SPECIFICATION FairSpec
CONSTANTS
  j1 = j1
  j2 = j2
  w1 = w1
  w2 = w2
  Jobs = {j1, j2}
  Workers = {w1, w2}
  Accepts <- AllAccepts
  MaxRetries = 1
  MaxFailures = 1
  MaxStalls = 1
  NoJob = NoJob
INVARIANTS
  LostOnlyToFailures
PROPERTIES
  EveryJobFinishes
  RunningIsResolved
CHECK_DEADLOCK FALSE
