\* Two failures: the worker that took the retry and the one that reports late.
SPECIFICATION FairSpec
CONSTANTS
  j1 = j1
  j2 = j2
  w1 = w1
  w2 = w2
  Jobs = {j1}
  Workers = {w1, w2}
  Accepts <- OneJobAccepts
  MaxRetries = 2
  MaxFailures = 2
  MaxStalls = 1
  NoJob = NoJob
PROPERTY
  RunningIsResolved
CHECK_DEADLOCK FALSE
