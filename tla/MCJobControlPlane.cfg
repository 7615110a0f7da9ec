\* One job, two requests in flight next to the sweeper: every race between
\* two callbacks and a Tick.
SPECIFICATION Spec
CONSTANTS
  Jobs = {j1}
  Workers = {w1}
  Requests = {r1, r2}
  Fatal = {}
  Reported = {"succeeded", "failed"}
  MaxRetries = 1
  MaxFailures = 1
  NoWorker = NoWorker
  NoJob = NoJob
SYMMETRY Symmetry
INVARIANTS
  RetryDispatchBudget
  IdempotentDispatch
  LeaseTimeoutEarned
  RowConsistent
PROPERTIES
  TerminalLeftOnlyOnStaleRead
