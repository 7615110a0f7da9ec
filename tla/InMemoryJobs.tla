---------------------------- MODULE InMemoryJobs ----------------------------
(***************************************************************************)
(* internal/jobs/repository.go: the repository the service falls back to   *)
(* when it is given none, and the one the tests of the package run on.     *)
(* Every method holds the mutex, so a method is one step.  Its callers are *)
(* the callbacks of the service, which may come at any time, and the       *)
(* sweeper, a process of its own that takes the mutex anew for every       *)
(* method it calls: a row may move between the list it was given and the   *)
(* method it calls about the row.                                          *)
(*                                                                         *)
(* The lists hold pointers to the jobs, so the retry count the sweeper     *)
(* decides on is the one at that moment.  A heartbeat first reads the job  *)
(* and calls TouchLease if it was running; by then it may have moved on,   *)
(* so TouchLease may hit any job that has run.  Worker ids, counters,      *)
(* results and finished_at are not modelled: no method decides on them.    *)
(* The lane the messages are pushed on is not part of the repository, only *)
(* that a push may fail and end the Tick.                                  *)
(***************************************************************************)
EXTENDS JobStates, Naturals

CONSTANTS
  Jobs,        \* idempotency tuples
  Fatal,       \* jobs with retry_policy.classification = "fatal"
  MaxRetries,  \* Sweeper.maxRetries
  NoJob        \* the sweeper is between two jobs

ASSUME InMemoryJobsAssumption ==
  /\ Fatal \subseteq Jobs
  /\ MaxRetries \in Nat \ {0}
  /\ NoJob \notin Jobs

VARIABLES
  status,      \* Job.Status, Absent before CreateOrGet
  leaseUntil,  \* Job.LeaseUntil
  hasRun,      \* Job.StartedAt is not nil
  retryCount,  \* Job.RetryCount
  swPc,        \* where Tick is
  swTodo,      \* the jobs of its list it has not reached yet
  swCur        \* the job it has just parked

sweeper == <<swPc, swTodo, swCur>>
vars    == <<status, leaseUntil, hasRun, retryCount, sweeper>>

SweeperPcs == {"idle", "requeue", "publish", "expire", "count"}

TypeOK ==
  /\ status \in [Jobs -> Statuses \union {Absent}]
  /\ leaseUntil \in [Jobs -> Leases]
  /\ hasRun \in [Jobs -> BOOLEAN]
  /\ retryCount \in [Jobs -> Nat]
  /\ swPc \in SweeperPcs
  /\ swTodo \in SUBSET Jobs
  /\ swCur \in IF swPc = "count" THEN Jobs ELSE {NoJob}

Init ==
  /\ status = [j \in Jobs |-> Absent]
  /\ leaseUntil = [j \in Jobs |-> NoLease]
  /\ hasRun = [j \in Jobs |-> FALSE]
  /\ retryCount = [j \in Jobs |-> 0]
  /\ swPc = "idle"
  /\ swTodo = {}
  /\ swCur = NoJob

-----------------------------------------------------------------------------
(***************************************************************************)
(* The methods the service calls.                                          *)
(***************************************************************************)
CreateOrGet(j) ==
  /\ status[j] = Absent
  /\ status' = [status EXCEPT ![j] = Queued]
  /\ UNCHANGED <<leaseUntil, hasRun, retryCount, sweeper>>

(***************************************************************************)
(* Claim starts a queued job and gives any other a new deadline all the    *)
(* same.                                                                   *)
(***************************************************************************)
Claim(j) ==
  /\ status[j] # Absent
  /\ status' = [status EXCEPT ![j] = IF @ = Queued THEN Running ELSE @]
  /\ hasRun' = [hasRun EXCEPT ![j] = @ \/ status[j] = Queued]
  /\ \E deadline \in Deadlines : leaseUntil' = [leaseUntil EXCEPT ![j] = deadline]
  /\ UNCHANGED <<retryCount, sweeper>>

TouchLease(j) ==
  /\ hasRun[j]
  /\ \E deadline \in Deadlines : leaseUntil' = [leaseUntil EXCEPT ![j] = deadline]
  /\ UNCHANGED <<status, hasRun, retryCount, sweeper>>

UpdateProgress(j) ==
  /\ status[j] # Absent
  /\ CanTransition(status[j], Running)
  /\ status' = [status EXCEPT ![j] = Running]
  /\ hasRun' = [hasRun EXCEPT ![j] = TRUE]
  /\ UNCHANGED <<leaseUntil, retryCount, sweeper>>

Complete(j, to) ==
  /\ status[j] # Absent
  /\ CanComplete(status[j], to)
  /\ status' = [status EXCEPT ![j] = to]
  /\ hasRun' = [hasRun EXCEPT ![j] = TRUE]
  /\ UNCHANGED <<leaseUntil, retryCount, sweeper>>

-----------------------------------------------------------------------------
(***************************************************************************)
(* Sweeper.Tick on this repository.                                        *)
(***************************************************************************)
EndTick == swPc' = "idle" /\ swTodo' = {} /\ swCur' = NoJob

ListRetryReady ==
  /\ swPc = "idle"
  /\ swPc' = "requeue"
  /\ swTodo' \in SUBSET {j \in Jobs : status[j] = RetryWaiting /\ leaseUntil[j] = Past}
  /\ UNCHANGED <<status, leaseUntil, hasRun, retryCount, swCur>>

UpdateStatus(j) ==
  /\ swPc = "requeue"
  /\ j \in swTodo
  /\ IF CanTransition(status[j], Queued)
       THEN /\ status' = [status EXCEPT ![j] = Queued]
            /\ leaseUntil' = [leaseUntil EXCEPT ![j] = NoLease]
            /\ swPc' = "publish"
            /\ swTodo' = swTodo \ {j}
            /\ UNCHANGED swCur
       ELSE EndTick /\ UNCHANGED <<status, leaseUntil>>
  /\ UNCHANGED <<hasRun, retryCount>>

Publish ==
  /\ swPc = "publish"
  /\ \/ swPc' = "requeue" /\ UNCHANGED <<swTodo, swCur>>
     \/ EndTick
  /\ UNCHANGED <<status, leaseUntil, hasRun, retryCount>>

ListExpiredRunning ==
  /\ swPc = "requeue"
  /\ swTodo = {}
  /\ swPc' = "expire"
  /\ swTodo' \in SUBSET {j \in Jobs : status[j] = Running /\ leaseUntil[j] = Past}
  /\ UNCHANGED <<status, leaseUntil, hasRun, retryCount, swCur>>

GivesUp(j) == j \in Fatal \/ retryCount[j] >= MaxRetries

(***************************************************************************)
(* MarkFailed checks the transition, unlike the one of the Postgres        *)
(* repository: a job that was completed after the list was read keeps its  *)
(* result, and the Tick ends with the error.                               *)
(***************************************************************************)
MayFailAlways(j) == TRUE

MayFail(j) == CanTransition(status[j], Failed)

MarkFailed(j) ==
  /\ swPc = "expire"
  /\ j \in swTodo
  /\ GivesUp(j)
  /\ IF MayFail(j)
       THEN /\ status' = [status EXCEPT ![j] = Failed]
            /\ swTodo' = swTodo \ {j}
            /\ UNCHANGED <<swPc, swCur>>
       ELSE EndTick /\ UNCHANGED status
  /\ UNCHANGED <<leaseUntil, hasRun, retryCount>>

MarkRetryWaiting(j) ==
  /\ swPc = "expire"
  /\ j \in swTodo
  /\ ~GivesUp(j)
  /\ IF CanTransition(status[j], RetryWaiting)
       THEN /\ status' = [status EXCEPT ![j] = RetryWaiting]
            /\ \E retryAt \in Deadlines : leaseUntil' = [leaseUntil EXCEPT ![j] = retryAt]
            /\ swPc' = "count"
            /\ swTodo' = swTodo \ {j}
            /\ swCur' = j
       ELSE EndTick /\ UNCHANGED <<status, leaseUntil>>
  /\ UNCHANGED <<hasRun, retryCount>>

Counted(n) == n + 1

IncrementRetryCount ==
  /\ swPc = "count"
  /\ retryCount' = [retryCount EXCEPT ![swCur] = Counted(@)]
  /\ swPc' = "expire"
  /\ swCur' = NoJob
  /\ UNCHANGED <<status, leaseUntil, hasRun, swTodo>>

TickDone ==
  /\ swPc = "expire"
  /\ swTodo = {}
  /\ EndTick
  /\ UNCHANGED <<status, leaseUntil, hasRun, retryCount>>

DeadlinePasses(j) ==
  /\ leaseUntil[j] = Future
  /\ leaseUntil' = [leaseUntil EXCEPT ![j] = Past]
  /\ UNCHANGED <<status, hasRun, retryCount, sweeper>>

-----------------------------------------------------------------------------
Callback(j) ==
  \/ CreateOrGet(j) \/ Claim(j) \/ TouchLease(j) \/ UpdateProgress(j)
  \/ \E to \in Terminal : Complete(j, to)

SweeperStep ==
  \/ ListRetryReady \/ Publish \/ ListExpiredRunning \/ IncrementRetryCount \/ TickDone
  \/ \E j \in Jobs : UpdateStatus(j) \/ MarkFailed(j) \/ MarkRetryWaiting(j)

Next ==
  \/ \E j \in Jobs : Callback(j) \/ DeadlinePasses(j)
  \/ SweeperStep

Spec == Init /\ [][Next]_vars

-----------------------------------------------------------------------------
(***************************************************************************)
(* An attempt is used up when the job is parked, although its counter is   *)
(* incremented by the next method call.                                    *)
(***************************************************************************)
Attempts ==
  [j \in Jobs |-> retryCount[j] + IF swPc = "count" /\ swCur = j THEN 1 ELSE 0]

Lifecycle == INSTANCE JobLifecycle WITH attempts <- Attempts

(***************************************************************************)
(* The repository behind its mutex keeps the promise of JobLifecycle, with *)
(* callbacks and a Tick interleaved method by method: terminal statuses    *)
(* are final, every edge is in the table, and no job is parked more than   *)
(* maxRetries times.                                                       *)
(***************************************************************************)
ImplementsLifecycle == Lifecycle!LifecycleSpec
=============================================================================
