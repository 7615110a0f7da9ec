-------------------------- MODULE JobControlPlane --------------------------
(***************************************************************************)
(* The job control plane as it runs in production: the handlers and the    *)
(* service of internal/jobs on top of PostgresRepository, and the sweeper  *)
(* the API server starts in its background loop.                           *)
(*                                                                         *)
(* Postgres executes one statement at a time, and the repository puts no   *)
(* transaction around "select the row, check the transition, update the    *)
(* row".  A request is therefore a process: every statement it issues is a *)
(* step, and what it read stays in its local state until it writes.  A     *)
(* read that only decides the next statement and whose result is not used  *)
(* later is merged with the arrival of the request it opens.               *)
(*                                                                         *)
(* A job is identified with its idempotency tuple (project, job type,      *)
(* key); the table has a unique constraint on it.  Callbacks come from an  *)
(* open environment: any worker may post any callback about any job at any *)
(* time, which is what the /internal routes accept.  Counters, payloads    *)
(* and the event log are not modelled: no statement here reads them.  An   *)
(* event insert that fails ends the request, which RequestFails covers.    *)
(***************************************************************************)
EXTENDS JobStates, Naturals

CONSTANTS
  Jobs,         \* idempotency tuples
  Workers,      \* worker ids
  Requests,     \* slots for HTTP requests in flight at the same time
  Fatal,        \* jobs whose payload has retry_policy.classification = "fatal"
  Reported,     \* terminal statuses workers report in this instance
  MaxRetries,   \* Sweeper.maxRetries
  MaxFailures,  \* bound: statements or pushes that fail in one behaviour
  NoWorker,     \* null worker_id
  NoJob         \* the sweeper is between two jobs

ASSUME JobControlPlaneAssumption ==
  /\ Fatal \subseteq Jobs
  /\ Reported \subseteq Terminal
  /\ MaxRetries \in Nat \ {0}
  /\ MaxFailures \in Nat
  /\ NoWorker \notin Workers
  /\ NoJob \notin Jobs

VARIABLES
  status,       \* column status, Absent before the insert
  workerId,     \* column worker_id
  leaseUntil,   \* column lease_until
  startedAt,    \* column started_at is not null
  finishedAt,   \* column finished_at is not null
  retryCount,   \* column retry_count
  errorCode,    \* column error_code is "lease_timeout"
  req,          \* the requests in flight
  swPc,         \* where the sweeper is in Tick
  swTodo,       \* the rows of its current list it has not reached yet
  swCur,        \* the job it is working on
  swRead,       \* the status it read of that job
  swSeen,       \* the retry counts in its list of expired jobs
  createPushes, \* history: messages pushed by CreateJob
  retryPushes,  \* history: messages pushed by the sweeper
  acked,        \* history: CreateJob has returned this job to a caller
  failures      \* how many statements or pushes have failed

row     == <<status, workerId, leaseUntil, startedAt, finishedAt, retryCount, errorCode>>
sweeper == <<swPc, swTodo, swCur, swRead, swSeen>>
history == <<createPushes, retryPushes, acked>>
vars    == <<row, req, sweeper, history, failures>>

(***************************************************************************)
(* A request in flight: the statement it issues next, the job and worker   *)
(* it is about, the status it wants to write, the status it has read, and  *)
(* whether it passes a non-null started_at to its update.                  *)
(***************************************************************************)
RequestPcs == {"insert", "publish", "claimGet", "updateGet", "updateWrite",
               "touchLease", "progressWrite", "completeWrite"}

Request == [pc: RequestPcs, job: Jobs, worker: Workers \union {NoWorker},
            to: Statuses, read: Statuses \union {Absent}, start: BOOLEAN]

Idle == [pc |-> "idle"]

SweeperPcs == {"idle", "requeue", "requeueWrite", "requeuePublish",
               "expire", "retryWrite", "retryCount"}

SweeperHolding == {"requeueWrite", "requeuePublish", "retryWrite", "retryCount"}

TypeOK ==
  /\ status \in [Jobs -> Statuses \union {Absent}]
  /\ workerId \in [Jobs -> Workers \union {NoWorker}]
  /\ leaseUntil \in [Jobs -> Leases]
  /\ startedAt \in [Jobs -> BOOLEAN]
  /\ finishedAt \in [Jobs -> BOOLEAN]
  /\ retryCount \in [Jobs -> Nat]
  /\ errorCode \in [Jobs -> BOOLEAN]
  /\ req \in [Requests -> Request \union {Idle}]
  /\ swPc \in SweeperPcs
  /\ swTodo \in SUBSET Jobs
  /\ swCur \in IF swPc \in SweeperHolding THEN Jobs ELSE {NoJob}
  /\ swRead \in Statuses \union {Absent}
  /\ swSeen \in [Jobs -> Nat]
  /\ createPushes \in [Jobs -> Nat]
  /\ retryPushes \in [Jobs -> Nat]
  /\ acked \in [Jobs -> BOOLEAN]
  /\ failures \in Nat

Init ==
  /\ status = [j \in Jobs |-> Absent]
  /\ workerId = [j \in Jobs |-> NoWorker]
  /\ leaseUntil = [j \in Jobs |-> NoLease]
  /\ startedAt = [j \in Jobs |-> FALSE]
  /\ finishedAt = [j \in Jobs |-> FALSE]
  /\ retryCount = [j \in Jobs |-> 0]
  /\ errorCode = [j \in Jobs |-> FALSE]
  /\ req = [s \in Requests |-> Idle]
  /\ swPc = "idle"
  /\ swTodo = {}
  /\ swCur = NoJob
  /\ swRead = Absent
  /\ swSeen = [j \in Jobs |-> 0]
  /\ createPushes = [j \in Jobs |-> 0]
  /\ retryPushes = [j \in Jobs |-> 0]
  /\ acked = [j \in Jobs |-> FALSE]
  /\ failures = 0

-----------------------------------------------------------------------------
(***************************************************************************)
(* Requests.                                                               *)
(***************************************************************************)
At(s, pc) == req[s] # Idle /\ req[s].pc = pc

Goto(s, pc) == req' = [req EXCEPT ![s].pc = pc]

Return(s) == req' = [req EXCEPT ![s] = Idle]

Ack(j) == acked' = [acked EXCEPT ![j] = TRUE]

(***************************************************************************)
(* CreateJob.  CreateOrGet looks the tuple up; a job that exists is        *)
(* returned as it is, and nothing is pushed for it.  Otherwise the row is  *)
(* inserted (the unique constraint refuses a second one, and the request   *)
(* ends in an error), and only then is the message pushed on the lane.     *)
(***************************************************************************)
CreateJobExisting(s, j) ==
  /\ req[s] = Idle
  /\ status[j] # Absent
  /\ Ack(j)
  /\ UNCHANGED <<row, req, sweeper, createPushes, retryPushes, failures>>

CreateJob(s, j) ==
  /\ req[s] = Idle
  /\ status[j] = Absent
  /\ req' = [req EXCEPT ![s] = [pc |-> "insert", job |-> j, worker |-> NoWorker,
                                to |-> Queued, read |-> Absent, start |-> FALSE]]
  /\ UNCHANGED <<row, sweeper, history, failures>>

UniqueNoConstraint(j) == TRUE

UniqueKeyFree(j) == status[j] = Absent

InsertJob(s) ==
  LET j == req[s].job IN
  /\ At(s, "insert")
  /\ UniqueKeyFree(j)
  /\ status' = [status EXCEPT ![j] = Queued]
  /\ Goto(s, "publish")
  /\ UNCHANGED <<workerId, leaseUntil, startedAt, finishedAt, retryCount, errorCode>>
  /\ UNCHANGED <<sweeper, history, failures>>

InsertConflict(s) ==
  /\ At(s, "insert")
  /\ ~UniqueKeyFree(req[s].job)
  /\ Return(s)
  /\ UNCHANGED <<row, sweeper, history, failures>>

PublishCreated(s) ==
  LET j == req[s].job IN
  /\ At(s, "publish")
  /\ createPushes' = [createPushes EXCEPT ![j] = @ + 1]
  /\ Ack(j)
  /\ Return(s)
  /\ UNCHANGED <<row, sweeper, retryPushes, failures>>

(***************************************************************************)
(* ReportHeartbeat.  A job seen running has its lease touched; any other   *)
(* is claimed: Claim reads the row again, UpdateStatus a third time and    *)
(* checks the transition to running, then come two separate updates.       *)
(* TouchLease looks at neither the status nor the worker of the row, and   *)
(* the deadline it writes was computed when the request arrived, so it may *)
(* have passed by the time it is written.                                  *)
(***************************************************************************)
ReportHeartbeat(s, j, w) ==
  /\ req[s] = Idle
  /\ status[j] # Absent
  /\ req' = [req EXCEPT ![s] =
       [pc |-> IF status[j] = Running THEN "touchLease" ELSE "claimGet",
        job |-> j, worker |-> w, to |-> Running, read |-> status[j], start |-> TRUE]]
  /\ UNCHANGED <<row, sweeper, history, failures>>

ClaimGet(s) ==
  /\ At(s, "claimGet")
  /\ Goto(s, IF status[req[s].job] = Running THEN "touchLease" ELSE "updateGet")
  /\ UNCHANGED <<row, sweeper, history, failures>>

UpdateStatusGet(s) ==
  LET j == req[s].job IN
  /\ At(s, "updateGet")
  /\ IF CanTransition(status[j], Running)
       THEN req' = [req EXCEPT ![s].pc = "updateWrite", ![s].read = status[j]]
       ELSE Return(s)
  /\ UNCHANGED <<row, sweeper, history, failures>>

UpdateStatusWrite(s) ==
  LET j == req[s].job IN
  /\ At(s, "updateWrite")
  /\ status' = [status EXCEPT ![j] = Running]
  /\ startedAt' = [startedAt EXCEPT ![j] = TRUE]
  /\ Goto(s, "touchLease")
  /\ UNCHANGED <<workerId, leaseUntil, finishedAt, retryCount, errorCode>>
  /\ UNCHANGED <<sweeper, history, failures>>

LeaseWithoutOwner(s) == NoWorker

LeaseOwner(s) == req[s].worker

TouchLease(s) ==
  LET j == req[s].job IN
  /\ At(s, "touchLease")
  /\ workerId' = [workerId EXCEPT ![j] = LeaseOwner(s)]
  /\ \E deadline \in Deadlines : leaseUntil' = [leaseUntil EXCEPT ![j] = deadline]
  /\ Return(s)
  /\ UNCHANGED <<status, startedAt, finishedAt, retryCount, errorCode>>
  /\ UNCHANGED <<sweeper, history, failures>>

(***************************************************************************)
(* ReportProgress.  UpdateProgress reads the row, refuses a job that may   *)
(* not become running, and updates status, worker and counters.  It writes *)
(* no lease.                                                               *)
(***************************************************************************)
ReportProgress(s, j, w) ==
  /\ req[s] = Idle
  /\ status[j] # Absent
  /\ CanTransition(status[j], Running)
  /\ req' = [req EXCEPT ![s] =
       [pc |-> "progressWrite", job |-> j, worker |-> w, to |-> Running,
        read |-> status[j], start |-> status[j] # Running]]
  /\ UNCHANGED <<row, sweeper, history, failures>>

UpdateProgressWrite(s) ==
  LET j == req[s].job IN
  /\ At(s, "progressWrite")
  /\ status' = [status EXCEPT ![j] = Running]
  /\ workerId' = [workerId EXCEPT ![j] = req[s].worker]
  /\ startedAt' = [startedAt EXCEPT ![j] = @ \/ req[s].start]
  /\ Return(s)
  /\ UNCHANGED <<leaseUntil, finishedAt, retryCount, errorCode>>
  /\ UNCHANGED <<sweeper, history, failures>>

(***************************************************************************)
(* ReportTerminal.  Complete reads the row, checks the transition from the *)
(* (coerced) status it read, and updates the row whatever it holds by      *)
(* then.  The lease is left as it is.                                      *)
(***************************************************************************)
StampsStart(j) == ~startedAt[j]

ReportTerminal(s, j, w, to) ==
  /\ req[s] = Idle
  /\ status[j] # Absent
  /\ CanComplete(status[j], to)
  /\ req' = [req EXCEPT ![s] =
       [pc |-> "completeWrite", job |-> j, worker |-> w, to |-> to,
        read |-> status[j], start |-> StampsStart(j)]]
  /\ UNCHANGED <<row, sweeper, history, failures>>

CompleteWrite(s) ==
  LET j == req[s].job IN
  /\ At(s, "completeWrite")
  /\ status' = [status EXCEPT ![j] = req[s].to]
  /\ workerId' = [workerId EXCEPT ![j] = req[s].worker]
  /\ startedAt' = [startedAt EXCEPT ![j] = @ \/ req[s].start]
  /\ finishedAt' = [finishedAt EXCEPT ![j] = TRUE]
  /\ Return(s)
  /\ UNCHANGED <<leaseUntil, retryCount, errorCode>>
  /\ UNCHANGED <<sweeper, history, failures>>

(***************************************************************************)
(* A statement, an event insert or the push fails, or the API server goes  *)
(* down: the request ends there, what it wrote before stays written.       *)
(***************************************************************************)
RequestFails(s) ==
  /\ req[s] # Idle
  /\ failures < MaxFailures
  /\ failures' = failures + 1
  /\ Return(s)
  /\ UNCHANGED <<row, sweeper, history>>

-----------------------------------------------------------------------------
(***************************************************************************)
(* The sweeper.  Tick runs in one goroutine, so there is one Tick at a     *)
(* time.  It lists the jobs whose backoff has elapsed and requeues them    *)
(* one by one, then lists the running jobs whose lease has expired and     *)
(* fails them or schedules a retry.  Both lists are snapshots; the clock   *)
(* they are compared with was read when Tick started, and a failing query  *)
(* yields an empty list, so a list is any part of the rows that are due.   *)
(* The first error ends the Tick and drops the rest of the list.           *)
(***************************************************************************)
EndTick ==
  /\ swPc' = "idle"
  /\ swTodo' = {}
  /\ swCur' = NoJob
  /\ swRead' = Absent
  /\ swSeen' = [j \in Jobs |-> 0]

RetryReady == {j \in Jobs : status[j] = RetryWaiting /\ leaseUntil[j] = Past}

ExpiredRunning == {j \in Jobs : status[j] = Running /\ leaseUntil[j] = Past}

ListRetryReady ==
  /\ swPc = "idle"
  /\ swPc' = "requeue"
  /\ swTodo' \in SUBSET RetryReady
  /\ UNCHANGED <<row, req, swCur, swRead, swSeen, history, failures>>

(***************************************************************************)
(* UpdateStatus(queued): select and check, then update, then the push.     *)
(***************************************************************************)
RequeueGet(j) ==
  /\ swPc = "requeue"
  /\ j \in swTodo
  /\ IF CanTransition(status[j], Queued)
       THEN /\ swPc' = "requeueWrite"
            /\ swTodo' = swTodo \ {j}
            /\ swCur' = j
            /\ swRead' = status[j]
            /\ UNCHANGED swSeen
       ELSE EndTick
  /\ UNCHANGED <<row, req, history, failures>>

RequeueWrite ==
  /\ swPc = "requeueWrite"
  /\ status' = [status EXCEPT ![swCur] = Queued]
  /\ leaseUntil' = [leaseUntil EXCEPT ![swCur] = NoLease]
  /\ swPc' = "requeuePublish"
  /\ UNCHANGED <<workerId, startedAt, finishedAt, retryCount, errorCode>>
  /\ UNCHANGED <<req, swTodo, swCur, swRead, swSeen, history, failures>>

RequeuePublish ==
  /\ swPc = "requeuePublish"
  /\ retryPushes' = [retryPushes EXCEPT ![swCur] = @ + 1]
  /\ swPc' = "requeue"
  /\ swCur' = NoJob
  /\ swRead' = Absent
  /\ UNCHANGED <<row, req, swTodo, swSeen, createPushes, acked, failures>>

ListExpiredRunning ==
  /\ swPc = "requeue"
  /\ swTodo = {}
  /\ swPc' = "expire"
  /\ swTodo' \in SUBSET ExpiredRunning
  /\ swSeen' = retryCount
  /\ UNCHANGED <<row, req, swCur, swRead, history, failures>>

(***************************************************************************)
(* A fatal job, or one whose retries (as listed) are used up, is failed by *)
(* one update that checks nothing about the row it finds.                  *)
(***************************************************************************)
RetriesUsedUpEarly(n) == n + 1 >= MaxRetries

RetriesUsedUp(n) == n >= MaxRetries

GivesUp(j) == j \in Fatal \/ RetriesUsedUp(swSeen[j])

MarkFailed(j) ==
  /\ swPc = "expire"
  /\ j \in swTodo
  /\ GivesUp(j)
  /\ status' = [status EXCEPT ![j] = Failed]
  /\ finishedAt' = [finishedAt EXCEPT ![j] = TRUE]
  /\ errorCode' = [errorCode EXCEPT ![j] = TRUE]
  /\ swTodo' = swTodo \ {j}
  /\ UNCHANGED <<workerId, leaseUntil, startedAt, retryCount>>
  /\ UNCHANGED <<req, swPc, swCur, swRead, swSeen, history, failures>>

MarkRetryWaitingGet(j) ==
  /\ swPc = "expire"
  /\ j \in swTodo
  /\ ~GivesUp(j)
  /\ IF CanTransition(status[j], RetryWaiting)
       THEN /\ swPc' = "retryWrite"
            /\ swTodo' = swTodo \ {j}
            /\ swCur' = j
            /\ swRead' = status[j]
            /\ UNCHANGED swSeen
       ELSE EndTick
  /\ UNCHANGED <<row, req, history, failures>>

RetryAt == Deadlines

MarkRetryWaitingWrite ==
  /\ swPc = "retryWrite"
  /\ status' = [status EXCEPT ![swCur] = RetryWaiting]
  /\ \E retryAt \in RetryAt : leaseUntil' = [leaseUntil EXCEPT ![swCur] = retryAt]
  /\ swPc' = "retryCount"
  /\ UNCHANGED <<workerId, startedAt, finishedAt, retryCount, errorCode>>
  /\ UNCHANGED <<req, swTodo, swCur, swRead, swSeen, history, failures>>

RetryNotCounted(n) == n

RetryCounted(n) == n + 1

IncrementRetryCount ==
  /\ swPc = "retryCount"
  /\ retryCount' = [retryCount EXCEPT ![swCur] = RetryCounted(@)]
  /\ swPc' = "expire"
  /\ swCur' = NoJob
  /\ swRead' = Absent
  /\ UNCHANGED <<status, workerId, leaseUntil, startedAt, finishedAt, errorCode>>
  /\ UNCHANGED <<req, swTodo, swSeen, history, failures>>

TickDone ==
  /\ swPc = "expire"
  /\ swTodo = {}
  /\ EndTick
  /\ UNCHANGED <<row, req, history, failures>>

(***************************************************************************)
(* A statement, an event insert or the push of the sweeper fails: Tick     *)
(* returns the error, the loop logs it and waits for the next tick.        *)
(***************************************************************************)
SweeperFails ==
  /\ swPc # "idle"
  /\ failures < MaxFailures
  /\ failures' = failures + 1
  /\ EndTick
  /\ UNCHANGED <<row, req, history>>

(***************************************************************************)
(* Time passes: the deadline of a row goes by.                             *)
(***************************************************************************)
DeadlinePasses(j) ==
  /\ leaseUntil[j] = Future
  /\ leaseUntil' = [leaseUntil EXCEPT ![j] = Past]
  /\ UNCHANGED <<status, workerId, startedAt, finishedAt, retryCount, errorCode>>
  /\ UNCHANGED <<req, sweeper, history, failures>>

-----------------------------------------------------------------------------
RequestStep(s) ==
  \/ InsertJob(s) \/ InsertConflict(s) \/ PublishCreated(s)
  \/ ClaimGet(s) \/ UpdateStatusGet(s) \/ UpdateStatusWrite(s) \/ TouchLease(s)
  \/ UpdateProgressWrite(s)
  \/ CompleteWrite(s)
  \/ RequestFails(s)

RequestArrives(s, j) ==
  \/ CreateJobExisting(s, j)
  \/ CreateJob(s, j)
  \/ \E w \in Workers :
       \/ ReportHeartbeat(s, j, w)
       \/ ReportProgress(s, j, w)
       \/ \E to \in Reported : ReportTerminal(s, j, w, to)

SweeperStep ==
  \/ ListRetryReady
  \/ \E j \in Jobs : RequeueGet(j)
  \/ RequeueWrite
  \/ RequeuePublish
  \/ ListExpiredRunning
  \/ \E j \in Jobs : MarkFailed(j) \/ MarkRetryWaitingGet(j)
  \/ MarkRetryWaitingWrite
  \/ IncrementRetryCount
  \/ TickDone
  \/ SweeperFails

Next ==
  \/ \E s \in Requests : RequestStep(s) \/ \E j \in Jobs : RequestArrives(s, j)
  \/ SweeperStep
  \/ \E j \in Jobs : DeadlinePasses(j)

Spec == Init /\ [][Next]_vars

-----------------------------------------------------------------------------
(***************************************************************************)
(* retry_count never goes above maxRetries, although the sweeper decides   *)
(* on a count it read some statements earlier.                             *)
(***************************************************************************)
RetryBound == \A j \in Jobs : retryCount[j] <= MaxRetries

(***************************************************************************)
(* However often workers lose their lease, a job is pushed again at most   *)
(* maxRetries times, plus once for each statement that failed: a sweeper   *)
(* that dies between MarkRetryWaiting and IncrementRetryCount grants a     *)
(* retry nobody counts.                                                    *)
(***************************************************************************)
RetryDispatchBudget == \A j \in Jobs : retryPushes[j] <= MaxRetries + failures

(***************************************************************************)
(* Concurrent CreateJob calls with the same idempotency tuple push one     *)
(* message between them, whatever the order of lookup and insert.          *)
(***************************************************************************)
IdempotentDispatch == \A j \in Jobs : createPushes[j] <= 1

(***************************************************************************)
(* The sweeper stamps error_code "lease_timeout" on fatal jobs and on jobs *)
(* that really have used all their retries, never on one with retries      *)
(* left, also when the row moved on after the list was read.               *)
(***************************************************************************)
LeaseTimeoutEarned ==
  \A j \in Jobs : errorCode[j] => j \in Fatal \/ retryCount[j] = MaxRetries

RetryWaitingScheduled ==
  \A j \in Jobs : status[j] = RetryWaiting => leaseUntil[j] # NoLease

LeaseHasOwner ==
  \A j \in Jobs : leaseUntil[j] # NoLease => workerId[j] # NoWorker

StampsFollowStatus ==
  \A j \in Jobs :
    /\ status[j] \in {Running, RetryWaiting} \union Terminal => startedAt[j]
    /\ status[j] \in Terminal => finishedAt[j]

(***************************************************************************)
(* The columns of a row agree, whatever statements of heartbeat, progress, *)
(* completion and sweeper interleave: a retry_waiting job has the deadline *)
(* ListRetryReady looks for; a row with a deadline names the worker that   *)
(* the lease_recovered and lease_timeout events blame; a job that left the *)
(* queue has started_at and a terminal one finished_at, although Complete  *)
(* and UpdateProgress decide on the stamps by a row they read earlier.     *)
(***************************************************************************)
RowConsistent == RetryWaitingScheduled /\ LeaseHasOwner /\ StampsFollowStatus

(***************************************************************************)
(* A job leaves a terminal status only when a writer acts on a status it   *)
(* read before the job got there: a request or the sweeper, with an update *)
(* checked against an older status, or a MarkFailed from an older list.    *)
(* Without such an overlap terminal statuses are final.                    *)
(***************************************************************************)
StaleRequest(j) ==
  \E s \in Requests : /\ req[s] # Idle
                      /\ req[s].job = j
                      /\ req[s].pc \in {"updateWrite", "progressWrite", "completeWrite"}
                      /\ req[s].read # status[j]

StaleSweeper(j) ==
  \/ swPc \in {"requeueWrite", "retryWrite"} /\ swCur = j /\ swRead # status[j]
  \/ swPc = "expire" /\ j \in swTodo

LeavesTerminal(j) == status[j] \in Terminal /\ status'[j] # status[j]

TerminalLeftOnlyOnStaleRead ==
  [][\A j \in Jobs : LeavesTerminal(j) => StaleRequest(j) \/ StaleSweeper(j)]_vars

-----------------------------------------------------------------------------
(***************************************************************************)
(* What documents of the repository say and the code does not guarantee.   *)
(***************************************************************************)

(***************************************************************************)
(* The completion design: "Dispatch failure should not silently lose a     *)
(* created job".  A caller that was given a queued job by CreateJob can    *)
(* rely on a message having been pushed, or being about to be pushed.      *)
(***************************************************************************)
AckedJobIsDispatched ==
  \A j \in Jobs :
    acked[j] /\ status[j] = Queued /\ retryCount[j] = 0 =>
      createPushes[j] > 0 \/ \E s \in Requests : At(s, "publish") /\ req[s].job = j
=============================================================================
