----------------------- MODULE JobControlPlaneProofs -----------------------
(***************************************************************************)
(* Proofs about JobControlPlane, for every set of jobs, workers and        *)
(* requests and every MaxRetries and MaxFailures.                          *)
(***************************************************************************)
EXTENDS JobControlPlane, TLAPS

(***************************************************************************)
(* What a request carries: callbacks name a worker, Complete writes a      *)
(* terminal status, and an update that passes no started_at belongs to a   *)
(* row that has one.                                                       *)
(***************************************************************************)
RequestOK(s) ==
  /\ req[s] # Idle /\ req[s].pc \notin {"insert", "publish"} =>
       /\ req[s].worker \in Workers
       /\ status[req[s].job] # Absent
  /\ At(s, "completeWrite") => req[s].to \in Terminal
  /\ At(s, "progressWrite") \/ At(s, "completeWrite") =>
       req[s].start \/ startedAt[req[s].job]

RequestInv == \A s \in Requests : RequestOK(s)

(***************************************************************************)
(* What the sweeper may rely on.  In the first half of a Tick: nobody else *)
(* puts a listed job back in the queue, nor parks again the job it has     *)
(* just requeued.  In the second half: the counts in its list are still    *)
(* the counts of the rows, the listed rows have run and have had an owner, *)
(* and a job it is giving a retry has one left.                            *)
(***************************************************************************)
SweeperInv ==
  /\ swPc \in SweeperHolding => swCur \notin swTodo
  /\ swPc \in {"requeue", "requeueWrite", "requeuePublish"} =>
       \A j \in swTodo : status[j] \notin {Absent, Queued}
  /\ swPc = "requeuePublish" => status[swCur] # RetryWaiting
  /\ swPc \in {"retryWrite", "retryCount"} =>
       /\ retryCount[swCur] < MaxRetries
       /\ startedAt[swCur]
       /\ workerId[swCur] # NoWorker
  /\ swPc \in {"expire", "retryWrite", "retryCount"} =>
       \A j \in swTodo : /\ swSeen[j] = retryCount[j]
                         /\ startedAt[j]
                         /\ workerId[j] # NoWorker

(***************************************************************************)
(* One push per creation: no push before the insert, and the request that  *)
(* inserted the row is the only one that may still push.                   *)
(***************************************************************************)
CreateInv ==
  \A j \in Jobs :
    /\ createPushes[j] <= 1
    /\ status[j] = Absent => createPushes[j] = 0
    /\ \A s \in Requests :
         At(s, "publish") /\ req[s].job = j =>
           /\ status[j] # Absent
           /\ createPushes[j] = 0
           /\ \A t \in Requests : At(t, "publish") /\ req[t].job = j => s = t

(***************************************************************************)
(* The balance of retries.  A retry that is granted (the row waits, or the *)
(* sweeper holds it between its read and its push) counts as used; the     *)
(* grant whose increment is still to come counts as paid.                  *)
(***************************************************************************)
Granted(j) ==
  IF status[j] = RetryWaiting \/ (swPc \in {"requeueWrite", "requeuePublish"} /\ swCur = j)
    THEN 1 ELSE 0

Uncounted(j) == IF swPc = "retryCount" /\ swCur = j THEN 1 ELSE 0

BudgetInv ==
  \A j \in Jobs : retryPushes[j] + Granted(j) <= retryCount[j] + failures + Uncounted(j)

IInv ==
  /\ TypeOK
  /\ RequestInv
  /\ SweeperInv
  /\ CreateInv
  /\ BudgetInv
  /\ RetryBound
  /\ LeaseTimeoutEarned
  /\ RetryWaitingScheduled
  /\ LeaseHasOwner
  /\ StampsFollowStatus

-----------------------------------------------------------------------------
(***************************************************************************)
(* The statuses of model.go are pairwise different, and only the four      *)
(* final ones are terminal.                                                *)
(***************************************************************************)
LEMMA StatusFacts ==
  /\ Terminal \subseteq Statuses
  /\ {Queued, Running, RetryWaiting} \subseteq Statuses
  /\ Absent \notin Statuses
  /\ RetryWaiting \notin Terminal
  /\ Queued \notin Terminal
  /\ Running \notin Terminal
  /\ Queued # RetryWaiting
  /\ Running # RetryWaiting
  /\ Queued # Running
  BY DEF Terminal, Statuses, Queued, Running, RetryWaiting, Absent, Succeeded,
         SucceededWithErrors, Failed, Canceled

(***************************************************************************)
(* A deadline is never the null lease.                                     *)
(***************************************************************************)
LEMMA LeaseFacts ==
  /\ Deadlines \subseteq Leases
  /\ NoLease \in Leases
  /\ NoLease \notin Deadlines
  /\ Past \in Deadlines
  BY DEF Deadlines, Leases, NoLease, Future, Past

(***************************************************************************)
(* A request step changes the slot of that request and no other: it moves  *)
(* it to another statement, or frees it.                                   *)
(***************************************************************************)
LEMMA IdleIsNoRequest == Idle \notin Request
  BY DEF Idle, Request

(***************************************************************************)
(* A request that goes on to its next statement stays well typed and keeps *)
(* everything else it carries.                                             *)
(***************************************************************************)
LEMMA GotoType ==
  ASSUME TypeOK, NEW s \in Requests, req[s] # Idle, NEW pc \in RequestPcs, Goto(s, pc)
  PROVE  /\ req' \in [Requests -> Request \union {Idle}]
         /\ req'[s] = [req[s] EXCEPT !.pc = pc]
         /\ req'[s] \in Request
         /\ \A t \in Requests \ {s} : req'[t] = req[t]
  BY DEF TypeOK, Goto, Request

(***************************************************************************)
(* A request that returns frees its slot and touches no other.             *)
(***************************************************************************)
LEMMA ReturnType ==
  ASSUME TypeOK, NEW s \in Requests, Return(s)
  PROVE  /\ req' \in [Requests -> Request \union {Idle}]
         /\ req'[s] = Idle
         /\ \A t \in Requests \ {s} : req'[t] = req[t]
  BY DEF TypeOK, Return

(***************************************************************************)
(* A request that arrives takes its slot and touches no other.             *)
(***************************************************************************)
LEMMA ArrivalType ==
  ASSUME TypeOK, NEW s \in Requests, NEW r \in Request, req' = [req EXCEPT ![s] = r]
  PROVE  /\ req' \in [Requests -> Request \union {Idle}]
         /\ req'[s] = r
         /\ \A t \in Requests \ {s} : req'[t] = req[t]
  BY DEF TypeOK

(***************************************************************************)
(* Type correctness: every statement of the repository and of the sweeper  *)
(* keeps each column, each request and the sweeper's list well typed.      *)
(***************************************************************************)
LEMMA InitType == Init => TypeOK
  BY JobControlPlaneAssumption, LeaseFacts DEF Init, TypeOK, SweeperPcs, SweeperHolding

(***************************************************************************)
(* Every step of a request, of the sweeper and of time keeps the state     *)
(* well typed: one step per action, and under it one per column the action *)
(* writes.                                                                 *)
(***************************************************************************)
LEMMA NextType == ASSUME TypeOK, [Next]_vars PROVE TypeOK'
<1> USE DEF row, sweeper, history, vars
<1>1. ASSUME NEW s \in Requests, RequestStep(s) PROVE TypeOK'
  <2>0. ASSUME req[s] # Idle PROVE req[s] \in Request /\ req[s].job \in Jobs
    BY <2>0 DEF TypeOK, Request
  <2>1. CASE InsertJob(s)
    <3>1. req[s] \in Request /\ req[s].job \in Jobs
      BY <2>0, <2>1 DEF InsertJob, At
    <3>2. req' \in [Requests -> Request \union {Idle}]
      BY <2>1, GotoType DEF InsertJob, At, RequestPcs
    <3>3. status' \in [Jobs -> Statuses \union {Absent}]
      BY <2>1, <3>1, StatusFacts DEF InsertJob, TypeOK
    <3> QED
      BY <2>1, <3>2, <3>3 DEF InsertJob, TypeOK
  <2>2. CASE InsertConflict(s)
    <3>1. req[s] \in Request /\ req[s].job \in Jobs
      BY <2>0, <2>2 DEF InsertConflict, At
    <3>2. req' \in [Requests -> Request \union {Idle}]
      BY <2>2, ReturnType DEF InsertConflict
    <3> QED
      BY <2>2, <3>2 DEF InsertConflict, TypeOK
  <2>3. CASE PublishCreated(s)
    <3>1. req[s] \in Request /\ req[s].job \in Jobs
      BY <2>0, <2>3 DEF PublishCreated, At
    <3>2. req' \in [Requests -> Request \union {Idle}]
      BY <2>3, ReturnType DEF PublishCreated
    <3>3. createPushes' \in [Jobs -> Nat]
      BY <2>3, <3>1 DEF PublishCreated, TypeOK
    <3>4. acked' \in [Jobs -> BOOLEAN]
      BY <2>3, <3>1 DEF PublishCreated, TypeOK, Ack
    <3> QED
      BY <2>3, <3>2, <3>3, <3>4 DEF PublishCreated, TypeOK
  <2>4. CASE ClaimGet(s)
    <3>1. req[s] \in Request /\ req[s].job \in Jobs
      BY <2>0, <2>4 DEF ClaimGet, At
    <3>2. req' \in [Requests -> Request \union {Idle}]
      BY <2>4, GotoType DEF ClaimGet, At, RequestPcs
    <3> QED
      BY <2>4, <3>2 DEF ClaimGet, TypeOK
  <2>5. CASE UpdateStatusGet(s)
    <3>1. req[s] \in Request /\ req[s].job \in Jobs
      BY <2>0, <2>5 DEF UpdateStatusGet, At
    <3>2. req' \in [Requests -> Request \union {Idle}]
      BY <2>5, <3>1 DEF UpdateStatusGet, TypeOK, Request, RequestPcs, Return
    <3> QED
      BY <2>5, <3>2 DEF UpdateStatusGet, TypeOK
  <2>6. CASE UpdateStatusWrite(s)
    <3>1. req[s] \in Request /\ req[s].job \in Jobs
      BY <2>0, <2>6 DEF UpdateStatusWrite, At
    <3>2. req' \in [Requests -> Request \union {Idle}]
      BY <2>6, GotoType DEF UpdateStatusWrite, At, RequestPcs
    <3>3. status' \in [Jobs -> Statuses \union {Absent}]
      BY <2>6, <3>1, StatusFacts DEF UpdateStatusWrite, TypeOK
    <3>4. startedAt' \in [Jobs -> BOOLEAN]
      BY <2>6, <3>1 DEF UpdateStatusWrite, TypeOK, Request
    <3> QED
      BY <2>6, <3>2, <3>3, <3>4 DEF UpdateStatusWrite, TypeOK
  <2>7. CASE TouchLease(s)
    <3>1. req[s] \in Request /\ req[s].job \in Jobs
      BY <2>0, <2>7 DEF TouchLease, At
    <3>2. req' \in [Requests -> Request \union {Idle}]
      BY <2>7, ReturnType DEF TouchLease
    <3>3. workerId' \in [Jobs -> Workers \union {NoWorker}]
      BY <2>7, <3>1 DEF TouchLease, TypeOK, Request, LeaseOwner
    <3>4. leaseUntil' \in [Jobs -> Leases]
      BY <2>7, <3>1, LeaseFacts DEF TouchLease, TypeOK
    <3> QED
      BY <2>7, <3>2, <3>3, <3>4 DEF TouchLease, TypeOK
  <2>8. CASE UpdateProgressWrite(s)
    <3>1. req[s] \in Request /\ req[s].job \in Jobs
      BY <2>0, <2>8 DEF UpdateProgressWrite, At
    <3>2. req' \in [Requests -> Request \union {Idle}]
      BY <2>8, ReturnType DEF UpdateProgressWrite
    <3>3. status' \in [Jobs -> Statuses \union {Absent}]
      BY <2>8, <3>1, StatusFacts DEF UpdateProgressWrite, TypeOK
    <3>4. workerId' \in [Jobs -> Workers \union {NoWorker}]
      BY <2>8, <3>1 DEF UpdateProgressWrite, TypeOK, Request
    <3>5. startedAt' \in [Jobs -> BOOLEAN]
      BY <2>8, <3>1 DEF UpdateProgressWrite, TypeOK, Request
    <3> QED
      BY <2>8, <3>2, <3>3, <3>4, <3>5 DEF UpdateProgressWrite, TypeOK
  <2>9. CASE CompleteWrite(s)
    <3>1. req[s] \in Request /\ req[s].job \in Jobs
      BY <2>0, <2>9 DEF CompleteWrite, At
    <3>2. req' \in [Requests -> Request \union {Idle}]
      BY <2>9, ReturnType DEF CompleteWrite
    <3>3. status' \in [Jobs -> Statuses \union {Absent}]
      BY <2>9, <3>1, StatusFacts DEF CompleteWrite, TypeOK, Request
    <3>4. workerId' \in [Jobs -> Workers \union {NoWorker}]
      BY <2>9, <3>1 DEF CompleteWrite, TypeOK, Request
    <3>5. startedAt' \in [Jobs -> BOOLEAN]
      BY <2>9, <3>1 DEF CompleteWrite, TypeOK, Request
    <3>6. finishedAt' \in [Jobs -> BOOLEAN]
      BY <2>9, <3>1 DEF CompleteWrite, TypeOK
    <3> QED
      BY <2>9, <3>2, <3>3, <3>4, <3>5, <3>6 DEF CompleteWrite, TypeOK
  <2>10. CASE RequestFails(s)
    <3>1. req[s] \in Request /\ req[s].job \in Jobs
      BY <2>0, <2>10 DEF RequestFails
    <3>2. req' \in [Requests -> Request \union {Idle}]
      BY <2>10, ReturnType DEF RequestFails
    <3>3. failures' \in Nat
      BY <2>10, <3>1 DEF RequestFails, TypeOK
    <3> QED
      BY <2>10, <3>2, <3>3 DEF RequestFails, TypeOK
  <2> QED
    BY <1>1, <2>1, <2>2, <2>3, <2>4, <2>5, <2>6, <2>7, <2>8, <2>9, <2>10 DEF RequestStep
<1>2. ASSUME NEW s \in Requests, NEW j \in Jobs, RequestArrives(s, j) PROVE TypeOK'
  <2> USE StatusFacts DEF Request, RequestPcs
  <2>1. CASE CreateJobExisting(s, j)
    BY <2>1 DEF TypeOK, CreateJobExisting, Ack
  <2>2. CASE CreateJob(s, j)
    BY <2>2 DEF TypeOK, CreateJob
  <2>3. ASSUME NEW w \in Workers, ReportHeartbeat(s, j, w) PROVE TypeOK'
    BY <2>3 DEF TypeOK, ReportHeartbeat
  <2>4. ASSUME NEW w \in Workers, ReportProgress(s, j, w) PROVE TypeOK'
    BY <2>4 DEF TypeOK, ReportProgress
  <2>5. ASSUME NEW w \in Workers, NEW to \in Reported, ReportTerminal(s, j, w, to) PROVE TypeOK'
    BY <2>5, JobControlPlaneAssumption DEF TypeOK, ReportTerminal, StampsStart
  <2> QED
    BY <1>2, <2>1, <2>2, <2>3, <2>4, <2>5 DEF RequestArrives
<1>3. CASE SweeperStep
  <2> USE StatusFacts, LeaseFacts DEF SweeperPcs, SweeperHolding, EndTick
  <2>1. CASE ListRetryReady
    BY <2>1 DEF TypeOK, ListRetryReady, RetryReady
  <2>2. ASSUME NEW j \in Jobs, RequeueGet(j) PROVE TypeOK'
    BY <2>2 DEF TypeOK, RequeueGet
  <2>3. CASE RequeueWrite
    BY <2>3 DEF TypeOK, RequeueWrite
  <2>4. CASE RequeuePublish
    <3>1. retryPushes' \in [Jobs -> Nat]
      BY <2>4 DEF TypeOK, RequeuePublish
    <3> QED
      BY <2>4, <3>1 DEF TypeOK, RequeuePublish
  <2>5. CASE ListExpiredRunning
    BY <2>5 DEF TypeOK, ListExpiredRunning, ExpiredRunning
  <2>6. ASSUME NEW j \in Jobs, MarkFailed(j) PROVE TypeOK'
    BY <2>6 DEF TypeOK, MarkFailed, Terminal
  <2>7. ASSUME NEW j \in Jobs, MarkRetryWaitingGet(j) PROVE TypeOK'
    BY <2>7 DEF TypeOK, MarkRetryWaitingGet
  <2>8. CASE MarkRetryWaitingWrite
    BY <2>8 DEF TypeOK, MarkRetryWaitingWrite, RetryAt
  <2>9. CASE IncrementRetryCount
    <3>1. retryCount' \in [Jobs -> Nat]
      BY <2>9 DEF TypeOK, IncrementRetryCount, RetryCounted
    <3> QED
      BY <2>9, <3>1 DEF TypeOK, IncrementRetryCount
  <2>10. CASE TickDone
    BY <2>10 DEF TypeOK, TickDone
  <2>11. CASE SweeperFails
    BY <2>11 DEF TypeOK, SweeperFails
  <2> QED
    BY <1>3, <2>1, <2>2, <2>3, <2>4, <2>5, <2>6, <2>7, <2>8, <2>9, <2>10, <2>11 DEF SweeperStep
<1>4. ASSUME NEW j \in Jobs, DeadlinePasses(j) PROVE TypeOK'
  BY <1>4, LeaseFacts DEF TypeOK, DeadlinePasses
<1>5. CASE UNCHANGED vars
  BY <1>5 DEF TypeOK
<1> QED
  BY <1>1, <1>2, <1>3, <1>4, <1>5 DEF Next

(***************************************************************************)
(* Type correctness of the control plane: columns, requests in flight, the *)
(* sweeper's position and list, and the counters.                          *)
(***************************************************************************)
THEOREM TypeCorrect == Spec => []TypeOK
  BY InitType, NextType, PTL DEF Spec

(***************************************************************************)
(* What no statement undoes: a row is never deleted, started_at is never   *)
(* cleared, and worker_id is never set back to null.                       *)
(***************************************************************************)
LEMMA RowsOnlyGrow ==
  ASSUME TypeOK, RequestInv, [Next]_vars, NEW j \in Jobs
  PROVE  /\ status[j] # Absent => status'[j] # Absent
         /\ startedAt[j] => startedAt'[j]
         /\ workerId[j] # NoWorker => workerId'[j] # NoWorker
<1> DEFINE Grows == /\ status[j] # Absent => status'[j] # Absent
                    /\ startedAt[j] => startedAt'[j]
                    /\ workerId[j] # NoWorker => workerId'[j] # NoWorker
<1> SUFFICES Grows
  OBVIOUS
<1> USE DEF row, sweeper, history, vars
<1>1. ASSUME NEW s \in Requests, RequestStep(s) PROVE Grows
  <2>1. CASE InsertJob(s)
    BY <2>1, StatusFacts, JobControlPlaneAssumption DEF InsertJob, UniqueKeyFree, TypeOK, RequestInv, RequestOK, At, Request
  <2>2. CASE InsertConflict(s)
    BY <2>2, StatusFacts, JobControlPlaneAssumption DEF InsertConflict, UniqueKeyFree, TypeOK, RequestInv, RequestOK, At, Request
  <2>3. CASE PublishCreated(s)
    BY <2>3, StatusFacts, JobControlPlaneAssumption DEF PublishCreated, Ack, TypeOK, RequestInv, RequestOK, At, Request
  <2>4. CASE ClaimGet(s)
    BY <2>4, StatusFacts, JobControlPlaneAssumption DEF ClaimGet, TypeOK, RequestInv, RequestOK, At, Request
  <2>5. CASE UpdateStatusGet(s)
    BY <2>5, StatusFacts, JobControlPlaneAssumption DEF UpdateStatusGet, TypeOK, RequestInv, RequestOK, At, Request
  <2>6. CASE UpdateStatusWrite(s)
    BY <2>6, StatusFacts, JobControlPlaneAssumption DEF UpdateStatusWrite, TypeOK, RequestInv, RequestOK, At, Request
  <2>7. CASE TouchLease(s)
    BY <2>7, StatusFacts, JobControlPlaneAssumption DEF TouchLease, LeaseOwner, TypeOK, RequestInv, RequestOK, At, Request
  <2>8. CASE UpdateProgressWrite(s)
    BY <2>8, StatusFacts, JobControlPlaneAssumption DEF UpdateProgressWrite, TypeOK, RequestInv, RequestOK, At, Request
  <2>9. CASE CompleteWrite(s)
    BY <2>9, StatusFacts, JobControlPlaneAssumption DEF CompleteWrite, TypeOK, RequestInv, RequestOK, At, Request
  <2>10. CASE RequestFails(s)
    BY <2>10, StatusFacts, JobControlPlaneAssumption DEF RequestFails, TypeOK, RequestInv, RequestOK, At, Request
  <2> QED
    BY <1>1, <2>1, <2>2, <2>3, <2>4, <2>5, <2>6, <2>7, <2>8, <2>9, <2>10 DEF RequestStep
<1>2. ASSUME NEW s \in Requests, NEW i \in Jobs, RequestArrives(s, i) PROVE Grows
  <2>1. CASE CreateJobExisting(s, i)
    BY <2>1 DEF CreateJobExisting, Ack, TypeOK
  <2>2. CASE CreateJob(s, i)
    BY <2>2 DEF CreateJob, TypeOK
  <2>3. ASSUME NEW w \in Workers, ReportHeartbeat(s, i, w) PROVE Grows
    BY <2>3 DEF ReportHeartbeat, TypeOK
  <2>4. ASSUME NEW w \in Workers, ReportProgress(s, i, w) PROVE Grows
    BY <2>4 DEF ReportProgress, TypeOK
  <2>5. ASSUME NEW w \in Workers, NEW to \in Reported, ReportTerminal(s, i, w, to) PROVE Grows
    BY <2>5 DEF ReportTerminal, StampsStart, TypeOK
  <2> QED
    BY <1>2, <2>1, <2>2, <2>3, <2>4, <2>5 DEF RequestArrives
<1>3. CASE SweeperStep
  <2>1. CASE ListRetryReady
    BY <2>1, StatusFacts, JobControlPlaneAssumption DEF ListRetryReady, RetryReady, TypeOK, Terminal, SweeperHolding, SweeperPcs
  <2>2. ASSUME NEW i \in Jobs, RequeueGet(i) PROVE Grows
    BY <2>2, StatusFacts, JobControlPlaneAssumption DEF RequeueGet, EndTick, TypeOK, Terminal, SweeperHolding, SweeperPcs
  <2>3. CASE RequeueWrite
    BY <2>3, StatusFacts, JobControlPlaneAssumption DEF RequeueWrite, TypeOK, Terminal, SweeperHolding, SweeperPcs
  <2>4. CASE RequeuePublish
    BY <2>4, StatusFacts, JobControlPlaneAssumption DEF RequeuePublish, TypeOK, Terminal, SweeperHolding, SweeperPcs
  <2>5. CASE ListExpiredRunning
    BY <2>5, StatusFacts, JobControlPlaneAssumption DEF ListExpiredRunning, ExpiredRunning, TypeOK, Terminal, SweeperHolding, SweeperPcs
  <2>6. ASSUME NEW i \in Jobs, MarkFailed(i) PROVE Grows
    BY <2>6, StatusFacts, JobControlPlaneAssumption DEF MarkFailed, GivesUp, RetriesUsedUp, TypeOK, Terminal, SweeperHolding, SweeperPcs
  <2>7. ASSUME NEW i \in Jobs, MarkRetryWaitingGet(i) PROVE Grows
    BY <2>7, StatusFacts, JobControlPlaneAssumption DEF MarkRetryWaitingGet, EndTick, GivesUp, RetriesUsedUp, TypeOK, Terminal, SweeperHolding, SweeperPcs
  <2>8. CASE MarkRetryWaitingWrite
    BY <2>8, StatusFacts, JobControlPlaneAssumption DEF MarkRetryWaitingWrite, RetryAt, TypeOK, Terminal, SweeperHolding, SweeperPcs
  <2>9. CASE IncrementRetryCount
    BY <2>9, StatusFacts, JobControlPlaneAssumption DEF IncrementRetryCount, RetryCounted, TypeOK, Terminal, SweeperHolding, SweeperPcs
  <2>10. CASE TickDone
    BY <2>10, StatusFacts, JobControlPlaneAssumption DEF TickDone, EndTick, TypeOK, Terminal, SweeperHolding, SweeperPcs
  <2>11. CASE SweeperFails
    BY <2>11, StatusFacts, JobControlPlaneAssumption DEF SweeperFails, EndTick, TypeOK, Terminal, SweeperHolding, SweeperPcs
  <2> QED
    BY <1>3, <2>1, <2>2, <2>3, <2>4, <2>5, <2>6, <2>7, <2>8, <2>9, <2>10, <2>11 DEF SweeperStep
<1>4. ASSUME NEW i \in Jobs, DeadlinePasses(i) PROVE Grows
  BY <1>4 DEF DeadlinePasses, TypeOK
<1>5. CASE UNCHANGED vars
  BY <1>5 DEF TypeOK
<1> QED
  BY <1>1, <1>2, <1>3, <1>4, <1>5 DEF Next

(***************************************************************************)
(* Each conjunct of the inductive invariant, step by step.                 *)
(***************************************************************************)
LEMMA RequestStepInv ==
  ASSUME TypeOK, RequestInv, StampsFollowStatus, [Next]_vars PROVE RequestInv'
<1> SUFFICES ASSUME NEW t \in Requests PROVE RequestOK(t)'
  BY DEF RequestInv
<1>0. CASE req'[t] = req[t]
  <2>1. req[t] # Idle => req[t].job \in Jobs
    BY DEF TypeOK, Request
  <2> QED
    BY <1>0, <2>1, RowsOnlyGrow DEF RequestInv, RequestOK, At
<1> USE DEF RequestOK
<1> USE DEF row, sweeper, history, vars
<1>1. ASSUME NEW s \in Requests, RequestStep(s) PROVE RequestOK(t)'
  <2>1. CASE InsertJob(s)
    BY <2>1, <1>0 DEF InsertJob, TypeOK, At, Goto, Request, Idle
  <2>2. CASE InsertConflict(s)
    BY <2>2, <1>0, ReturnType DEF InsertConflict, At
  <2>3. CASE PublishCreated(s)
    BY <2>3, <1>0, ReturnType DEF PublishCreated, At
  <2>4. CASE ClaimGet(s)
    <3>1. req[s].worker \in Workers /\ status[req[s].job] # Absent /\ req[s].job \in Jobs
      BY <2>4 DEF ClaimGet, At, RequestInv, TypeOK, Request
    <3> QED
      BY <2>4, <1>0, <3>1 DEF ClaimGet, TypeOK, At, Goto, Request, Idle
  <2>5. CASE UpdateStatusGet(s)
    <3>1. req[s].worker \in Workers /\ status[req[s].job] # Absent /\ req[s].job \in Jobs
      BY <2>5 DEF UpdateStatusGet, At, RequestInv, TypeOK, Request
    <3> QED
      BY <2>5, <1>0, <3>1 DEF UpdateStatusGet, TypeOK, At, Return, Request, Idle
  <2>6. CASE UpdateStatusWrite(s)
    <3>1. req[s].worker \in Workers /\ status[req[s].job] # Absent /\ req[s].job \in Jobs
      BY <2>6 DEF UpdateStatusWrite, At, RequestInv, TypeOK, Request
    <3>2. status'[req[s].job] # Absent
      BY <3>1, RowsOnlyGrow
    <3> QED
      BY <2>6, <1>0, <3>1, <3>2 DEF UpdateStatusWrite, TypeOK, At, Goto, Request, Idle
  <2>7. CASE TouchLease(s)
    BY <2>7, <1>0, ReturnType DEF TouchLease, At
  <2>8. CASE UpdateProgressWrite(s)
    BY <2>8, <1>0, ReturnType DEF UpdateProgressWrite, At
  <2>9. CASE CompleteWrite(s)
    BY <2>9, <1>0, ReturnType DEF CompleteWrite, At
  <2>10. CASE RequestFails(s)
    BY <2>10, <1>0, ReturnType DEF RequestFails, At
  <2> QED
    BY <1>1, <2>1, <2>2, <2>3, <2>4, <2>5, <2>6, <2>7, <2>8, <2>9, <2>10 DEF RequestStep
<1>2. ASSUME NEW s \in Requests, NEW i \in Jobs, RequestArrives(s, i) PROVE RequestOK(t)'
  <2>1. CASE CreateJobExisting(s, i)
    BY <2>1, <1>0 DEF CreateJobExisting
  <2>2. CASE CreateJob(s, i)
    BY <2>2, <1>0, JobControlPlaneAssumption DEF CreateJob, TypeOK, At
  <2>3. ASSUME NEW w \in Workers, ReportHeartbeat(s, i, w) PROVE RequestOK(t)'
    BY <2>3, <1>0, JobControlPlaneAssumption DEF ReportHeartbeat, TypeOK, At
  <2>4. ASSUME NEW w \in Workers, ReportProgress(s, i, w) PROVE RequestOK(t)'
    BY <2>4, <1>0 DEF ReportProgress, TypeOK, At, StampsFollowStatus
  <2>5. ASSUME NEW w \in Workers, NEW to \in Reported, ReportTerminal(s, i, w, to) PROVE RequestOK(t)'
    BY <2>5, <1>0, JobControlPlaneAssumption DEF ReportTerminal, TypeOK, At, StampsStart
  <2> QED
    BY <1>2, <2>1, <2>2, <2>3, <2>4, <2>5 DEF RequestArrives
<1>3. CASE SweeperStep
  <2>1. CASE ListRetryReady
    BY <2>1, <1>0 DEF ListRetryReady
  <2>2. ASSUME NEW i \in Jobs, RequeueGet(i) PROVE RequestOK(t)'
    BY <2>2, <1>0 DEF RequeueGet
  <2>3. CASE RequeueWrite
    BY <2>3, <1>0 DEF RequeueWrite
  <2>4. CASE RequeuePublish
    BY <2>4, <1>0 DEF RequeuePublish
  <2>5. CASE ListExpiredRunning
    BY <2>5, <1>0 DEF ListExpiredRunning
  <2>6. ASSUME NEW i \in Jobs, MarkFailed(i) PROVE RequestOK(t)'
    BY <2>6, <1>0 DEF MarkFailed
  <2>7. ASSUME NEW i \in Jobs, MarkRetryWaitingGet(i) PROVE RequestOK(t)'
    BY <2>7, <1>0 DEF MarkRetryWaitingGet
  <2>8. CASE MarkRetryWaitingWrite
    BY <2>8, <1>0 DEF MarkRetryWaitingWrite
  <2>9. CASE IncrementRetryCount
    BY <2>9, <1>0 DEF IncrementRetryCount
  <2>10. CASE TickDone
    BY <2>10, <1>0 DEF TickDone
  <2>11. CASE SweeperFails
    BY <2>11, <1>0 DEF SweeperFails
  <2> QED
    BY <1>3, <2>1, <2>2, <2>3, <2>4, <2>5, <2>6, <2>7, <2>8, <2>9, <2>10, <2>11 DEF SweeperStep
<1>4. ASSUME NEW i \in Jobs, DeadlinePasses(i) PROVE RequestOK(t)'
  BY <1>4, <1>0 DEF DeadlinePasses
<1>5. CASE UNCHANGED vars
  BY <1>5, <1>0
<1> QED
  BY <1>0, <1>1, <1>2, <1>3, <1>4, <1>5 DEF Next

(***************************************************************************)
(* Requests and the clock leave the sweeper's columns alone.               *)
(***************************************************************************)
LEMMA OnlySweeperSweeps ==
  ASSUME [Next]_vars, ~SweeperStep
  PROVE  UNCHANGED <<swPc, swTodo, swCur, swRead, swSeen, retryCount, retryPushes, errorCode>>
<1> USE DEF row, sweeper, history, vars
<1>1. ASSUME NEW s \in Requests, RequestStep(s)
      PROVE  UNCHANGED <<swPc, swTodo, swCur, swRead, swSeen, retryCount, retryPushes, errorCode>>
  BY <1>1 DEF RequestStep, InsertJob, InsertConflict, PublishCreated, ClaimGet, UpdateStatusGet, UpdateStatusWrite, TouchLease, UpdateProgressWrite, CompleteWrite, RequestFails
<1>2. ASSUME NEW s \in Requests, NEW i \in Jobs, RequestArrives(s, i)
      PROVE  UNCHANGED <<swPc, swTodo, swCur, swRead, swSeen, retryCount, retryPushes, errorCode>>
  BY <1>2 DEF RequestArrives, CreateJobExisting, CreateJob, ReportHeartbeat, ReportProgress, ReportTerminal
<1> QED
  BY <1>1, <1>2 DEF Next, DeadlinePasses

(***************************************************************************)
(* Only the sweeper parks a job in retry_waiting or puts it back in the    *)
(* queue.                                                                  *)
(***************************************************************************)
LEMMA OnlySweeperParks ==
  ASSUME TypeOK, RequestInv, [Next]_vars, ~SweeperStep, NEW j \in Jobs
  PROVE  /\ status'[j] = RetryWaiting => status[j] = RetryWaiting
         /\ status[j] \notin {Absent, Queued} => status'[j] \notin {Absent, Queued}
<1> DEFINE Goal == /\ status'[j] = RetryWaiting => status[j] = RetryWaiting
                   /\ status[j] \notin {Absent, Queued} => status'[j] \notin {Absent, Queued}
<1> SUFFICES Goal
  OBVIOUS
<1> USE DEF row, sweeper, history, vars
<1>1. ASSUME NEW s \in Requests, RequestStep(s) PROVE Goal
  <2>1. CASE InsertJob(s)
    BY <2>1, StatusFacts DEF InsertJob, UniqueKeyFree, TypeOK
  <2>2. CASE UpdateStatusWrite(s)
    BY <2>2, StatusFacts DEF UpdateStatusWrite, TypeOK
  <2>3. CASE UpdateProgressWrite(s)
    BY <2>3, StatusFacts DEF UpdateProgressWrite, TypeOK
  <2>4. CASE CompleteWrite(s)
    BY <2>4, StatusFacts DEF CompleteWrite, TypeOK, RequestInv, RequestOK
  <2> QED
    BY <1>1, <2>1, <2>2, <2>3, <2>4
    DEF RequestStep, InsertConflict, PublishCreated, ClaimGet, UpdateStatusGet, TouchLease, RequestFails
<1>2. ASSUME NEW s \in Requests, NEW i \in Jobs, RequestArrives(s, i) PROVE Goal
  BY <1>2 DEF RequestArrives, CreateJobExisting, CreateJob, ReportHeartbeat, ReportProgress, ReportTerminal
<1> QED
  BY <1>1, <1>2 DEF Next, DeadlinePasses

(***************************************************************************)
(* SweeperInv is inductive: the other actors leave the sweeper's list and  *)
(* the retry counts alone and never undo what it saw of a row.             *)
(***************************************************************************)
LEMMA SweeperStepInv ==
  ASSUME TypeOK, RequestInv, SweeperInv, StampsFollowStatus, LeaseHasOwner, [Next]_vars
  PROVE  SweeperInv'
<1> USE DEF row, sweeper, history, vars
<1>1. CASE ~SweeperStep
  <2>1. UNCHANGED <<swPc, swTodo, swCur, swRead, swSeen, retryCount>>
    BY <1>1, OnlySweeperSweeps
  <2>2. swPc \in SweeperHolding => swCur \in Jobs
    BY DEF TypeOK
  <2>3. swTodo \subseteq Jobs
    BY DEF TypeOK
  <2>4. \A j \in Jobs : /\ startedAt[j] => startedAt'[j]
                        /\ workerId[j] # NoWorker => workerId'[j] # NoWorker
    BY RowsOnlyGrow
  <2>5. \A j \in Jobs : /\ status'[j] = RetryWaiting => status[j] = RetryWaiting
                        /\ status[j] \notin {Absent, Queued} => status'[j] \notin {Absent, Queued}
    BY <1>1, OnlySweeperParks
  <2> QED
    BY <2>1, <2>2, <2>3, <2>4, <2>5 DEF SweeperInv, SweeperHolding
<1>3. CASE SweeperStep
  <2>1. CASE ListRetryReady
    BY <2>1, StatusFacts DEF ListRetryReady, RetryReady, SweeperInv, SweeperHolding, TypeOK
  <2>2. ASSUME NEW i \in Jobs, RequeueGet(i) PROVE SweeperInv'
    BY <2>2, StatusFacts DEF RequeueGet, EndTick, SweeperInv, SweeperHolding, TypeOK
  <2>3. CASE RequeueWrite
    BY <2>3, StatusFacts DEF RequeueWrite, SweeperInv, SweeperHolding, TypeOK
  <2>4. CASE RequeuePublish
    BY <2>4, StatusFacts DEF RequeuePublish, SweeperInv, SweeperHolding, TypeOK
  <2>5. CASE ListExpiredRunning
    <3>1. \A j \in swTodo' : startedAt[j] /\ workerId[j] # NoWorker
      BY <2>5, LeaseFacts DEF ListExpiredRunning, ExpiredRunning, StampsFollowStatus, LeaseHasOwner
    <3> QED
      BY <2>5, <3>1 DEF ListExpiredRunning, SweeperInv, SweeperHolding
  <2>6. ASSUME NEW i \in Jobs, MarkFailed(i) PROVE SweeperInv'
    BY <2>6, StatusFacts DEF MarkFailed, GivesUp, RetriesUsedUp, SweeperInv, SweeperHolding, TypeOK
  <2>7. ASSUME NEW i \in Jobs, MarkRetryWaitingGet(i) PROVE SweeperInv'
    BY <2>7, JobControlPlaneAssumption
    DEF MarkRetryWaitingGet, EndTick, GivesUp, RetriesUsedUp, SweeperInv, SweeperHolding, TypeOK
  <2>8. CASE MarkRetryWaitingWrite
    BY <2>8, StatusFacts DEF MarkRetryWaitingWrite, RetryAt, SweeperInv, SweeperHolding, TypeOK
  <2>9. CASE IncrementRetryCount
    <3>1. swCur \in Jobs
      BY <2>9 DEF IncrementRetryCount, TypeOK, SweeperHolding
    <3>2. \A j \in swTodo : retryCount'[j] = retryCount[j]
      <4>1. swCur \notin swTodo
        BY <2>9 DEF IncrementRetryCount, SweeperInv, SweeperHolding
      <4> QED
        BY <2>9, <3>1, <4>1 DEF IncrementRetryCount, TypeOK
    <3> QED
      BY <2>9, <3>2 DEF IncrementRetryCount, SweeperInv, SweeperHolding
  <2>10. CASE TickDone
    BY <2>10, StatusFacts DEF TickDone, EndTick, SweeperInv, SweeperHolding, TypeOK
  <2>11. CASE SweeperFails
    BY <2>11, StatusFacts DEF SweeperFails, EndTick, SweeperInv, SweeperHolding, TypeOK
  <2> QED
    BY <1>3, <2>1, <2>2, <2>3, <2>4, <2>5, <2>6, <2>7, <2>8, <2>9, <2>10, <2>11 DEF SweeperStep
<1> QED
  BY <1>1, <1>3

(***************************************************************************)
(* CreateInv is inductive: the unique constraint lets one request reach    *)
(* Publish, and that request pushes once.                                  *)
(***************************************************************************)
LEMMA CreateStepInv ==
  ASSUME TypeOK, RequestInv, CreateInv, [Next]_vars PROVE CreateInv'
<1> USE DEF row, sweeper, history, vars
<1>0. \A j \in Jobs : status[j] # Absent => status'[j] # Absent
  BY RowsOnlyGrow
<1>1. ASSUME UNCHANGED createPushes,
             \A t \in Requests : At(t, "publish")' => At(t, "publish") /\ req'[t].job = req[t].job
      PROVE  CreateInv'
  BY <1>0, <1>1 DEF CreateInv
<1>2. ASSUME NEW s \in Requests, RequestStep(s) PROVE CreateInv'
  <2>0. ASSUME req[s] # Idle PROVE req[s] \in Request /\ req[s].job \in Jobs
    BY <2>0 DEF TypeOK, Request
  <2>1. CASE InsertJob(s)
    <3> DEFINE j == req[s].job
    <3>1. j \in Jobs /\ req[s] \in Request
      BY <2>0, <2>1 DEF InsertJob, At
    <3>2. status[j] = Absent /\ createPushes[j] = 0
      BY <2>1, <3>1 DEF InsertJob, UniqueKeyFree, CreateInv
    <3>3. \A t \in Requests : ~(At(t, "publish") /\ req[t].job = j)
      BY <3>1, <3>2 DEF CreateInv
    <3>4. \A t \in Requests \ {s} : req'[t] = req[t]
      BY <2>1 DEF InsertJob, Goto, TypeOK
    <3>5. req'[s].job = j
      BY <2>1, <3>1 DEF InsertJob, Goto, TypeOK, Request
    <3>6. status'[j] # Absent
      BY <2>1, <3>1, StatusFacts DEF InsertJob, TypeOK
    <3>7. UNCHANGED createPushes
      BY <2>1 DEF InsertJob
    <3>8. ASSUME NEW i \in Jobs
          PROVE  (/\ createPushes[i] <= 1
                  /\ status[i] = Absent => createPushes[i] = 0)'
      BY <1>0, <3>7 DEF CreateInv
    <3>9. ASSUME NEW i \in Jobs, NEW u \in Requests, At(u, "publish")', req'[u].job = i
          PROVE  /\ status'[i] # Absent
                 /\ createPushes'[i] = 0
                 /\ \A t \in Requests : At(t, "publish")' /\ req'[t].job = i => u = t
      <4>1. CASE u = s
        BY <4>1, <3>2, <3>3, <3>4, <3>5, <3>6, <3>7, <3>9 DEF At
      <4>2. CASE u # s
        <5>1. At(u, "publish") /\ req[u].job = i
          BY <4>2, <3>4, <3>9 DEF At
        <5>2. i # j
          BY <5>1, <3>3
        <5>3. /\ status[i] # Absent
              /\ createPushes[i] = 0
              /\ \A t \in Requests : At(t, "publish") /\ req[t].job = i => u = t
          BY <5>1 DEF CreateInv
        <5> QED
          BY <1>0, <5>2, <5>3, <3>4, <3>5, <3>7 DEF At
      <4> QED
        BY <4>1, <4>2
    <3> QED
      BY <3>8, <3>9 DEF CreateInv
  <2>2. CASE PublishCreated(s)
    <3> DEFINE j == req[s].job
    <3>1. j \in Jobs
      BY <2>0, <2>2 DEF PublishCreated, At
    <3>2. /\ status[j] # Absent
          /\ createPushes[j] = 0
          /\ \A t \in Requests : At(t, "publish") /\ req[t].job = j => s = t
      BY <2>2, <3>1 DEF PublishCreated, CreateInv
    <3>3. /\ createPushes'[j] = createPushes[j] + 1
          /\ \A i \in Jobs \ {j} : createPushes'[i] = createPushes[i]
      BY <2>2, <3>1 DEF PublishCreated, TypeOK
    <3>4. req'[s] = Idle /\ \A t \in Requests \ {s} : req'[t] = req[t]
      BY <2>2, ReturnType DEF PublishCreated
    <3>5. UNCHANGED status
      BY <2>2 DEF PublishCreated
    <3>6. ASSUME NEW i \in Jobs
          PROVE  (/\ createPushes[i] <= 1
                  /\ status[i] = Absent => createPushes[i] = 0)'
      BY <3>2, <3>3, <3>5 DEF CreateInv
    <3>7. ASSUME NEW i \in Jobs, NEW u \in Requests, At(u, "publish")', req'[u].job = i
          PROVE  /\ status'[i] # Absent
                 /\ createPushes'[i] = 0
                 /\ \A t \in Requests : At(t, "publish")' /\ req'[t].job = i => u = t
      <4>1. u # s /\ At(u, "publish") /\ req[u].job = i
        BY <3>4, <3>7 DEF At
      <4>2. i # j
        BY <4>1, <3>2
      <4>3. /\ status[i] # Absent
            /\ createPushes[i] = 0
            /\ \A t \in Requests : At(t, "publish") /\ req[t].job = i => u = t
        BY <4>1 DEF CreateInv
      <4> QED
        BY <4>2, <4>3, <3>3, <3>4, <3>5 DEF At
    <3> QED
      BY <3>6, <3>7 DEF CreateInv
  <2>3. CASE ~InsertJob(s) /\ ~PublishCreated(s)
    <3>1. UNCHANGED createPushes
      BY <1>2, <2>3 DEF RequestStep, InsertConflict, ClaimGet, UpdateStatusGet, UpdateStatusWrite, TouchLease, UpdateProgressWrite, CompleteWrite, RequestFails
    <3>2. ASSUME NEW t \in Requests, At(t, "publish")'
          PROVE  At(t, "publish") /\ req'[t].job = req[t].job
      <4>1. CASE ClaimGet(s)
        BY <3>2, <4>1 DEF ClaimGet, At, Goto, TypeOK, Request, Idle
      <4>2. CASE UpdateStatusGet(s)
        BY <3>2, <4>2 DEF UpdateStatusGet, At, Return, TypeOK, Request, Idle
      <4>3. CASE UpdateStatusWrite(s)
        BY <3>2, <4>3 DEF UpdateStatusWrite, At, Goto, TypeOK, Request, Idle
      <4>4. CASE Return(s)
        BY <3>2, <4>4, ReturnType DEF At
      <4> QED
        BY <1>2, <2>3, <4>1, <4>2, <4>3, <4>4
        DEF RequestStep, InsertConflict, TouchLease, UpdateProgressWrite, CompleteWrite, RequestFails
    <3> QED
      BY <1>1, <3>1, <3>2
  <2> QED
    BY <2>1, <2>2, <2>3
<1>3. ASSUME NEW s \in Requests, NEW i \in Jobs, RequestArrives(s, i) PROVE CreateInv'
  <2>1. UNCHANGED createPushes
    BY <1>3 DEF RequestArrives, CreateJobExisting, CreateJob, ReportHeartbeat, ReportProgress, ReportTerminal
  <2>2. ASSUME NEW t \in Requests, At(t, "publish")'
        PROVE  At(t, "publish") /\ req'[t].job = req[t].job
    BY <1>3, <2>2 DEF RequestArrives, CreateJobExisting, CreateJob, ReportHeartbeat, ReportProgress, ReportTerminal, At, TypeOK
  <2> QED
    BY <1>1, <2>1, <2>2
<1>4. CASE SweeperStep \/ (\E j \in Jobs : DeadlinePasses(j)) \/ UNCHANGED vars
  <2>1. UNCHANGED <<createPushes, req>>
    BY <1>4 DEF SweeperStep, DeadlinePasses, ListRetryReady, RequeueGet, RequeueWrite, RequeuePublish, ListExpiredRunning, MarkFailed, MarkRetryWaitingGet, MarkRetryWaitingWrite, IncrementRetryCount, TickDone, SweeperFails
  <2> QED
    BY <1>1, <2>1 DEF At
<1> QED
  BY <1>2, <1>3, <1>4 DEF Next

(***************************************************************************)
(* The count of failures never goes down.                                  *)
(***************************************************************************)
LEMMA FailuresGrow == ASSUME TypeOK, [Next]_vars PROVE failures' \in Nat /\ failures' >= failures
<1> USE DEF row, sweeper, history, vars
<1>1. failures' = failures \/ failures' = failures + 1
  <2>1. ASSUME NEW s \in Requests, RequestStep(s)
        PROVE  failures' = failures \/ failures' = failures + 1
    BY <2>1 DEF RequestStep, InsertJob, InsertConflict, PublishCreated, ClaimGet, UpdateStatusGet, UpdateStatusWrite, TouchLease, UpdateProgressWrite, CompleteWrite, RequestFails
  <2>2. ASSUME NEW s \in Requests, NEW i \in Jobs, RequestArrives(s, i)
        PROVE  failures' = failures \/ failures' = failures + 1
    BY <2>2 DEF RequestArrives, CreateJobExisting, CreateJob, ReportHeartbeat, ReportProgress, ReportTerminal
  <2>3. CASE SweeperStep
    BY <2>3 DEF SweeperStep, EndTick, ListRetryReady, RequeueGet, RequeueWrite, RequeuePublish, ListExpiredRunning, MarkFailed, MarkRetryWaitingGet, MarkRetryWaitingWrite, IncrementRetryCount, TickDone, SweeperFails
  <2> QED
    BY <2>1, <2>2, <2>3 DEF Next, DeadlinePasses
<1>2. failures \in Nat
  BY DEF TypeOK
<1> QED
  BY <1>1, <1>2

(***************************************************************************)
(* The balance of retries is kept: a grant is paid by the increment that   *)
(* follows it, or by the failure that prevents the increment.              *)
(***************************************************************************)
LEMMA BudgetStepInv ==
  ASSUME TypeOK, RequestInv, SweeperInv, BudgetInv, [Next]_vars PROVE BudgetInv'
<1> USE DEF row, sweeper, history, vars
<1> SUFFICES ASSUME NEW j \in Jobs
             PROVE  (retryPushes[j] + Granted(j) <= retryCount[j] + failures + Uncounted(j))'
  BY DEF BudgetInv
<1>a. /\ retryPushes[j] \in Nat /\ retryCount[j] \in Nat /\ failures \in Nat
      /\ retryPushes[j] + Granted(j) <= retryCount[j] + failures + Uncounted(j)
  BY DEF TypeOK, BudgetInv
<1>b. failures' \in Nat /\ failures' >= failures
  BY FailuresGrow
<1>1. CASE ~SweeperStep
  <2>1. UNCHANGED <<swPc, swTodo, swCur, swRead, swSeen, retryCount, retryPushes>>
    BY <1>1, OnlySweeperSweeps
  <2>2. status'[j] = RetryWaiting => status[j] = RetryWaiting
    BY <1>1, OnlySweeperParks
  <2> QED
    BY <1>a, <1>b, <2>1, <2>2 DEF Granted, Uncounted
<1> DEFINE Goal == (retryPushes[j] + Granted(j) <= retryCount[j] + failures + Uncounted(j))'
<1>3. CASE SweeperStep
  <2> USE <1>a, StatusFacts DEF Granted, Uncounted
  <2>1. CASE ListRetryReady
    BY <2>1 DEF ListRetryReady
  <2>2. ASSUME NEW i \in Jobs, RequeueGet(i)
        PROVE  Goal
    <3>1. CASE CanTransition(status[i], Queued)
      <4>1. status[i] = RetryWaiting
        BY <2>2, <3>1 DEF RequeueGet, CanTransition, transitions, TypeOK, SweeperInv,
                         Statuses, Terminal, Queued, Running, RetryWaiting, Absent
      <4>2. /\ swPc = "requeue" /\ swPc' = "requeueWrite" /\ swCur' = i
            /\ UNCHANGED <<status, retryPushes, retryCount, failures>>
        BY <2>2, <3>1 DEF RequeueGet
      <4>3. Granted(j)' = Granted(j) /\ Uncounted(j)' = Uncounted(j)
        BY <4>1, <4>2
      <4> QED
        BY <4>2, <4>3
    <3>2. CASE ~CanTransition(status[i], Queued)
      BY <2>2, <3>2 DEF RequeueGet, EndTick
    <3> QED
      BY <3>1, <3>2
  <2>3. CASE RequeueWrite
    <3>1. swCur \in Jobs
      BY <2>3 DEF RequeueWrite, TypeOK, SweeperHolding
    <3> QED
      BY <2>3, <3>1 DEF RequeueWrite, TypeOK
  <2>4. CASE RequeuePublish
    <3>1. swCur \in Jobs
      BY <2>4 DEF RequeuePublish, TypeOK, SweeperHolding
    <3>2. retryPushes'[j] = IF j = swCur THEN retryPushes[j] + 1 ELSE retryPushes[j]
      BY <2>4, <3>1 DEF RequeuePublish, TypeOK
    <3> QED
      BY <2>4, <3>1, <3>2 DEF RequeuePublish, SweeperInv
  <2>5. CASE ListExpiredRunning
    BY <2>5 DEF ListExpiredRunning
  <2>6. ASSUME NEW i \in Jobs, MarkFailed(i)
        PROVE  Goal
    BY <2>6 DEF MarkFailed, TypeOK, Terminal
  <2>7. ASSUME NEW i \in Jobs, MarkRetryWaitingGet(i)
        PROVE  Goal
    BY <2>7 DEF MarkRetryWaitingGet, EndTick
  <2>8. CASE MarkRetryWaitingWrite
    <3>1. swCur \in Jobs
      BY <2>8 DEF MarkRetryWaitingWrite, TypeOK, SweeperHolding
    <3> QED
      BY <2>8, <3>1 DEF MarkRetryWaitingWrite, TypeOK
  <2>9. CASE IncrementRetryCount
    <3>1. swCur \in Jobs
      BY <2>9 DEF IncrementRetryCount, TypeOK, SweeperHolding
    <3>2. retryCount'[j] = IF j = swCur THEN retryCount[j] + 1 ELSE retryCount[j]
      BY <2>9, <3>1 DEF IncrementRetryCount, RetryCounted, TypeOK
    <3> QED
      BY <2>9, <3>1, <3>2 DEF IncrementRetryCount
  <2>10. CASE TickDone
    BY <2>10 DEF TickDone, EndTick
  <2>11. CASE SweeperFails
    BY <2>11 DEF SweeperFails, EndTick
  <2> QED
    BY <1>3, <2>1, <2>2, <2>3, <2>4, <2>5, <2>6, <2>7, <2>8, <2>9, <2>10, <2>11 DEF SweeperStep
<1> QED
  BY <1>1, <1>3

-----------------------------------------------------------------------------
(***************************************************************************)
(* Step lemmas of the invariants that are properties themselves.           *)
(***************************************************************************)

(***************************************************************************)
(* The sweeper increments the count of a job it read below maxRetries, and *)
(* nobody else changes it in between.                                      *)
(***************************************************************************)
LEMMA RetryBoundStep ==
  ASSUME TypeOK, SweeperInv, RetryBound, [Next]_vars PROVE RetryBound'
<1> USE DEF row, sweeper, history, vars
<1>1. CASE ~SweeperStep
  BY <1>1, OnlySweeperSweeps DEF RetryBound
<1>2. CASE IncrementRetryCount
  <2>1. swCur \in Jobs /\ retryCount[swCur] < MaxRetries
    BY <1>2 DEF IncrementRetryCount, TypeOK, SweeperHolding, SweeperInv
  <2>2. ASSUME NEW j \in Jobs
        PROVE  retryCount'[j] = IF j = swCur THEN retryCount[j] + 1 ELSE retryCount[j]
    BY <1>2, <2>1 DEF IncrementRetryCount, RetryCounted, TypeOK
  <2>3. ASSUME NEW j \in Jobs PROVE retryCount'[j] <= MaxRetries
    <3>1. retryCount[j] \in Nat /\ retryCount[j] <= MaxRetries /\ MaxRetries \in Nat
      BY JobControlPlaneAssumption DEF TypeOK, RetryBound
    <3> QED
      BY <2>1, <2>2, <3>1
  <2> QED
    BY <2>3 DEF RetryBound
<1>3. CASE SweeperStep /\ ~IncrementRetryCount
  <2>1. UNCHANGED retryCount
    BY <1>3 DEF SweeperStep, ListRetryReady, RequeueGet, RequeueWrite, RequeuePublish,
         ListExpiredRunning, MarkFailed, MarkRetryWaitingGet, MarkRetryWaitingWrite, TickDone,
         SweeperFails
  <2> QED
    BY <2>1 DEF RetryBound
<1> QED
  BY <1>1, <1>2, <1>3

(***************************************************************************)
(* MarkFailed decides on the count in its list, which is the count of the  *)
(* row; a job that gets another retry has not been marked yet.             *)
(***************************************************************************)
LEMMA LeaseTimeoutStep ==
  ASSUME TypeOK, SweeperInv, RetryBound, LeaseTimeoutEarned, [Next]_vars
  PROVE  LeaseTimeoutEarned'
<1> USE DEF row, sweeper, history, vars
<1>1. CASE ~SweeperStep
  BY <1>1, OnlySweeperSweeps DEF LeaseTimeoutEarned
<1>2. ASSUME NEW i \in Jobs, MarkFailed(i) PROVE LeaseTimeoutEarned'
  <2>1. i \in Fatal \/ retryCount[i] >= MaxRetries
    BY <1>2 DEF MarkFailed, GivesUp, RetriesUsedUp, SweeperInv
  <2>2. i \in Fatal \/ retryCount[i] = MaxRetries
    BY <2>1, JobControlPlaneAssumption DEF RetryBound, TypeOK
  <2>3. ASSUME NEW j \in Jobs PROVE errorCode'[j] => errorCode[j] \/ j = i
    BY <1>2 DEF MarkFailed, TypeOK
  <2>4. UNCHANGED retryCount
    BY <1>2 DEF MarkFailed
  <2> QED
    BY <2>2, <2>3, <2>4 DEF LeaseTimeoutEarned
<1>3. CASE IncrementRetryCount
  <2>1. swCur \in Jobs /\ retryCount[swCur] < MaxRetries
    BY <1>3 DEF IncrementRetryCount, TypeOK, SweeperHolding, SweeperInv
  <2>2. errorCode[swCur] => swCur \in Fatal
    BY <2>1, JobControlPlaneAssumption DEF LeaseTimeoutEarned, TypeOK
  <2>3. \A j \in Jobs \ {swCur} : retryCount'[j] = retryCount[j]
    BY <1>3, <2>1 DEF IncrementRetryCount, TypeOK
  <2>4. UNCHANGED errorCode
    BY <1>3 DEF IncrementRetryCount
  <2> QED
    BY <2>2, <2>3, <2>4 DEF LeaseTimeoutEarned
<1>4. CASE SweeperStep /\ ~IncrementRetryCount /\ \A i \in Jobs : ~MarkFailed(i)
  <2>1. UNCHANGED <<retryCount, errorCode>>
    BY <1>4 DEF SweeperStep, ListRetryReady, RequeueGet, RequeueWrite, RequeuePublish,
         ListExpiredRunning, MarkRetryWaitingGet, MarkRetryWaitingWrite, TickDone, SweeperFails
  <2> QED
    BY <2>1 DEF LeaseTimeoutEarned
<1> QED
  BY <1>1, <1>2, <1>3, <1>4

(***************************************************************************)
(* How a deadline changes: only the requeue clears it, and it does so for  *)
(* the job it puts back in the queue; only TouchLease and MarkRetryWaiting *)
(* write one, both on a row that has an owner afterwards.                  *)
(***************************************************************************)
LEMMA DeadlineChanges ==
  ASSUME TypeOK, RequestInv, SweeperInv, [Next]_vars, NEW j \in Jobs
  PROVE  /\ leaseUntil[j] # NoLease => leaseUntil'[j] # NoLease \/ status'[j] = Queued
         /\ leaseUntil'[j] # NoLease => leaseUntil[j] # NoLease \/ workerId'[j] # NoWorker
         /\ status'[j] = RetryWaiting => status[j] = RetryWaiting \/ leaseUntil'[j] # NoLease
<1> DEFINE Goal ==
  /\ leaseUntil[j] # NoLease => leaseUntil'[j] # NoLease \/ status'[j] = Queued
  /\ leaseUntil'[j] # NoLease => leaseUntil[j] # NoLease \/ workerId'[j] # NoWorker
  /\ status'[j] = RetryWaiting => status[j] = RetryWaiting \/ leaseUntil'[j] # NoLease
<1> SUFFICES Goal
  OBVIOUS
<1> USE DEF row, sweeper, history, vars
<1>1. ASSUME NEW s \in Requests, TouchLease(s) PROVE Goal
  <2>1. req[s].worker \in Workers
    BY <1>1 DEF TouchLease, At, RequestInv, RequestOK
  <2>2. PICK deadline \in Deadlines : leaseUntil' = [leaseUntil EXCEPT ![req[s].job] = deadline]
    BY <1>1 DEF TouchLease
  <2>3. leaseUntil'[j] # NoLease => leaseUntil[j] # NoLease \/ workerId'[j] # NoWorker
    BY <1>1, <2>1, <2>2, JobControlPlaneAssumption DEF TouchLease, LeaseOwner, TypeOK
  <2>4. leaseUntil[j] # NoLease => leaseUntil'[j] # NoLease
    BY <2>2, LeaseFacts DEF TypeOK
  <2>5. UNCHANGED status
    BY <1>1 DEF TouchLease
  <2> QED
    BY <2>3, <2>4, <2>5
<1>2. ASSUME NEW s \in Requests, RequestStep(s) PROVE Goal
  <2>1. CASE TouchLease(s)
    BY <1>1, <2>1
  <2>2. CASE ~TouchLease(s)
    <3>1. UNCHANGED leaseUntil
      BY <1>2, <2>2
      DEF RequestStep, InsertJob, InsertConflict, PublishCreated, ClaimGet, UpdateStatusGet,
          UpdateStatusWrite, UpdateProgressWrite, CompleteWrite, RequestFails
    <3>3. status'[j] = RetryWaiting => status[j] = RetryWaiting
      <4>1. CASE InsertJob(s)
        BY <4>1, StatusFacts DEF InsertJob, TypeOK
      <4>2. CASE UpdateStatusWrite(s)
        BY <4>2, StatusFacts DEF UpdateStatusWrite, TypeOK
      <4>3. CASE UpdateProgressWrite(s)
        BY <4>3, StatusFacts DEF UpdateProgressWrite, TypeOK
      <4>4. CASE CompleteWrite(s)
        BY <4>4, StatusFacts DEF CompleteWrite, TypeOK, RequestInv, RequestOK
      <4> QED
        BY <1>2, <2>2, <4>1, <4>2, <4>3, <4>4
        DEF RequestStep, InsertConflict, PublishCreated, ClaimGet, UpdateStatusGet, RequestFails
    <3> QED
      BY <3>1, <3>3
  <2> QED
    BY <2>1, <2>2
<1>3. ASSUME NEW s \in Requests, NEW i \in Jobs, RequestArrives(s, i) PROVE Goal
  BY <1>3 DEF RequestArrives, CreateJobExisting, CreateJob, ReportHeartbeat, ReportProgress,
              ReportTerminal
<1>4. ASSUME NEW i \in Jobs, DeadlinePasses(i) PROVE Goal
  BY <1>4, LeaseFacts DEF DeadlinePasses, TypeOK, Future, NoLease
<1>5. CASE RequeueWrite
  <2>1. swCur \in Jobs
    BY <1>5 DEF RequeueWrite, TypeOK, SweeperHolding
  <2> QED
    BY <1>5, <2>1, StatusFacts DEF RequeueWrite, TypeOK
<1>6. CASE MarkRetryWaitingWrite
  <2>1. swCur \in Jobs /\ workerId[swCur] # NoWorker
    BY <1>6 DEF MarkRetryWaitingWrite, TypeOK, SweeperHolding, SweeperInv
  <2>2. PICK retryAt \in RetryAt : leaseUntil' = [leaseUntil EXCEPT ![swCur] = retryAt]
    BY <1>6 DEF MarkRetryWaitingWrite
  <2> QED
    BY <1>6, <2>1, <2>2, LeaseFacts DEF MarkRetryWaitingWrite, RetryAt, TypeOK
<1>7. ASSUME NEW i \in Jobs, MarkFailed(i) PROVE Goal
  BY <1>7, StatusFacts DEF MarkFailed, Terminal, TypeOK
<1>8. CASE SweeperStep /\ ~RequeueWrite /\ ~MarkRetryWaitingWrite /\ \A i \in Jobs : ~MarkFailed(i)
  BY <1>8 DEF SweeperStep, ListRetryReady, RequeueGet, RequeuePublish, ListExpiredRunning,
              MarkRetryWaitingGet, IncrementRetryCount, TickDone, SweeperFails
<1> QED
  BY <1>2, <1>3, <1>4, <1>5, <1>6, <1>7, <1>8 DEF Next

(***************************************************************************)
(* A parked job keeps its deadline, and a deadline keeps its owner.        *)
(***************************************************************************)
LEMMA DeadlineStepInv ==
  ASSUME TypeOK, RequestInv, SweeperInv, RetryWaitingScheduled, LeaseHasOwner, [Next]_vars
  PROVE  RetryWaitingScheduled' /\ LeaseHasOwner'
<1>1. ASSUME NEW j \in Jobs PROVE status'[j] = RetryWaiting => leaseUntil'[j] # NoLease
  BY DeadlineChanges, StatusFacts DEF RetryWaitingScheduled
<1>2. ASSUME NEW j \in Jobs PROVE leaseUntil'[j] # NoLease => workerId'[j] # NoWorker
  BY DeadlineChanges, RowsOnlyGrow DEF LeaseHasOwner
<1> QED
  BY <1>1, <1>2 DEF RetryWaitingScheduled, LeaseHasOwner

(***************************************************************************)
(* Each update that takes a job out of the queue leaves started_at set,    *)
(* each update that ends it sets finished_at.                              *)
(***************************************************************************)
LEMMA StampsStepInv ==
  ASSUME TypeOK, RequestInv, SweeperInv, StampsFollowStatus, [Next]_vars
  PROVE  StampsFollowStatus'
<1> USE DEF row, sweeper, history, vars
<1> SUFFICES ASSUME NEW j \in Jobs
             PROVE  (/\ status[j] \in {Running, RetryWaiting} \union Terminal => startedAt[j]
                     /\ status[j] \in Terminal => finishedAt[j])'
  BY DEF StampsFollowStatus
<1> DEFINE Goal == (/\ status[j] \in {Running, RetryWaiting} \union Terminal => startedAt[j]
                    /\ status[j] \in Terminal => finishedAt[j])'
<1> SUFFICES Goal
  OBVIOUS
<1>0. /\ status[j] \in {Running, RetryWaiting} \union Terminal => startedAt[j]
      /\ status[j] \in Terminal => finishedAt[j]
      /\ startedAt[j] => startedAt'[j]
  BY RowsOnlyGrow DEF StampsFollowStatus
<1>1. ASSUME NEW s \in Requests, RequestStep(s) PROVE Goal
  <2>0. ASSUME req[s] # Idle PROVE req[s] \in Request /\ req[s].job \in Jobs
    BY <2>0 DEF TypeOK, Request
  <2>1. CASE InsertJob(s)
    BY <1>0, <2>0, <2>1, StatusFacts DEF InsertJob, TypeOK
  <2>2. CASE UpdateStatusWrite(s)
    BY <1>0, <2>0, <2>2, StatusFacts DEF UpdateStatusWrite, TypeOK
  <2>3. CASE UpdateProgressWrite(s)
    <3>1. req[s].start \/ startedAt[req[s].job]
      BY <2>3 DEF UpdateProgressWrite, RequestInv, RequestOK
    <3> QED
      BY <1>0, <2>0, <2>3, <3>1, StatusFacts DEF UpdateProgressWrite, TypeOK, At
  <2>4. CASE CompleteWrite(s)
    <3>1. req[s].start \/ startedAt[req[s].job]
      BY <2>4 DEF CompleteWrite, RequestInv, RequestOK
    <3>2. req[s].job \in Jobs
      BY <2>0, <2>4 DEF CompleteWrite, At
    <3>3. CASE req[s].job = j
      BY <2>4, <3>1, <3>2, <3>3 DEF CompleteWrite, TypeOK
    <3>4. CASE req[s].job # j
      BY <1>0, <2>4, <3>2, <3>4 DEF CompleteWrite, TypeOK
    <3> QED
      BY <3>3, <3>4
  <2> QED
    BY <1>0, <1>1, <2>1, <2>2, <2>3, <2>4
    DEF RequestStep, InsertConflict, PublishCreated, ClaimGet, UpdateStatusGet, TouchLease,
        RequestFails
<1>2. ASSUME NEW s \in Requests, NEW i \in Jobs, RequestArrives(s, i) PROVE Goal
  BY <1>0, <1>2 DEF RequestArrives, CreateJobExisting, CreateJob, ReportHeartbeat,
                    ReportProgress, ReportTerminal
<1>3. CASE RequeueWrite
  <2>1. swCur \in Jobs
    BY <1>3 DEF RequeueWrite, TypeOK, SweeperHolding
  <2> QED
    BY <1>0, <1>3, <2>1, StatusFacts DEF RequeueWrite, TypeOK
<1>4. ASSUME NEW i \in Jobs, MarkFailed(i) PROVE Goal
  <2>1. startedAt[i]
    BY <1>4 DEF MarkFailed, SweeperInv
  <2> QED
    BY <1>0, <1>4, <2>1 DEF MarkFailed, TypeOK
<1>5. CASE MarkRetryWaitingWrite
  <2>1. swCur \in Jobs /\ startedAt[swCur]
    BY <1>5 DEF MarkRetryWaitingWrite, TypeOK, SweeperHolding, SweeperInv
  <2> QED
    BY <1>0, <1>5, <2>1, StatusFacts DEF MarkRetryWaitingWrite, TypeOK
<1>6. CASE SweeperStep /\ ~RequeueWrite /\ ~MarkRetryWaitingWrite /\ \A i \in Jobs : ~MarkFailed(i)
  BY <1>0, <1>6 DEF SweeperStep, ListRetryReady, RequeueGet, RequeuePublish, ListExpiredRunning,
                    MarkRetryWaitingGet, IncrementRetryCount, TickDone, SweeperFails
<1> QED
  BY <1>0, <1>1, <1>2, <1>3, <1>4, <1>5, <1>6 DEF Next, DeadlinePasses

-----------------------------------------------------------------------------
(***************************************************************************)
(* The inductive invariant, and what follows from it.                      *)
(***************************************************************************)

(***************************************************************************)
(* The empty job table, no request and an idle sweeper satisfy IInv.       *)
(***************************************************************************)
LEMMA InitInv == Init => IInv
<1> SUFFICES ASSUME Init PROVE IInv
  OBVIOUS
<1>1. TypeOK
  BY InitType
<1>2. RequestInv
  BY DEF Init, RequestInv, RequestOK, At
<1>3. SweeperInv
  BY DEF Init, SweeperInv, SweeperHolding
<1>4. CreateInv
  BY DEF Init, CreateInv, At
<1>5. BudgetInv
  BY DEF Init, BudgetInv, Granted, Uncounted, Absent, RetryWaiting
<1>6. RetryBound /\ LeaseTimeoutEarned /\ LeaseHasOwner
  BY JobControlPlaneAssumption DEF Init, RetryBound, LeaseTimeoutEarned, LeaseHasOwner
<1>7. RetryWaitingScheduled
  BY DEF Init, RetryWaitingScheduled, Absent, RetryWaiting
<1>8. StampsFollowStatus
  BY StatusFacts DEF Init, StampsFollowStatus, Statuses
<1> QED
  BY <1>1, <1>2, <1>3, <1>4, <1>5, <1>6, <1>7, <1>8 DEF IInv

(***************************************************************************)
(* Every statement of a request, every statement of the sweeper and the    *)
(* passing of a deadline preserve IInv.                                    *)
(***************************************************************************)
LEMMA NextInv == IInv /\ [Next]_vars => IInv'
<1> SUFFICES ASSUME IInv, [Next]_vars PROVE IInv'
  OBVIOUS
<1> USE DEF IInv
<1>1. TypeOK'
  BY NextType
<1>2. RequestInv'
  BY RequestStepInv
<1>3. SweeperInv'
  BY SweeperStepInv
<1>4. CreateInv'
  BY CreateStepInv
<1>5. BudgetInv'
  BY BudgetStepInv
<1>6. RetryBound' /\ LeaseTimeoutEarned'
  BY RetryBoundStep, LeaseTimeoutStep
<1>7. RetryWaitingScheduled' /\ LeaseHasOwner'
  BY DeadlineStepInv
<1>8. StampsFollowStatus'
  BY StampsStepInv
<1> QED
  BY <1>1, <1>2, <1>3, <1>4, <1>5, <1>6, <1>7, <1>8

(***************************************************************************)
(* IInv holds in every reachable state of the control plane, for any       *)
(* number of jobs, workers, overlapping requests and failures.             *)
(***************************************************************************)
THEOREM Invariance == Spec => []IInv
  BY InitInv, NextInv, PTL DEF Spec

(***************************************************************************)
(* retry_count never goes above maxRetries, also when the sweeper acts on  *)
(* a count it read some statements before IncrementRetryCount.             *)
(***************************************************************************)
THEOREM RetryBoundHolds == Spec => []RetryBound
<1>1. IInv => RetryBound
  BY DEF IInv
<1> QED
  BY <1>1, Invariance, PTL

(***************************************************************************)
(* From the balance of retries: granted plus pushed never exceeds counted  *)
(* plus failed, and counted is at most maxRetries, or below it while an    *)
(* increment is still to come.                                             *)
(***************************************************************************)
LEMMA BudgetFollows == IInv => RetryDispatchBudget
<1> SUFFICES ASSUME IInv, NEW j \in Jobs
             PROVE  retryPushes[j] <= MaxRetries + failures
  BY DEF RetryDispatchBudget
<1>1. /\ retryPushes[j] \in Nat /\ retryCount[j] \in Nat /\ failures \in Nat
      /\ MaxRetries \in Nat
      /\ retryCount[j] <= MaxRetries
  BY JobControlPlaneAssumption DEF IInv, TypeOK, RetryBound
<1>2. retryPushes[j] + Granted(j) <= retryCount[j] + failures + Uncounted(j)
  BY DEF IInv, BudgetInv
<1>3. Granted(j) \in {0, 1}
  BY DEF Granted
<1>4. CASE swPc = "retryCount" /\ swCur = j
  <2>1. retryCount[j] < MaxRetries /\ Uncounted(j) = 1
    BY <1>4 DEF IInv, SweeperInv, Uncounted
  <2> QED
    BY <1>1, <1>2, <1>3, <2>1
<1>5. CASE ~(swPc = "retryCount" /\ swCur = j)
  <2>1. Uncounted(j) = 0
    BY <1>5 DEF Uncounted
  <2> QED
    BY <1>1, <1>2, <1>3, <2>1
<1> QED
  BY <1>4, <1>5

(***************************************************************************)
(* The sweeper pushes a job again at most maxRetries times, plus once for  *)
(* each failure between MarkRetryWaiting and IncrementRetryCount.          *)
(***************************************************************************)
THEOREM RetryBudgetHolds == Spec => []RetryDispatchBudget
  BY BudgetFollows, Invariance, PTL

(***************************************************************************)
(* CreateJob pushes at most one message for an idempotency tuple, whatever *)
(* the interleaving of findByKey, INSERT and Publish of any number of      *)
(* concurrent calls.                                                       *)
(***************************************************************************)
THEOREM IdempotentDispatchHolds == Spec => []IdempotentDispatch
<1>1. IInv => IdempotentDispatch
  BY DEF IInv, CreateInv, IdempotentDispatch
<1> QED
  BY <1>1, Invariance, PTL

(***************************************************************************)
(* error_code "lease_timeout" is only ever written on a fatal job or on    *)
(* one whose retries are really used up.                                   *)
(***************************************************************************)
THEOREM LeaseTimeoutEarnedHolds == Spec => []LeaseTimeoutEarned
<1>1. IInv => LeaseTimeoutEarned
  BY DEF IInv
<1> QED
  BY <1>1, Invariance, PTL

(***************************************************************************)
(* The columns of a row agree in every reachable state: a retry_waiting    *)
(* job has the deadline ListRetryReady looks for, a row with a deadline    *)
(* names its worker, and started_at and finished_at are set whenever the   *)
(* status calls for them.                                                  *)
(***************************************************************************)
THEOREM RowConsistentHolds == Spec => []RowConsistent
<1>1. IInv => RowConsistent
  BY DEF IInv, RowConsistent
<1> QED
  BY <1>1, Invariance, PTL

-----------------------------------------------------------------------------
(***************************************************************************)
(* Terminal statuses: what the writers have checked.                       *)
(***************************************************************************)

(***************************************************************************)
(* A write that is under way was checked against the status it carries:    *)
(* that status is not terminal, or the write is a Complete that repeats it.*)
(***************************************************************************)
CheckedRead(s) ==
  /\ At(s, "updateWrite") \/ At(s, "progressWrite") => req[s].read \notin Terminal
  /\ At(s, "completeWrite") => req[s].read \notin Terminal \/ req[s].to = req[s].read

ReadInv ==
  /\ \A s \in Requests : CheckedRead(s)
  /\ swPc \in {"requeueWrite", "retryWrite"} => swRead \notin Terminal

(***************************************************************************)
(* The transition table has no entry for a terminal status.                *)
(***************************************************************************)
LEMMA TerminalHasNoExit ==
  ASSUME NEW from \in Terminal, NEW to, CanTransition(from, to) PROVE to = from
  BY DEF CanTransition, transitions, Statuses, Terminal, Queued, Running, RetryWaiting,
         Succeeded, SucceededWithErrors, Failed, Canceled

(***************************************************************************)
(* Each read of a request or of the sweeper that is followed by a write    *)
(* establishes ReadInv; no other step disturbs it.                         *)
(***************************************************************************)
LEMMA ReadStepInv == ASSUME TypeOK, ReadInv, [Next]_vars PROVE ReadInv'
<1> USE DEF row, sweeper, history, vars
<1>1. ASSUME NEW s \in Requests, UNCHANGED sweeper, CheckedRead(s)',
             \A t \in Requests \ {s} : req'[t] = req[t]
      PROVE  ReadInv'
  BY <1>1 DEF ReadInv, CheckedRead, At
<1>2. ASSUME NEW s \in Requests, RequestStep(s) PROVE ReadInv'
  <2>0. ASSUME req[s] # Idle PROVE req[s] \in Request /\ req[s].job \in Jobs
    BY <2>0 DEF TypeOK, Request
  <2>1. ASSUME Return(s), UNCHANGED sweeper PROVE ReadInv'
    <3>1. CheckedRead(s)'
      BY <2>1, ReturnType DEF CheckedRead, At
    <3> QED
      BY <1>1, <2>1, <3>1, ReturnType
  <2>2. ASSUME NEW pc \in {"publish", "touchLease", "updateGet"}, Goto(s, pc), req[s] # Idle,
               UNCHANGED sweeper
        PROVE  ReadInv'
    <3>1. req'[s].pc = pc /\ \A t \in Requests \ {s} : req'[t] = req[t]
      BY <2>0, <2>2 DEF Goto, TypeOK, Request
    <3> QED
      BY <1>1, <2>2, <3>1 DEF CheckedRead, At
  <2>3. CASE UpdateStatusGet(s) /\ CanTransition(status[req[s].job], Running)
    <3>1. req[s] \in Request
      BY <2>0, <2>3 DEF UpdateStatusGet, At
    <3>2. /\ req'[s].pc = "updateWrite"
          /\ req'[s].read = status[req[s].job]
          /\ \A t \in Requests \ {s} : req'[t] = req[t]
      BY <2>3, <3>1 DEF UpdateStatusGet, TypeOK, Request
    <3>3. status[req[s].job] \notin Terminal
      BY <2>3, TerminalHasNoExit, StatusFacts
    <3>4. UNCHANGED sweeper
      BY <2>3 DEF UpdateStatusGet
    <3> QED
      BY <1>1, <3>2, <3>3, <3>4 DEF CheckedRead, At
  <2>4. CASE InsertJob(s) \/ ClaimGet(s) \/ UpdateStatusWrite(s)
    BY <2>2, <2>4 DEF InsertJob, ClaimGet, UpdateStatusWrite, At
  <2>5. CASE UpdateStatusGet(s) /\ ~CanTransition(status[req[s].job], Running)
    BY <2>1, <2>5 DEF UpdateStatusGet
  <2> QED
    BY <1>2, <2>1, <2>3, <2>4, <2>5
    DEF RequestStep, InsertConflict, PublishCreated, TouchLease, UpdateProgressWrite,
        CompleteWrite, RequestFails
<1>3. ASSUME NEW s \in Requests, NEW j \in Jobs, RequestArrives(s, j) PROVE ReadInv'
  <2>1. CASE CreateJobExisting(s, j)
    BY <2>1 DEF CreateJobExisting, ReadInv, CheckedRead, At
  <2>2. CASE CreateJob(s, j)
    BY <1>1, <2>2 DEF CreateJob, TypeOK, CheckedRead, At
  <2>3. ASSUME NEW w \in Workers, ReportHeartbeat(s, j, w) PROVE ReadInv'
    BY <1>1, <2>3 DEF ReportHeartbeat, TypeOK, CheckedRead, At
  <2>4. ASSUME NEW w \in Workers, ReportProgress(s, j, w) PROVE ReadInv'
    <3>1. status[j] \notin Terminal
      BY <2>4, TerminalHasNoExit, StatusFacts DEF ReportProgress
    <3> QED
      BY <1>1, <2>4, <3>1 DEF ReportProgress, TypeOK, CheckedRead, At
  <2>5. ASSUME NEW w \in Workers, NEW to \in Reported, ReportTerminal(s, j, w, to) PROVE ReadInv'
    <3>1. status[j] \notin Terminal \/ to = status[j]
      BY <2>5, TerminalHasNoExit, StatusFacts DEF ReportTerminal, CanComplete, CompletedFrom
    <3> QED
      BY <1>1, <2>5, <3>1 DEF ReportTerminal, TypeOK, CheckedRead, At
  <2> QED
    BY <1>3, <2>1, <2>2, <2>3, <2>4, <2>5 DEF RequestArrives
<1>4. CASE SweeperStep
  <2>0. UNCHANGED req
    BY <1>4 DEF SweeperStep, ListRetryReady, RequeueGet, RequeueWrite, RequeuePublish,
         ListExpiredRunning, MarkFailed, MarkRetryWaitingGet, MarkRetryWaitingWrite,
         IncrementRetryCount, TickDone, SweeperFails
  <2>1. ASSUME NEW j \in Jobs, RequeueGet(j)
        PROVE  (swPc \in {"requeueWrite", "retryWrite"} => swRead \notin Terminal)'
    BY <2>1, TerminalHasNoExit, StatusFacts DEF RequeueGet, EndTick
  <2>2. ASSUME NEW j \in Jobs, MarkRetryWaitingGet(j)
        PROVE  (swPc \in {"requeueWrite", "retryWrite"} => swRead \notin Terminal)'
    BY <2>2, TerminalHasNoExit, StatusFacts DEF MarkRetryWaitingGet, EndTick
  <2>3. (swPc \in {"requeueWrite", "retryWrite"} => swRead \notin Terminal)'
    BY <1>4, <2>1, <2>2
    DEF SweeperStep, EndTick, ListRetryReady, RequeueWrite, RequeuePublish, ListExpiredRunning,
        MarkFailed, MarkRetryWaitingWrite, IncrementRetryCount, TickDone, SweeperFails, ReadInv
  <2> QED
    BY <2>0, <2>3 DEF ReadInv, CheckedRead, At
<1>5. CASE (\E j \in Jobs : DeadlinePasses(j)) \/ UNCHANGED vars
  BY <1>5 DEF DeadlinePasses, ReadInv, CheckedRead, At
<1> QED
  BY <1>2, <1>3, <1>4, <1>5 DEF Next

(***************************************************************************)
(* A step that moves a job out of a terminal status acts on a status that  *)
(* was read before the job got there.                                      *)
(***************************************************************************)
LEMMA LeavesOnlyOnStaleRead ==
  ASSUME TypeOK, ReadInv, [Next]_vars, NEW j \in Jobs, LeavesTerminal(j)
  PROVE  StaleRequest(j) \/ StaleSweeper(j)
<1> USE DEF row, sweeper, history, vars, LeavesTerminal
<1> DEFINE Goal == StaleRequest(j) \/ StaleSweeper(j)
<1> SUFFICES Goal
  OBVIOUS
<1>1. ASSUME NEW s \in Requests, RequestStep(s) PROVE Goal
  <2>1. CASE InsertJob(s)
    <3>1. status[j] = Absent
      BY <2>1 DEF InsertJob, UniqueKeyFree, TypeOK
    <3> QED
      BY <3>1, StatusFacts
  <2>2. CASE UpdateStatusWrite(s)
    BY <2>2 DEF UpdateStatusWrite, TypeOK, ReadInv, CheckedRead, At, StaleRequest
  <2>3. CASE UpdateProgressWrite(s)
    BY <2>3 DEF UpdateProgressWrite, TypeOK, ReadInv, CheckedRead, At, StaleRequest
  <2>4. CASE CompleteWrite(s)
    BY <2>4 DEF CompleteWrite, TypeOK, ReadInv, CheckedRead, At, StaleRequest
  <2> QED
    BY <1>1, <2>1, <2>2, <2>3, <2>4
    DEF RequestStep, InsertConflict, PublishCreated, ClaimGet, UpdateStatusGet, TouchLease,
        RequestFails
<1>2. ASSUME NEW s \in Requests, NEW i \in Jobs, RequestArrives(s, i) PROVE Goal
  BY <1>2 DEF RequestArrives, CreateJobExisting, CreateJob, ReportHeartbeat, ReportProgress,
              ReportTerminal
<1>3. CASE RequeueWrite
  BY <1>3 DEF RequeueWrite, TypeOK, ReadInv, StaleSweeper
<1>4. ASSUME NEW i \in Jobs, MarkFailed(i) PROVE Goal
  BY <1>4 DEF MarkFailed, TypeOK, StaleSweeper
<1>5. CASE MarkRetryWaitingWrite
  BY <1>5 DEF MarkRetryWaitingWrite, TypeOK, ReadInv, StaleSweeper
<1>6. CASE SweeperStep /\ ~RequeueWrite /\ ~MarkRetryWaitingWrite /\ \A i \in Jobs : ~MarkFailed(i)
  BY <1>6 DEF SweeperStep, ListRetryReady, RequeueGet, RequeuePublish, ListExpiredRunning,
              MarkRetryWaitingGet, IncrementRetryCount, TickDone, SweeperFails
<1> QED
  BY <1>1, <1>2, <1>3, <1>4, <1>5, <1>6 DEF Next, DeadlinePasses

(***************************************************************************)
(* A job leaves a terminal status only in a step of a request or of the    *)
(* sweeper that read the row earlier: when requests do not overlap with    *)
(* one another or with a Tick, succeeded, failed and canceled are final.   *)
(***************************************************************************)
THEOREM TerminalLeftOnlyOnStaleReadHolds == Spec => TerminalLeftOnlyOnStaleRead
<1>1. Init => TypeOK /\ ReadInv
  BY InitType DEF Init, ReadInv, CheckedRead, At
<1>2. TypeOK /\ ReadInv /\ [Next]_vars => (TypeOK /\ ReadInv)'
  BY NextType, ReadStepInv
<1>3. TypeOK /\ ReadInv /\ [Next]_vars =>
        [\A j \in Jobs : LeavesTerminal(j) => StaleRequest(j) \/ StaleSweeper(j)]_vars
  BY LeavesOnlyOnStaleRead
<1> QED
  BY <1>1, <1>2, <1>3, PTL DEF Spec, TerminalLeftOnlyOnStaleRead

=============================================================================
