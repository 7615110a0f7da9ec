---------------------------- MODULE WorkerFleet ----------------------------
(***************************************************************************)
(* The execution side put together: the job rows, one Redis lane, the      *)
(* worker processes that share it (workers/common/queue_runner.py; the     *)
(* cleaning, importer, packager and video workers all pop "jobs:cpu") and  *)
(* the sweeper.  The question is what becomes of a job when messages are   *)
(* consumed by the pop, workers die and leases run out.                    *)
(*                                                                         *)
(* A call to the control plane is one step here, on the Postgres           *)
(* repository's rules: what may happen inside a call is the subject of     *)
(* JobControlPlane.  The row and the message stay two steps, for the push  *)
(* follows the insert or the requeue and may fail.                         *)
(*                                                                         *)
(* The lane is a queue: the control plane pushes at the back (LPUSH),      *)
(* workers pop the front (BRPOP).  A worker that cannot handle a message   *)
(* puts it back at the front (RPUSH).                                      *)
(***************************************************************************)
EXTENDS JobStates, Naturals, Sequences, FiniteSets

CONSTANTS
  Jobs,         \* the jobs of one lane
  Workers,      \* the worker processes popping that lane
  Accepts,      \* which jobs a worker can handle: job type and capabilities
  MaxRetries,   \* Sweeper.maxRetries
  MaxFailures,  \* bound: processes killed and pushes lost in one behaviour
  MaxStalls,    \* bound: leases that run out under a live worker
  NoJob         \* the worker holds no message

ASSUME WorkerFleetAssumption ==
  /\ Accepts \in [Workers -> SUBSET Jobs]
  /\ MaxRetries \in Nat \ {0}
  /\ MaxFailures \in Nat
  /\ MaxStalls \in Nat
  /\ IsFiniteSet(Jobs)
  /\ NoJob \notin Jobs

VARIABLES
  status,      \* column status
  leaseUntil,  \* column lease_until
  retryCount,  \* column retry_count
  pending,     \* jobs written as queued whose push is still to come
  lane,        \* the Redis list, front first
  wPc,         \* where a worker is in dispatch_once
  wJob,        \* the job of the message it holds
  failures,    \* processes killed and pushes lost so far
  stalls       \* leases that ran out under a live worker so far

rows == <<status, leaseUntil, retryCount>>
vars == <<rows, pending, lane, wPc, wJob, failures, stalls>>

WorkerPcs == {"poll", "popped", "working", "report", "complete", "down"}

TypeOK ==
  /\ status \in [Jobs -> Statuses \union {Absent}]
  /\ leaseUntil \in [Jobs -> Leases]
  /\ retryCount \in [Jobs -> 0..MaxRetries]
  /\ pending \in SUBSET Jobs
  /\ lane \in Seq(Jobs)
  /\ wPc \in [Workers -> WorkerPcs]
  /\ wJob \in [Workers -> Jobs \union {NoJob}]
  /\ \A w \in Workers : wJob[w] = NoJob <=> wPc[w] \in {"poll", "down"}
  /\ failures \in 0..MaxFailures
  /\ stalls \in 0..MaxStalls

Init ==
  /\ status = [j \in Jobs |-> Absent]
  /\ leaseUntil = [j \in Jobs |-> NoLease]
  /\ retryCount = [j \in Jobs |-> 0]
  /\ pending = {}
  /\ lane = <<>>
  /\ wPc = [w \in Workers |-> "poll"]
  /\ wJob = [w \in Workers |-> NoJob]
  /\ failures = 0
  /\ stalls = 0

-----------------------------------------------------------------------------
(***************************************************************************)
(* The control plane's side of the lane.                                   *)
(***************************************************************************)
CreateJob(j) ==
  /\ status[j] = Absent
  /\ status' = [status EXCEPT ![j] = Queued]
  /\ pending' = pending \union {j}
  /\ UNCHANGED <<leaseUntil, retryCount, lane, wPc, wJob, failures, stalls>>

Publish(j) ==
  /\ j \in pending
  /\ pending' = pending \ {j}
  /\ lane' = Append(lane, j)
  /\ UNCHANGED <<rows, wPc, wJob, failures, stalls>>

PublishFails(j) ==
  /\ j \in pending
  /\ failures < MaxFailures
  /\ failures' = failures + 1
  /\ pending' = pending \ {j}
  /\ UNCHANGED <<rows, lane, wPc, wJob, stalls>>

(***************************************************************************)
(* The sweeper, one job of a Tick at a time.                               *)
(***************************************************************************)
RequeueUnpublished(j) == UNCHANGED pending

RequeuePublishes(j) == pending' = pending \union {j}

Requeue(j) ==
  /\ status[j] = RetryWaiting
  /\ leaseUntil[j] = Past
  /\ status' = [status EXCEPT ![j] = Queued]
  /\ leaseUntil' = [leaseUntil EXCEPT ![j] = NoLease]
  /\ RequeuePublishes(j)
  /\ UNCHANGED <<retryCount, lane, wPc, wJob, failures, stalls>>

LeaseMissing(j) == leaseUntil[j] = NoLease

LeaseRanOut(j) == leaseUntil[j] = Past

Expire(j) ==
  /\ status[j] = Running
  /\ LeaseRanOut(j)
  /\ IF retryCount[j] >= MaxRetries
       THEN /\ status' = [status EXCEPT ![j] = Failed]
            /\ UNCHANGED <<leaseUntil, retryCount>>
       ELSE /\ status' = [status EXCEPT ![j] = RetryWaiting]
            /\ leaseUntil' = [leaseUntil EXCEPT ![j] = Future]
            /\ retryCount' = [retryCount EXCEPT ![j] = @ + 1]
  /\ UNCHANGED <<pending, lane, wPc, wJob, failures, stalls>>

-----------------------------------------------------------------------------
(***************************************************************************)
(* A worker: dispatch_once in the loop of poll_forever.  Neither catches   *)
(* an error of the control plane, except around the handler and in the     *)
(* heartbeat thread: an answer of 400 or above ends the process.           *)
(***************************************************************************)
Poll(w) == /\ wPc' = [wPc EXCEPT ![w] = "poll"]
           /\ wJob' = [wJob EXCEPT ![w] = NoJob]

Dies(w) == /\ wPc' = [wPc EXCEPT ![w] = "down"]
           /\ wJob' = [wJob EXCEPT ![w] = NoJob]

Step(w, pc) == wPc' = [wPc EXCEPT ![w] = pc] /\ UNCHANGED wJob

Pop(w) ==
  /\ wPc[w] = "poll"
  /\ lane # <<>>
  /\ lane' = Tail(lane)
  /\ wJob' = [wJob EXCEPT ![w] = Head(lane)]
  /\ wPc' = [wPc EXCEPT ![w] = "popped"]
  /\ UNCHANGED <<rows, pending, failures, stalls>>

DroppedMismatch(j) == lane

PutBack(j) == <<j>> \o lane

Reject(w) ==
  /\ wPc[w] = "popped"
  /\ wJob[w] \notin Accepts[w]
  /\ lane' = PutBack(wJob[w])
  /\ Poll(w)
  /\ UNCHANGED <<rows, pending, failures, stalls>>

(***************************************************************************)
(* A heartbeat makes a queued job running and renews the lease of a        *)
(* running one; for any other status Claim returns an error.               *)
(***************************************************************************)
Heartbeat(j) ==
  /\ status[j] \in {Queued, Running}
  /\ status' = [status EXCEPT ![j] = Running]
  /\ leaseUntil' = [leaseUntil EXCEPT ![j] = Future]

(***************************************************************************)
(* The first heartbeat is sent by the dispatching thread before the        *)
(* handler starts; if it is refused the worker dies with the message.      *)
(***************************************************************************)
StartHeartbeat(w) ==
  /\ wPc[w] = "popped"
  /\ wJob[w] \in Accepts[w]
  /\ \/ Heartbeat(wJob[w]) /\ Step(w, "working")
     \/ /\ status[wJob[w]] \notin {Queued, Running}
        /\ Dies(w)
        /\ UNCHANGED <<status, leaseUntil>>
  /\ UNCHANGED <<retryCount, pending, lane, failures, stalls>>

(***************************************************************************)
(* The heartbeat thread; it only logs a refusal.                           *)
(***************************************************************************)
Renew(w) ==
  /\ wPc[w] = "working"
  /\ Heartbeat(wJob[w])
  /\ UNCHANGED <<retryCount, pending, lane, wPc, wJob, failures, stalls>>

(***************************************************************************)
(* The handler returns or raises, and the heartbeat thread is stopped.     *)
(***************************************************************************)
HandlerEnds(w) ==
  /\ wPc[w] = "working"
  /\ Step(w, "report")
  /\ UNCHANGED <<rows, pending, lane, failures, stalls>>

(***************************************************************************)
(* The result's progress event: UpdateProgress makes a job that has been   *)
(* requeued running again and gives it no lease.                           *)
(***************************************************************************)
PostProgress(w) ==
  /\ wPc[w] = "report"
  /\ \/ /\ status[wJob[w]] \in {Queued, Running}
        /\ status' = [status EXCEPT ![wJob[w]] = Running]
        /\ Step(w, "complete")
     \/ /\ status[wJob[w]] \notin {Queued, Running}
        /\ Dies(w)
        /\ UNCHANGED status
  /\ UNCHANGED <<leaseUntil, retryCount, pending, lane, failures, stalls>>

PostTerminal(w) ==
  /\ wPc[w] \in {"report", "complete"}
  /\ \E to \in {Succeeded, Failed} :
       \/ /\ CanComplete(status[wJob[w]], to)
          /\ status' = [status EXCEPT ![wJob[w]] = to]
          /\ Poll(w)
       \/ /\ ~CanComplete(status[wJob[w]], to)
          /\ Dies(w)
          /\ UNCHANGED status
  /\ UNCHANGED <<leaseUntil, retryCount, pending, lane, failures, stalls>>

(***************************************************************************)
(* A worker process is killed, and whatever runs it starts it again.       *)
(***************************************************************************)
Crash(w) ==
  /\ wPc[w] # "down"
  /\ failures < MaxFailures
  /\ failures' = failures + 1
  /\ Dies(w)
  /\ UNCHANGED <<rows, pending, lane, stalls>>

Restart(w) ==
  /\ wPc[w] = "down"
  /\ wPc' = [wPc EXCEPT ![w] = "poll"]
  /\ UNCHANGED <<rows, pending, lane, wJob, failures, stalls>>

-----------------------------------------------------------------------------
(***************************************************************************)
(* Time.  A backoff elapses; a lease runs out once nobody renews it.  The  *)
(* heartbeat interval is a third of the lease, so a lease that runs out    *)
(* under a live worker is a failure of its own: Stall.                     *)
(***************************************************************************)
Renewed(j) == status[j] = Running /\ \E w \in Workers : wPc[w] = "working" /\ wJob[w] = j

DeadlinePasses(j) ==
  /\ leaseUntil[j] = Future
  /\ ~Renewed(j)
  /\ leaseUntil' = [leaseUntil EXCEPT ![j] = Past]
  /\ UNCHANGED <<status, retryCount, pending, lane, wPc, wJob, failures, stalls>>

Stall(j) ==
  /\ leaseUntil[j] = Future
  /\ Renewed(j)
  /\ stalls < MaxStalls
  /\ stalls' = stalls + 1
  /\ leaseUntil' = [leaseUntil EXCEPT ![j] = Past]
  /\ UNCHANGED <<status, retryCount, pending, lane, wPc, wJob, failures>>

-----------------------------------------------------------------------------
JobStep(j) ==
  \/ CreateJob(j) \/ Publish(j) \/ PublishFails(j)
  \/ Requeue(j) \/ Expire(j) \/ DeadlinePasses(j) \/ Stall(j)

WorkerStep(w) ==
  \/ Pop(w) \/ Reject(w) \/ StartHeartbeat(w) \/ Renew(w) \/ HandlerEnds(w)
  \/ PostProgress(w) \/ PostTerminal(w) \/ Crash(w) \/ Restart(w)

Next == (\E j \in Jobs : JobStep(j)) \/ (\E w \in Workers : WorkerStep(w))

Spec == Init /\ [][Next]_vars

(***************************************************************************)
(* The API server pushes what it wrote and runs its sweeper; time passes;  *)
(* handlers end, dispatch_once goes on, a worker that ended is started     *)
(* again.  Pop is strongly fair: Redis serves the clients blocked in BRPOP *)
(* in the order they arrived, and a worker that put a message back sleeps  *)
(* before it pops again.                                                   *)
(***************************************************************************)
Fairness ==
  /\ \A j \in Jobs : /\ WF_vars(Publish(j))
                     /\ WF_vars(Requeue(j))
                     /\ WF_vars(Expire(j))
                     /\ WF_vars(DeadlinePasses(j))
  /\ \A w \in Workers : /\ SF_vars(Pop(w))
                        /\ WF_vars(Reject(w) \/ StartHeartbeat(w))
                        /\ WF_vars(HandlerEnds(w))
                        /\ WF_vars(PostTerminal(w))
                        /\ WF_vars(Restart(w))

FairSpec == Spec /\ Fairness

-----------------------------------------------------------------------------
(***************************************************************************)
(* A queued job nobody will ever look at: no push to come, no message in   *)
(* the lane, no worker holding one.                                        *)
(***************************************************************************)
Stranded ==
  {j \in Jobs : /\ status[j] = Queued
                /\ j \notin pending
                /\ \A k \in DOMAIN lane : lane[k] # j
                /\ \A w \in Workers : wJob[w] # j}

(***************************************************************************)
(* A queued job is lost only to a killed process or a failed push, one job *)
(* each: retries, workers that put messages back, workers that die on a    *)
(* stale message and leases that run out under a live worker lose none.    *)
(***************************************************************************)
LostOnlyToFailures == Cardinality(Stranded) <= failures

(***************************************************************************)
(* Unless a process is killed or a push fails, every job that was created  *)
(* ends up in a terminal status, whatever leases run out on the way,       *)
(* whichever worker pops its message and whoever dies on a refused call.   *)
(***************************************************************************)
EveryJobFinishes ==
  \A j \in Jobs : status[j] = Queued ~> status[j] \in Terminal \/ failures > 0

(***************************************************************************)
(* A job does not stay running for ever: its worker reports, or its lease  *)
(* runs out and the sweeper takes it back.  This is the mitigation the     *)
(* MVP design names for "long-running job stuck in running".               *)
(***************************************************************************)
RunningIsResolved == \A j \in Jobs : status[j] = Running ~> status[j] # Running
=============================================================================
