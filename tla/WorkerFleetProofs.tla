------------------------- MODULE WorkerFleetProofs -------------------------
(***************************************************************************)
(* Proofs about WorkerFleet for any finite set of jobs, any workers and    *)
(* any bounds: type correctness, and that a queued job is lost only to a   *)
(* killed process or a failed push.                                        *)
(*                                                                         *)
(* Stranded is too small to be inductive: a job whose message is gone and  *)
(* whose previous worker is still busy with it is not stranded yet, but    *)
(* will be as soon as that worker ends.  Lost takes such a job in from the *)
(* start, by asking only for a worker that has popped the message and not  *)
(* yet sent its first heartbeat.                                           *)
(***************************************************************************)
EXTENDS WorkerFleet, FiniteSetTheorems, SequenceTheorems, TLAPS

Waiting(j) == \E w \in Workers : wPc[w] = "popped" /\ wJob[w] = j

InLane(j) == \E k \in DOMAIN lane : lane[k] = j

Lost == {j \in Jobs : status[j] = Queued /\ j \notin pending /\ ~InLane(j) /\ ~Waiting(j)}

(***************************************************************************)
(* The inductive invariant.                                                *)
(***************************************************************************)
IInv == TypeOK /\ Cardinality(Lost) <= failures

-----------------------------------------------------------------------------
(***************************************************************************)
(* The statuses are pairwise different.                                    *)
(***************************************************************************)
LEMMA StatusesDistinct ==
  /\ {Queued, Running, RetryWaiting, Succeeded, Failed} \subseteq Statuses
  /\ Queued \notin {Absent, Running, RetryWaiting, Succeeded, Failed}
BY DEF Statuses, Terminal, Absent, Queued, Running, RetryWaiting, Succeeded,
       SucceededWithErrors, Failed, Canceled

(***************************************************************************)
(* A step about a job keeps the types.                                     *)
(***************************************************************************)
LEMMA JobStepType ==
  ASSUME TypeOK, NEW j \in Jobs, JobStep(j)
  PROVE  TypeOK'
<1> USE WorkerFleetAssumption, StatusesDistinct DEF TypeOK, Leases, Deadlines, rows
<1>1. CASE CreateJob(j)
  BY <1>1 DEF CreateJob
<1>2. CASE Publish(j)
  BY <1>2 DEF Publish
<1>3. CASE PublishFails(j)
  BY <1>3 DEF PublishFails
<1>4. CASE Requeue(j)
  BY <1>4 DEF Requeue, RequeuePublishes
<1>5. CASE Expire(j)
  <2>1. CASE retryCount[j] >= MaxRetries
    BY <1>5, <2>1 DEF Expire
  <2>2. CASE ~(retryCount[j] >= MaxRetries)
    <3>1. retryCount[j] + 1 \in 0..MaxRetries
      BY <2>2
    <3>2. /\ status' = [status EXCEPT ![j] = RetryWaiting]
          /\ leaseUntil' = [leaseUntil EXCEPT ![j] = Future]
          /\ retryCount' = [retryCount EXCEPT ![j] = retryCount[j] + 1]
          /\ UNCHANGED <<pending, lane, wPc, wJob, failures, stalls>>
      BY <1>5, <2>2 DEF Expire
    <3> QED  BY <3>1, <3>2
  <2> QED  BY <2>1, <2>2
<1>6. CASE DeadlinePasses(j)
  BY <1>6 DEF DeadlinePasses
<1>7. CASE Stall(j)
  BY <1>7 DEF Stall
<1> QED
  BY <1>1, <1>2, <1>3, <1>4, <1>5, <1>6, <1>7 DEF JobStep

(***************************************************************************)
(* A step of a worker keeps the types.                                     *)
(***************************************************************************)
LEMMA WorkerStepType ==
  ASSUME TypeOK, NEW w \in Workers, WorkerStep(w)
  PROVE  TypeOK'
<1> USE WorkerFleetAssumption, StatusesDistinct DEF TypeOK, WorkerPcs, Leases, Deadlines, rows
<1>0. wPc[w] \notin {"poll", "down"} => wJob[w] \in Jobs
  OBVIOUS
<1>1. CASE Pop(w)
  <2>1. Head(lane) \in Jobs /\ Tail(lane) \in Seq(Jobs)
    BY <1>1, HeadTailProperties DEF Pop
  <2> QED  BY <1>1, <2>1 DEF Pop
<1>2. CASE Reject(w)
  BY <1>0, <1>2 DEF Reject, PutBack, Poll
<1>3. CASE StartHeartbeat(w)
  <2>1. CASE Heartbeat(wJob[w]) /\ Step(w, "working")
    BY <1>0, <1>3, <2>1 DEF StartHeartbeat, Heartbeat, Step
  <2>2. CASE Dies(w) /\ UNCHANGED <<status, leaseUntil>>
    BY <1>3, <2>2 DEF StartHeartbeat, Dies
  <2> QED  BY <1>3, <2>1, <2>2 DEF StartHeartbeat
<1>4. CASE Renew(w)
  BY <1>0, <1>4 DEF Renew, Heartbeat
<1>5. CASE HandlerEnds(w)
  BY <1>0, <1>5 DEF HandlerEnds, Step
<1>6. CASE PostProgress(w)
  <2>1. CASE status' = [status EXCEPT ![wJob[w]] = Running] /\ Step(w, "complete")
    BY <1>0, <1>6, <2>1 DEF PostProgress, Step
  <2>2. CASE Dies(w) /\ UNCHANGED status
    BY <1>6, <2>2 DEF PostProgress, Dies
  <2> QED  BY <1>6, <2>1, <2>2 DEF PostProgress
<1>7. CASE PostTerminal(w)
  <2>1. PICK to \in {Succeeded, Failed} :
          \/ status' = [status EXCEPT ![wJob[w]] = to] /\ Poll(w)
          \/ UNCHANGED status /\ Dies(w)
    BY <1>7 DEF PostTerminal
  <2>2. status' \in [Jobs -> Statuses \union {Absent}]
    <3>1. to \in Statuses
      OBVIOUS
    <3>2. CASE status' = [status EXCEPT ![wJob[w]] = to]
      BY <3>1, <3>2
    <3>3. CASE UNCHANGED status
      BY <3>3
    <3> QED  BY <2>1, <3>2, <3>3
  <2>3. (Poll(w) \/ Dies(w)) /\ UNCHANGED <<leaseUntil, retryCount, pending, lane, failures, stalls>>
    BY <1>7, <2>1 DEF PostTerminal
  <2> QED  BY <2>2, <2>3 DEF Poll, Dies
<1>8. CASE Crash(w)
  BY <1>8 DEF Crash, Dies
<1>9. CASE Restart(w)
  BY <1>9 DEF Restart
<1> QED
  BY <1>1, <1>2, <1>3, <1>4, <1>5, <1>6, <1>7, <1>8, <1>9 DEF WorkerStep

(***************************************************************************)
(* Every step keeps the types.                                             *)
(***************************************************************************)
LEMMA NextType == TypeOK /\ [Next]_vars => TypeOK'
<1> SUFFICES ASSUME TypeOK, [Next]_vars PROVE TypeOK'
  OBVIOUS
<1>1. CASE UNCHANGED vars
  BY <1>1 DEF vars, rows, TypeOK
<1> QED
  BY <1>1, JobStepType, WorkerStepType DEF Next

(***************************************************************************)
(* The first state has the types.                                          *)
(***************************************************************************)
LEMMA InitType == Init => TypeOK
BY WorkerFleetAssumption DEF Init, TypeOK, WorkerPcs, Leases

(***************************************************************************)
(* Type correctness: rows, pushes to come, lane and workers; a worker      *)
(* holds a message exactly while it is in dispatch_once, and no retry      *)
(* count goes above maxRetries.                                            *)
(***************************************************************************)
THEOREM TypeCorrect == Spec => []TypeOK
  BY InitType, NextType, PTL DEF Spec

-----------------------------------------------------------------------------
(***************************************************************************)
(* Adding at most one job to a finite set makes it at most one larger.     *)
(***************************************************************************)
LEMMA OneMore ==
  ASSUME NEW S \in SUBSET Jobs, NEW T, NEW j, T \subseteq S \union {j}
  PROVE  Cardinality(T) \in Nat /\ Cardinality(S) \in Nat /\ Cardinality(T) <= Cardinality(S) + 1
<1>1. IsFiniteSet(S) /\ Cardinality(S) \in Nat
  BY WorkerFleetAssumption, FS_Subset, FS_CardinalityType
<1>2. /\ IsFiniteSet(S \union {j})
      /\ Cardinality(S \union {j}) \in {Cardinality(S), Cardinality(S) + 1}
  BY <1>1, FS_AddElement
<1>3. Cardinality(T) \in Nat /\ Cardinality(T) <= Cardinality(S \union {j})
  BY <1>2, FS_Subset, FS_CardinalityType
<1> QED
  BY <1>1, <1>2, <1>3

(***************************************************************************)
(* A subset of a set of jobs is not larger.                                *)
(***************************************************************************)
LEMMA NoMore ==
  ASSUME NEW S \in SUBSET Jobs, NEW T, T \subseteq S
  PROVE  Cardinality(T) \in Nat /\ Cardinality(S) \in Nat /\ Cardinality(T) <= Cardinality(S)
BY WorkerFleetAssumption, FS_Subset, FS_CardinalityType

(***************************************************************************)
(* A step about a job loses at most that job, and only if its push fails:  *)
(* a job that becomes queued has a push to come, and a push ends in the    *)
(* lane.                                                                   *)
(***************************************************************************)
LEMMA JobStepLoses ==
  ASSUME TypeOK, NEW j \in Jobs, JobStep(j)
  PROVE  \/ Lost' \subseteq Lost /\ failures' = failures
         \/ Lost' \subseteq Lost \union {j} /\ failures' = failures + 1
<1> USE StatusesDistinct DEF TypeOK, Lost, InLane, Waiting, rows
<1>1. CASE CreateJob(j)
  BY <1>1 DEF CreateJob
<1>2. CASE Publish(j)
  <2>1. lane' = Append(lane, j)
    BY <1>2 DEF Publish
  <2>2. /\ \A k \in DOMAIN lane : k \in DOMAIN lane' /\ lane'[k] = lane[k]
        /\ Len(lane) + 1 \in DOMAIN lane' /\ lane'[Len(lane) + 1] = j
    BY <2>1
  <2>3. InLane(j)' /\ \A i \in Jobs : InLane(i) => InLane(i)'
    BY <2>2
  <2> QED  BY <1>2, <2>3 DEF Publish
<1>3. CASE PublishFails(j)
  BY <1>3 DEF PublishFails
<1>4. CASE Requeue(j)
  BY <1>4 DEF Requeue, RequeuePublishes
<1>5. CASE Expire(j)
  BY <1>5 DEF Expire
<1>6. CASE DeadlinePasses(j) \/ Stall(j)
  BY <1>6 DEF DeadlinePasses, Stall
<1> QED
  BY <1>1, <1>2, <1>3, <1>4, <1>5, <1>6 DEF JobStep

(***************************************************************************)
(* A step of a worker loses at most the job of its message, and only if it *)
(* is killed: a pop, a message put back and a first heartbeat hand the job *)
(* on, and a worker that ends on a refused heartbeat holds a job that is   *)
(* not queued.                                                             *)
(***************************************************************************)
LEMMA WorkerStepLoses ==
  ASSUME TypeOK, NEW w \in Workers, WorkerStep(w)
  PROVE  \/ Lost' \subseteq Lost /\ failures' = failures
         \/ Lost' \subseteq Lost \union {wJob[w]} /\ failures' = failures + 1
<1> USE StatusesDistinct DEF TypeOK, Lost, InLane, Waiting, rows
<1>1. CASE Pop(w)
  <2>1. lane' = Tail(lane) /\ lane # <<>> /\ lane \in Seq(Jobs)
    BY <1>1 DEF Pop
  <2>2. \A i \in Jobs : i = Head(lane) => Waiting(i)'
    BY <1>1 DEF Pop
  <2>3. \A k \in DOMAIN lane : k = 1 \/ (k - 1 \in DOMAIN lane' /\ lane'[k - 1] = lane[k])
    BY <2>1
  <2>4. Head(lane) = lane[1]
    BY <2>1
  <2>5. \A i \in Jobs : InLane(i) => InLane(i)' \/ Waiting(i)'
    BY <2>2, <2>3, <2>4
  <2>6. \A i \in Jobs : Waiting(i) => Waiting(i)'
    BY <1>1 DEF Pop
  <2> QED  BY <1>1, <2>5, <2>6 DEF Pop
<1>2. CASE Reject(w)
  <2>1. lane' = <<wJob[w]>> \o lane /\ wJob[w] \in Jobs /\ lane \in Seq(Jobs)
    BY <1>2 DEF Reject, PutBack
  <2>2. /\ \A k \in DOMAIN lane : k + 1 \in DOMAIN lane' /\ lane'[k + 1] = lane[k]
        /\ 1 \in DOMAIN lane' /\ lane'[1] = wJob[w]
    BY <2>1
  <2>3. \A i \in Jobs : (InLane(i) \/ i = wJob[w]) => InLane(i)'
    BY <2>2
  <2>4. \A i \in Jobs : Waiting(i) => Waiting(i)' \/ i = wJob[w]
    BY <1>2 DEF Reject, Poll
  <2> QED  BY <1>2, <2>3, <2>4 DEF Reject
<1>3. CASE StartHeartbeat(w)
  <2>1. \A i \in Jobs : Waiting(i) => Waiting(i)' \/ i = wJob[w]
    BY <1>3 DEF StartHeartbeat, Step, Dies
  <2>2. status'[wJob[w]] # Queued /\ \A i \in Jobs : i # wJob[w] => status'[i] = status[i]
    BY <1>3 DEF StartHeartbeat, Heartbeat
  <2> QED  BY <1>3, <2>1, <2>2 DEF StartHeartbeat
<1>4. CASE Renew(w)
  BY <1>4 DEF Renew, Heartbeat
<1>5. CASE HandlerEnds(w)
  BY <1>5 DEF HandlerEnds, Step
<1>6. CASE PostProgress(w)
  BY <1>6 DEF PostProgress, Step, Dies
<1>7. CASE PostTerminal(w)
  BY <1>7 DEF PostTerminal, Poll, Dies
<1>8. CASE Crash(w)
  <2>1. \A i \in Jobs : Waiting(i) => Waiting(i)' \/ i = wJob[w]
    BY <1>8 DEF Crash, Dies
  <2> QED  BY <1>8, <2>1 DEF Crash
<1>9. CASE Restart(w)
  BY <1>9 DEF Restart
<1> QED
  BY <1>1, <1>2, <1>3, <1>4, <1>5, <1>6, <1>7, <1>8, <1>9 DEF WorkerStep

(***************************************************************************)
(* The invariant is inductive: what a step may lose is paid for.           *)
(***************************************************************************)
LEMMA NextInv == IInv /\ [Next]_vars => IInv'
<1> SUFFICES ASSUME IInv, [Next]_vars PROVE Cardinality(Lost)' <= failures'
  BY NextType DEF IInv
<1>1. Lost \in SUBSET Jobs /\ failures \in Nat
  BY DEF Lost, IInv, TypeOK
<1>2. \/ Lost' \subseteq Lost /\ failures' = failures
      \/ \E j : Lost' \subseteq Lost \union {j} /\ failures' = failures + 1
  <2>1. CASE UNCHANGED vars
    BY <2>1 DEF vars, rows, Lost, InLane, Waiting
  <2> QED
    BY <2>1, JobStepLoses, WorkerStepLoses DEF Next, IInv
<1>3. CASE Lost' \subseteq Lost /\ failures' = failures
  BY <1>1, <1>3, NoMore DEF IInv
<1>4. CASE \E j : Lost' \subseteq Lost \union {j} /\ failures' = failures + 1
  <2>1. PICK j : Lost' \subseteq Lost \union {j} /\ failures' = failures + 1
    BY <1>4
  <2>2. /\ Cardinality(Lost) \in Nat /\ Cardinality(Lost') \in Nat
        /\ Cardinality(Lost') <= Cardinality(Lost) + 1
    BY <1>1, <2>1, OneMore
  <2> QED
    BY <1>1, <2>1, <2>2 DEF IInv
<1> QED
  BY <1>2, <1>3, <1>4

(***************************************************************************)
(* The invariant holds in every reachable state of the fleet.              *)
(***************************************************************************)
THEOREM Invariance == Spec => []IInv
<1>1. Init => IInv
  <2> SUFFICES ASSUME Init PROVE IInv
    OBVIOUS
  <2>1. Lost = {}
    BY StatusesDistinct DEF Init, Lost
  <2> QED
    BY <2>1, InitType, FS_EmptySet DEF IInv, Init
<1> QED
  BY <1>1, NextInv, PTL DEF Spec

(***************************************************************************)
(* A queued job that no push, message or worker is left for was lost to a  *)
(* killed process or a failed push, at most one job to each: retries,      *)
(* workers that put messages back, workers that end on a stale message and *)
(* leases that run out under a live worker lose none.                      *)
(***************************************************************************)
THEOREM LostOnlyToFailuresHolds == Spec => []LostOnlyToFailures
<1>1. IInv => LostOnlyToFailures
  <2> SUFFICES ASSUME IInv PROVE Cardinality(Stranded) <= failures
    BY DEF LostOnlyToFailures
  <2>1. Lost \in SUBSET Jobs /\ Stranded \subseteq Lost
    BY DEF Lost, Stranded, InLane, Waiting
  <2>2. Cardinality(Stranded) \in Nat /\ Cardinality(Lost) \in Nat
    BY <2>1, NoMore
  <2>3. Cardinality(Stranded) <= Cardinality(Lost)
    BY <2>1, NoMore
  <2> QED
    BY <2>2, <2>3 DEF IInv, TypeOK
<1> QED
  BY <1>1, Invariance, PTL
=============================================================================
