------------------------- MODULE ServerMemoryProofs -------------------------
(***************************************************************************)
(* What the API server and its clients keep in memory: InMemoryJobs        *)
(* implements JobLifecycle, for every set of jobs and every MaxRetries;    *)
(* the rate limiter keeps its promises for every limit, window and number  *)
(* of callers; and the back-off of the retries is doubled up to its cap.   *)
(***************************************************************************)
EXTENDS InMemoryJobs, RateLimit, RetryBackoff, FiniteSetTheorems, FunctionTheorems, TLAPS

(***************************************************************************)
(* InMemoryJobs.                                                           *)
(***************************************************************************)

(***************************************************************************)
(* What the sweeper knows of its list although the mutex was released in   *)
(* between: the jobs exist; those listed as running are still running or   *)
(* finished, for only the sweeper parks a job and only the sweeper puts it *)
(* back; and a job that was just parked had an attempt left.               *)
(***************************************************************************)
SweeperInv ==
  /\ \A j \in swTodo : status[j] # Absent
  /\ swPc \in {"expire", "count"} => \A j \in swTodo : status[j] \in {Running} \union Terminal
  /\ swPc = "count" => retryCount[swCur] < MaxRetries

Inv == TypeOK /\ SweeperInv

-----------------------------------------------------------------------------
(***************************************************************************)
(* The statuses are pairwise different and all but Absent are statuses of  *)
(* a row.                                                                  *)
(***************************************************************************)
LEMMA StatusFacts ==
  /\ Statuses = {Queued, Running, RetryWaiting} \union Terminal
  /\ Absent \notin Statuses
  /\ Failed \in Terminal
  /\ RetryWaiting \notin Terminal /\ Queued \notin Terminal /\ Running \notin Terminal
  /\ Queued # RetryWaiting /\ Running # RetryWaiting /\ Queued # Running
  BY DEF Terminal, Statuses, Queued, Running, RetryWaiting, Absent, Succeeded,
         SucceededWithErrors, Failed, Canceled

(***************************************************************************)
(* The edges of the transition table, read backwards: from where each      *)
(* status can be reached.                                                  *)
(***************************************************************************)
LEMMA EdgesInto ==
  ASSUME NEW from \in Statuses
  PROVE  /\ CanTransition(from, Running) => from \in {Queued, Running}
         /\ CanTransition(from, Queued) => from \in {RetryWaiting, Queued}
         /\ CanTransition(from, RetryWaiting) => from \in {Running, RetryWaiting}
         /\ \A to \in Terminal : CanTransition(from, to) => from \in {Queued, Running} \/ from = to
         /\ \A to \in Terminal : CanComplete(from, to) =>
              from \in {Queued, Running, RetryWaiting} \/ from = to
<1>1. /\ transitions[Queued] = {Running, Canceled}
      /\ transitions[Running] = Terminal \union {RetryWaiting}
      /\ transitions[RetryWaiting] = {Queued}
      /\ \A t \in Terminal : transitions[t] = {}
  BY DEF transitions, Statuses, Terminal, Queued, Running, RetryWaiting, Succeeded,
         SucceededWithErrors, Failed, Canceled
<1>2. ASSUME NEW to \in Terminal, NEW f \in Statuses, CanTransition(f, to)
      PROVE  f \in {Queued, Running} \/ f = to
  BY <1>1, <1>2, StatusFacts DEF CanTransition
<1>3. /\ CanTransition(from, Running) => from \in {Queued, Running}
      /\ CanTransition(from, Queued) => from \in {RetryWaiting, Queued}
      /\ CanTransition(from, RetryWaiting) => from \in {Running, RetryWaiting}
  BY <1>1, StatusFacts DEF CanTransition, Canceled, Queued, Running, RetryWaiting
<1>4. ASSUME NEW to \in Terminal, CanComplete(from, to)
      PROVE  from \in {Queued, Running, RetryWaiting} \/ from = to
  BY <1>2, <1>4, StatusFacts DEF CanComplete, CompletedFrom
<1> QED
  BY <1>2, <1>3, <1>4

(***************************************************************************)
(* The statuses of the abstract specification are those of the repository. *)
(***************************************************************************)
LEMMA SameStatuses ==
  /\ Lifecycle!Absent = Absent /\ Lifecycle!Queued = Queued /\ Lifecycle!Running = Running
  /\ Lifecycle!RetryWaiting = RetryWaiting /\ Lifecycle!Terminal = Terminal
  BY DEF Lifecycle!Absent, Lifecycle!Queued, Lifecycle!Running, Lifecycle!RetryWaiting,
         Lifecycle!Terminal, Lifecycle!Succeeded, Lifecycle!SucceededWithErrors,
         Lifecycle!Failed, Lifecycle!Canceled, Absent, Queued, Running, RetryWaiting, Terminal,
         Succeeded, SucceededWithErrors, Failed, Canceled

(***************************************************************************)
(* Every deadline is a lease value.                                        *)
(***************************************************************************)
LEMMA LeaseFacts == Deadlines \subseteq Leases /\ NoLease \in Leases /\ Past \in Leases
  BY DEF Deadlines, Leases

(***************************************************************************)
(* Each method keeps the repository and the sweeper well typed.            *)
(***************************************************************************)
LEMMA NextType == ASSUME TypeOK, [Next]_vars PROVE TypeOK'
<1> USE StatusFacts, LeaseFacts, InMemoryJobsAssumption DEF TypeOK, sweeper, vars
<1>1. ASSUME NEW j \in Jobs, Callback(j) PROVE TypeOK'
  <2>1. CASE CreateOrGet(j)
    BY <2>1 DEF CreateOrGet
  <2>2. CASE Claim(j)
    BY <2>2 DEF Claim
  <2>3. CASE TouchLease(j)
    BY <2>3 DEF TouchLease
  <2>4. CASE UpdateProgress(j)
    BY <2>4 DEF UpdateProgress
  <2>5. ASSUME NEW to \in Terminal, Complete(j, to) PROVE TypeOK'
    BY <2>5 DEF Complete
  <2> QED
    BY <1>1, <2>1, <2>2, <2>3, <2>4, <2>5 DEF Callback
<1>2. ASSUME NEW j \in Jobs, DeadlinePasses(j) PROVE TypeOK'
  BY <1>2 DEF DeadlinePasses
<1>3. CASE SweeperStep
  <2> USE DEF SweeperPcs, EndTick
  <2>1. CASE ListRetryReady
    BY <2>1 DEF ListRetryReady
  <2>2. CASE Publish
    BY <2>2 DEF Publish
  <2>3. CASE ListExpiredRunning
    BY <2>3 DEF ListExpiredRunning
  <2>4. CASE IncrementRetryCount
    <3>1. retryCount' \in [Jobs -> Nat]
      BY <2>4 DEF IncrementRetryCount, Counted
    <3> QED
      BY <2>4, <3>1 DEF IncrementRetryCount
  <2>5. CASE TickDone
    BY <2>5 DEF TickDone
  <2>6. ASSUME NEW j \in Jobs, UpdateStatus(j) PROVE TypeOK'
    BY <2>6 DEF UpdateStatus
  <2>7. ASSUME NEW j \in Jobs, MarkFailed(j) PROVE TypeOK'
    BY <2>7 DEF MarkFailed
  <2>8. ASSUME NEW j \in Jobs, MarkRetryWaiting(j) PROVE TypeOK'
    BY <2>8 DEF MarkRetryWaiting
  <2> QED
    BY <1>3, <2>1, <2>2, <2>3, <2>4, <2>5, <2>6, <2>7, <2>8 DEF SweeperStep
<1>4. CASE UNCHANGED vars
  BY <1>4
<1> QED
  BY <1>1, <1>2, <1>3, <1>4 DEF Next

(***************************************************************************)
(* Callbacks never undo what the sweeper knows of its list.                *)
(***************************************************************************)
LEMMA SweeperStepInv == ASSUME Inv, [Next]_vars PROVE SweeperInv'
<1> USE StatusFacts, InMemoryJobsAssumption DEF Inv, TypeOK, SweeperInv, sweeper, vars
<1>1. ASSUME NEW j \in Jobs, Callback(j) PROVE SweeperInv'
  <2>0. status[j] \in Statuses \/ status[j] = Absent
    OBVIOUS
  <2>1. CASE CreateOrGet(j)
    BY <2>1 DEF CreateOrGet
  <2>2. CASE Claim(j)
    BY <2>2 DEF Claim
  <2>3. CASE TouchLease(j)
    BY <2>3 DEF TouchLease
  <2>4. CASE UpdateProgress(j)
    BY <2>4 DEF UpdateProgress
  <2>5. ASSUME NEW to \in Terminal, Complete(j, to) PROVE SweeperInv'
    BY <2>5 DEF Complete
  <2> QED
    BY <1>1, <2>1, <2>2, <2>3, <2>4, <2>5 DEF Callback
<1>2. ASSUME NEW j \in Jobs, DeadlinePasses(j) PROVE SweeperInv'
  BY <1>2 DEF DeadlinePasses
<1>3. CASE SweeperStep
  <2> USE DEF EndTick
  <2>1. CASE ListRetryReady
    BY <2>1 DEF ListRetryReady
  <2>2. CASE Publish
    BY <2>2 DEF Publish
  <2>3. CASE ListExpiredRunning
    BY <2>3 DEF ListExpiredRunning
  <2>4. CASE IncrementRetryCount
    BY <2>4 DEF IncrementRetryCount
  <2>5. CASE TickDone
    BY <2>5 DEF TickDone
  <2>6. ASSUME NEW j \in Jobs, UpdateStatus(j) PROVE SweeperInv'
    BY <2>6 DEF UpdateStatus
  <2>7. ASSUME NEW j \in Jobs, MarkFailed(j) PROVE SweeperInv'
    BY <2>7 DEF MarkFailed
  <2>8. ASSUME NEW j \in Jobs, MarkRetryWaiting(j) PROVE SweeperInv'
    BY <2>8 DEF MarkRetryWaiting, GivesUp
  <2> QED
    BY <1>3, <2>1, <2>2, <2>3, <2>4, <2>5, <2>6, <2>7, <2>8 DEF SweeperStep
<1>4. CASE UNCHANGED vars
  BY <1>4
<1> QED
  BY <1>1, <1>2, <1>3, <1>4 DEF Next

(***************************************************************************)
(* Inv holds in every reachable state of the repository and its sweeper.   *)
(***************************************************************************)
THEOREM Invariance == Spec => []Inv
<1>1. Init => Inv
  BY InMemoryJobsAssumption DEF Init, Inv, TypeOK, SweeperInv, SweeperPcs, Leases
<1>2. Inv /\ [Next]_vars => Inv'
  BY NextType, SweeperStepInv DEF Inv
<1> QED
  BY <1>1, <1>2, PTL DEF Spec

(***************************************************************************)
(* Type correctness: the repository's rows, with retry_count within        *)
(* maxRetries, and the position and lists of the Tick that interleaves     *)
(* with the callbacks.                                                     *)
(***************************************************************************)
THEOREM TypeCorrect == Spec => []TypeOK
<1>1. Inv => TypeOK
  BY DEF Inv
<1> QED
  BY <1>1, Invariance, PTL

-----------------------------------------------------------------------------
(***************************************************************************)
(* A step that changes neither a status nor a retry count, away from the   *)
(* moment between parking and counting, is a stutter of the lifecycle.     *)
(***************************************************************************)
LEMMA QuietStep ==
  ASSUME UNCHANGED <<status, retryCount>>, swPc # "count", swPc' # "count"
  PROVE  UNCHANGED Lifecycle!lifecycleVars
  BY DEF Lifecycle!lifecycleVars, Attempts

(***************************************************************************)
(* Every method call is a step of JobLifecycle or changes nothing of it.   *)
(***************************************************************************)
LEMMA StepRefines ==
  ASSUME Inv, [Next]_vars
  PROVE  [Lifecycle!LifecycleNext]_(Lifecycle!lifecycleVars)
<1> DEFINE Refines == Lifecycle!LifecycleNext \/ UNCHANGED Lifecycle!lifecycleVars
<1> SUFFICES Refines
  OBVIOUS
<1> USE DEF sweeper, vars
<1>0. ASSUME NEW j \in Jobs PROVE status[j] \in Statuses \/ status[j] = Absent
  BY DEF Inv, TypeOK
<1>a. ASSUME UNCHANGED <<retryCount, swPc, swCur>> PROVE UNCHANGED Attempts
  BY <1>a DEF Attempts
<1>1. ASSUME NEW j \in Jobs, Callback(j) PROVE Refines
  <2>0. UNCHANGED Attempts
    BY <1>1, <1>a DEF Callback, CreateOrGet, Claim, TouchLease, UpdateProgress, Complete
  <2>1. CASE CreateOrGet(j)
    BY <2>0, <2>1, SameStatuses DEF CreateOrGet, Lifecycle!LifecycleNext, Lifecycle!Create, Lifecycle!Move
  <2>2. CASE Claim(j)
    <3>1. CASE status[j] = Queued
      BY <2>0, <2>2, <3>1, SameStatuses DEF Claim, Inv, TypeOK, Lifecycle!LifecycleNext, Lifecycle!Start,
                              Lifecycle!Move
    <3>2. CASE status[j] # Queued
      BY <2>0, <2>2, <3>2 DEF Claim, Inv, TypeOK, Lifecycle!lifecycleVars
    <3> QED
      BY <3>1, <3>2
  <2>3. CASE TouchLease(j)
    BY <2>0, <2>3 DEF TouchLease, Lifecycle!lifecycleVars
  <2>4. CASE UpdateProgress(j)
    <3>1. status[j] \in {Queued, Running}
      BY <1>0, <2>4, EdgesInto DEF UpdateProgress
    <3>2. CASE status[j] = Queued
      BY <2>0, <2>4, <3>2, SameStatuses DEF UpdateProgress, Lifecycle!LifecycleNext, Lifecycle!Start,
                              Lifecycle!Move
    <3>3. CASE status[j] = Running
      BY <2>0, <2>4, <3>3 DEF UpdateProgress, Inv, TypeOK, Lifecycle!lifecycleVars
    <3> QED
      BY <3>1, <3>2, <3>3
  <2>5. ASSUME NEW to \in Terminal, Complete(j, to) PROVE Refines
    <3>1. status[j] \in {Queued, Running, RetryWaiting} \/ status[j] = to
      BY <1>0, <2>5, EdgesInto DEF Complete
    <3>2. CASE status[j] = to
      BY <2>0, <2>5, <3>2 DEF Complete, Inv, TypeOK, Lifecycle!lifecycleVars
    <3>3. CASE status[j] \in {Queued, Running, RetryWaiting}
      BY <2>0, <2>5, <3>3, SameStatuses DEF Complete, Lifecycle!LifecycleNext, Lifecycle!Finish,
                              Lifecycle!Move
    <3> QED
      BY <3>1, <3>2, <3>3
  <2> QED
    BY <1>1, <2>1, <2>2, <2>3, <2>4, <2>5 DEF Callback
<1>2. ASSUME NEW j \in Jobs, DeadlinePasses(j) PROVE Refines
  BY <1>2, <1>a DEF DeadlinePasses, Lifecycle!lifecycleVars
<1>3. CASE SweeperStep
  <2>1. CASE ListRetryReady \/ Publish \/ ListExpiredRunning \/ TickDone
    BY <2>1, QuietStep DEF ListRetryReady, Publish, ListExpiredRunning, TickDone, EndTick
  <2>2. CASE IncrementRetryCount
    <3>1. swCur \in Jobs /\ swCur # NoJob
      BY <2>2, InMemoryJobsAssumption DEF IncrementRetryCount, Inv, TypeOK
    <3>2. ASSUME NEW j \in Jobs
          PROVE  retryCount'[j] = IF j = swCur THEN retryCount[j] + 1 ELSE retryCount[j]
      BY <2>2, <3>1 DEF IncrementRetryCount, Counted, Inv, TypeOK
    <3>3. ASSUME NEW j \in Jobs PROVE retryCount[j] \in Nat
      BY DEF Inv, TypeOK
    <3>4. UNCHANGED Attempts
      BY <2>2, <3>2, <3>3 DEF IncrementRetryCount, Attempts
    <3> QED
      BY <2>2, <3>4 DEF IncrementRetryCount, Lifecycle!lifecycleVars
  <2>3. ASSUME NEW j \in Jobs, UpdateStatus(j) PROVE Refines
    <3>1. CASE ~CanTransition(status[j], Queued)
      BY <2>3, <3>1, QuietStep DEF UpdateStatus, EndTick
    <3>2. CASE CanTransition(status[j], Queued)
      <4>1. status[j] \in {RetryWaiting, Queued}
        BY <1>0, <2>3, <3>2, EdgesInto DEF UpdateStatus, Inv, SweeperInv
      <4>2. UNCHANGED Attempts
        BY <2>3, <3>2 DEF UpdateStatus, Attempts
      <4>3. status' = [status EXCEPT ![j] = Queued]
        BY <2>3, <3>2 DEF UpdateStatus
      <4>4. CASE status[j] = Queued
        BY <4>2, <4>3, <4>4 DEF Inv, TypeOK, Lifecycle!lifecycleVars
      <4>5. CASE status[j] = RetryWaiting
        BY <4>2, <4>3, <4>5, SameStatuses DEF Lifecycle!LifecycleNext, Lifecycle!Resume, Lifecycle!Move
      <4> QED
        BY <4>1, <4>4, <4>5
    <3> QED
      BY <3>1, <3>2
  <2>4. ASSUME NEW j \in Jobs, MarkFailed(j) PROVE Refines
    <3>1. CASE ~MayFail(j)
      BY <2>4, <3>1, QuietStep DEF MarkFailed, EndTick
    <3>2. CASE MayFail(j)
      <4>1. status[j] \in {Running, Failed}
        BY <1>0, <2>4, <3>2, EdgesInto, StatusFacts DEF MarkFailed, MayFail, Inv, SweeperInv
      <4>2. UNCHANGED Attempts
        BY <2>4, <3>2, <1>a DEF MarkFailed
      <4>3. status' = [status EXCEPT ![j] = Failed]
        BY <2>4, <3>2 DEF MarkFailed
      <4>4. CASE status[j] = Failed
        BY <4>2, <4>3, <4>4 DEF Inv, TypeOK, Lifecycle!lifecycleVars
      <4>5. CASE status[j] = Running
        BY <4>2, <4>3, <4>5, StatusFacts, SameStatuses DEF Lifecycle!LifecycleNext, Lifecycle!Finish,
                                             Lifecycle!Move
      <4> QED
        BY <4>1, <4>4, <4>5
    <3> QED
      BY <3>1, <3>2
  <2>5. ASSUME NEW j \in Jobs, MarkRetryWaiting(j) PROVE Refines
    <3>1. CASE ~CanTransition(status[j], RetryWaiting)
      BY <2>5, <3>1, QuietStep DEF MarkRetryWaiting, EndTick
    <3>2. CASE CanTransition(status[j], RetryWaiting)
      <4>1. status[j] = Running
        BY <1>0, <2>5, <3>2, EdgesInto, StatusFacts DEF MarkRetryWaiting, Inv, SweeperInv
      <4>2. retryCount[j] \in Nat /\ retryCount[j] < MaxRetries
        BY <2>5, InMemoryJobsAssumption DEF MarkRetryWaiting, GivesUp, Inv, TypeOK
      <4>3. Attempts[j] = retryCount[j] /\ Attempts \in [Jobs -> Nat]
        BY <2>5, <4>2 DEF MarkRetryWaiting, Attempts, Inv, TypeOK
      <4>4. Attempts' = [Attempts EXCEPT ![j] = @ + 1]
        <5>1. swPc = "expire" /\ swPc' = "count" /\ swCur' = j /\ retryCount' = retryCount
          BY <2>5, <3>2 DEF MarkRetryWaiting
        <5>2. ASSUME NEW i \in Jobs PROVE retryCount[i] \in Nat
          BY DEF Inv, TypeOK
        <5>3. Attempts = [i \in Jobs |-> retryCount[i]]
          BY <5>1, <5>2 DEF Attempts
        <5>4. Attempts' = [i \in Jobs |-> IF i = j THEN retryCount[i] + 1 ELSE retryCount[i]]
          BY <5>1, <5>2 DEF Attempts
        <5> QED
          BY <5>3, <5>4
      <4>5. status' = [status EXCEPT ![j] = RetryWaiting]
        BY <2>5, <3>2 DEF MarkRetryWaiting
      <4> QED
        BY <4>1, <4>2, <4>3, <4>4, <4>5, SameStatuses DEF Lifecycle!LifecycleNext, Lifecycle!Park,
                                            Lifecycle!Move
    <3> QED
      BY <3>1, <3>2
  <2> QED
    BY <1>3, <2>1, <2>2, <2>3, <2>4, <2>5 DEF SweeperStep
<1>4. CASE UNCHANGED vars
  BY <1>4, <1>a DEF Lifecycle!lifecycleVars
<1> QED
  BY <1>1, <1>2, <1>3, <1>4 DEF Next

(***************************************************************************)
(* The mutex-protected repository and the sweeper on top of it implement   *)
(* the job lifecycle: no interleaving of callbacks and a Tick takes a job  *)
(* out of a terminal status, along an edge that is not in the table, or    *)
(* through more than maxRetries retries.                                   *)
(***************************************************************************)
THEOREM Refinement == Spec => ImplementsLifecycle
<1>1. Init => Lifecycle!LifecycleInit
  BY SameStatuses DEF Init, Lifecycle!LifecycleInit, Attempts
<1> QED
  BY <1>1, StepRefines, Invariance, PTL DEF Spec, ImplementsLifecycle, Lifecycle!LifecycleSpec

-----------------------------------------------------------------------------
(***************************************************************************)
(* RateLimit. The requests a client was allowed are divided by the start   *)
(* of the bucket that is open: the bucket counts those since then, and of  *)
(* those before it a stretch of one window can hold less than the limit.   *)
(***************************************************************************)

(* The clock, the bucket and what the callers have read; a refused client is told to come     *)
(* back when the window is over or later.                                                     *)
LimitTypeInv ==
  /\ now \in Nat
  /\ bucket \in [start: Nat, count: Nat]
  /\ caller \in [Callers -> [pc: {"idle", "timed"}, time: Nat]]
  /\ \A c \in Callers : caller[c].time <= now
  /\ comeBack \in Nat

ComeBackInv ==
  comeBack # 0 => bucket.count # 0 /\ bucket.start + Window <= comeBack

(* The requests that were allowed are numbered. *)
NumberedInv ==
  /\ IsFiniteSet(allowed)
  /\ allowed \subseteq Nat \X Nat \X Nat
  /\ \A a \in allowed : a[1] < Cardinality(allowed) /\ a[3] <= now

(* No request was held up. *)
Punctual == \A a \in allowed : a[2] = a[3]

Current == {a \in allowed : a[3] >= bucket.start}

EarlierFrom(from) == {a \in allowed : from <= a[3] /\ a[3] < bucket.start}

Stretch(from) == {a \in allowed : a[3] \in from..(from + Window - 1)}

(* The window has its count, and its first request at its start; of the stretch before it     *)
(* that it can share a window's length with, less than the limit was allowed.                 *)
WindowInv ==
  /\ bucket.count = 0 => allowed = {}
  /\ bucket.count # 0 => /\ \E a \in allowed : a[3] = bucket.start
                         /\ \A a \in allowed : a[3] < bucket.start + Window
  /\ bucket.start <= now
  /\ bucket.count = Cardinality(Current)
  /\ bucket.count <= Limit
  /\ \A from \in Nat : from + Window > bucket.start => Cardinality(EarlierFrom(from)) <= Limit - 1
  /\ \A from \in Nat : Cardinality(Stretch(from)) < 2 * Limit

LimitInv ==
  /\ LimitTypeInv
  /\ ComeBackInv
  /\ NumberedInv
  /\ Punctual => WindowInv

-----------------------------------------------------------------------------
(* The seconds a client is told to wait cover the ticks that are left. *)
LEMMA RoundedUp ==
  ASSUME NEW ticks \in Nat
  PROVE  RetryAfter(ticks) \in Nat /\ TicksPerSecond * RetryAfter(ticks) >= ticks /\ RetryAfter(ticks) >= 1
<1> DEFINE n == TicksPerSecond
           s == (ticks + n - 1) \div n
<1>1. n \in Nat /\ n > 0
  BY RateLimitAssumption
<1>2. s \in Nat /\ n * s >= ticks
  <2>1. s \in Int /\ ticks + n - 1 = n * s + ((ticks + n - 1) % n) /\ (ticks + n - 1) % n \in 0..(n - 1)
    BY <1>1
  <2> QED
    BY <1>1, <2>1
<1> QED
  BY <1>1, <1>2 DEF RetryAfter

(* What is cut from a finite set is finite, and not larger. *)
LEMMA PartIsFinite ==
  ASSUME NEW S, IsFiniteSet(S), NEW T \in SUBSET S
  PROVE  IsFiniteSet(T) /\ Cardinality(T) \in Nat /\ Cardinality(T) <= Cardinality(S)
BY FS_Subset, FS_CardinalityType

(* A stretch that reaches into the window has less than the limit before the window and at    *)
(* most the limit in it.                                                                      *)
LEMMA StretchOfTwoWindows ==
  ASSUME NEW S, IsFiniteSet(S), NEW E \in SUBSET S, NEW C \in SUBSET S, NEW T \in SUBSET (E \union C),
         Cardinality(E) <= Limit - 1, Cardinality(C) <= Limit
  PROVE  Cardinality(T) < 2 * Limit
<1>1. Limit \in Nat
  BY RateLimitAssumption
<1>2. IsFiniteSet(E) /\ IsFiniteSet(C) /\ Cardinality(E) \in Nat /\ Cardinality(C) \in Nat
  BY PartIsFinite
<1>3. /\ IsFiniteSet(E \union C) /\ Cardinality(E \union C) \in Nat /\ IsFiniteSet(E \cap C)
      /\ Cardinality(E \union C) = Cardinality(E) + Cardinality(C) - Cardinality(E \cap C)
      /\ Cardinality(E \cap C) \in Nat
  BY <1>2, FS_Union, FS_Intersection, FS_CardinalityType
<1>4. Cardinality(T) \in Nat /\ Cardinality(T) <= Cardinality(E \union C)
  BY <1>3, PartIsFinite
<1> QED
  BY <1>1, <1>2, <1>3, <1>4

-----------------------------------------------------------------------------
(* Nothing has been allowed. *)
LEMMA LimitIdleInv == LimitIdle => LimitInv
<1> SUFFICES ASSUME LimitIdle PROVE LimitInv
  OBVIOUS
<1>0. {Limit, Window} \subseteq Nat \ {0}
  BY RateLimitAssumption
<1>1. now = 0 /\ bucket = [start |-> 0, count |-> 0] /\ allowed = {} /\ comeBack = 0
  BY DEF LimitIdle
<1>2. LimitTypeInv /\ ComeBackInv
  BY DEF LimitIdle, LimitTypeInv, ComeBackInv
<1>3. NumberedInv
  BY <1>1, FS_EmptySet DEF NumberedInv
<1>4. Current = {} /\ \A from \in Nat : EarlierFrom(from) = {} /\ Stretch(from) = {}
  BY <1>1 DEF Current, EarlierFrom, Stretch
<1>5. Limit \in Nat /\ Limit > 0 /\ Cardinality({}) = 0
  BY <1>0, FS_EmptySet
<1>6. /\ Cardinality(Current) = 0
      /\ \A from \in Nat : Cardinality(EarlierFrom(from)) = 0 /\ Cardinality(Stretch(from)) = 0
  BY <1>4, <1>5
<1>7. WindowInv
  BY <1>1, <1>5, <1>6 DEF WindowInv
<1> QED
  BY <1>2, <1>3, <1>7 DEF LimitInv

(* The clock only goes on. *)
LEMMA ClockTicksInv ==
  ASSUME LimitInv, ClockTicks
  PROVE  LimitInv'
<1> USE DEF LimitInv, ClockTicks
<1>1. LimitTypeInv' /\ ComeBackInv'
  BY DEF LimitTypeInv, ComeBackInv
<1>2. NumberedInv'
  <2>1. \A a \in allowed : a[3] \in Nat
    BY DEF NumberedInv
  <2> QED
    BY <2>1 DEF NumberedInv, LimitTypeInv
<1>3. Punctual => WindowInv'
  BY DEF WindowInv, Current, EarlierFrom, Stretch, LimitTypeInv
<1> QED
  BY <1>1, <1>2, <1>3 DEF Punctual

(* A request that reads the clock has a time that is not later. *)
LEMMA ReadClockInv ==
  ASSUME LimitInv, NEW c \in Callers, ReadClock(c)
  PROVE  LimitInv'
<1> USE DEF LimitInv, ReadClock
<1>1. LimitTypeInv' /\ ComeBackInv'
  BY DEF LimitTypeInv, ComeBackInv
<1>2. NumberedInv'
  BY DEF NumberedInv
<1>3. Punctual => WindowInv'
  BY DEF WindowInv, Current, EarlierFrom, Stretch
<1> QED
  BY <1>1, <1>2, <1>3 DEF Punctual

(* A refused client is told to come back when the window is over. *)
LEMMA RefuseInv ==
  ASSUME LimitInv, NEW c \in Callers, Refuse(c)
  PROVE  LimitInv'
<1> DEFINE t == caller[c].time
           rest == bucket.start + Window - t
<1>0. LimitTypeInv /\ Limit \in Nat \ {0} /\ Window \in Nat /\ TicksPerSecond \in Nat
  BY RateLimitAssumption DEF LimitInv
<1>1. /\ t \in Nat /\ bucket.start \in Nat /\ bucket.count \in Nat /\ now \in Nat
      /\ bucket.count # 0 /\ t < bucket.start + Window
      /\ comeBack' = t + TicksPerSecond * RetryAfter(rest)
      /\ UNCHANGED <<now, bucket, allowed>>
  BY <1>0 DEF LimitTypeInv, Refuse, WindowOver
<1>2. rest \in Nat
  BY <1>0, <1>1
<1>3. RetryAfter(rest) \in Nat /\ TicksPerSecond * RetryAfter(rest) >= rest
  BY <1>2, RoundedUp
<1>4. comeBack' \in Nat /\ comeBack' >= bucket.start + Window
  BY <1>0, <1>1, <1>2, <1>3
<1>5. LimitTypeInv'
  BY <1>0, <1>1, <1>4 DEF LimitTypeInv, Refuse, Return
<1>6. ComeBackInv'
  BY <1>1, <1>4 DEF ComeBackInv
<1>7. NumberedInv' /\ (Punctual => WindowInv')
  BY <1>1 DEF LimitInv, NumberedInv, WindowInv, Current, EarlierFrom, Stretch
<1> QED
  BY <1>1, <1>5, <1>6, <1>7 DEF LimitInv, Punctual

(* An allowed request has a number of its own. *)
LEMMA AllowNumbered ==
  ASSUME LimitInv, NEW c \in Callers, Allow(c)
  PROVE  /\ LimitTypeInv' /\ ComeBackInv' /\ NumberedInv'
         /\ <<Cardinality(allowed), caller[c].time, now>> \notin allowed
         /\ IsFiniteSet(allowed)
<1> DEFINE t == caller[c].time
           a == <<Cardinality(allowed), t, now>>
<1>0. LimitTypeInv /\ NumberedInv /\ t \in Nat /\ now \in Nat
  BY DEF LimitInv, LimitTypeInv
<1>1. /\ allowed' = allowed \union {a} /\ comeBack' = 0 /\ now' = now
      /\ bucket' = IF WindowOver(t) THEN [start |-> t, count |-> 1] ELSE [bucket EXCEPT !.count = @ + 1]
      /\ caller' = [caller EXCEPT ![c] = [pc |-> "idle", time |-> 0]]
  BY DEF Allow, Return
<1>2. IsFiniteSet(allowed) /\ Cardinality(allowed) \in Nat
  BY <1>0, FS_CardinalityType DEF NumberedInv
<1>3. a \notin allowed
  BY <1>0, <1>2 DEF NumberedInv
<1>4. IsFiniteSet(allowed') /\ Cardinality(allowed') = Cardinality(allowed) + 1
  BY <1>1, <1>2, <1>3, FS_AddElement
<1>5. LimitTypeInv' /\ ComeBackInv'
  BY <1>0, <1>1 DEF LimitTypeInv, ComeBackInv
<1>6. NumberedInv'
  <2>1. a \in Nat \X Nat \X Nat /\ a[1] = Cardinality(allowed) /\ a[3] = now
    BY <1>0, <1>2
  <2>2. \A b \in allowed : b[1] \in Nat /\ b[1] < Cardinality(allowed) /\ b[3] <= now
    BY <1>0 DEF NumberedInv
  <2> HIDE DEF a
  <2>3. \A b \in allowed' : b[1] < Cardinality(allowed) + 1 /\ b[3] <= now
    BY <1>0, <1>1, <1>2, <2>1, <2>2
  <2> QED
    BY <1>0, <1>1, <1>4, <2>1, <2>3 DEF NumberedInv
<1> QED
  BY <1>2, <1>3, <1>5, <1>6

(* The bound for stretches follows from what is known of the window. *)
LEMMA StretchBound ==
  ASSUME LimitTypeInv', NumberedInv', Limit \in Nat,
         bucket'.start <= now',
         Cardinality(Current') <= Limit,
         \A from \in Nat : from + Window > bucket'.start => Cardinality(EarlierFrom(from)') <= Limit - 1,
         \A from \in Nat : from + Window <= bucket'.start => Cardinality(Stretch(from)') < 2 * Limit
  PROVE  \A from \in Nat : Cardinality(Stretch(from)') < 2 * Limit
<1> SUFFICES ASSUME NEW from \in Nat, from + Window > bucket'.start
             PROVE  Cardinality(Stretch(from)') < 2 * Limit
  BY RateLimitAssumption DEF LimitTypeInv
<1>0. Window \in Nat /\ bucket'.start \in Nat
  BY RateLimitAssumption DEF LimitTypeInv
<1>1. IsFiniteSet(allowed') /\ \A a \in allowed' : a[3] \in Nat
  BY DEF NumberedInv
<1>2. EarlierFrom(from)' \in SUBSET allowed' /\ Current' \in SUBSET allowed'
  BY DEF EarlierFrom, Current
<1>3. Stretch(from)' \in SUBSET (EarlierFrom(from)' \union Current')
  BY <1>0, <1>1 DEF Stretch, EarlierFrom, Current
<1> QED
  BY <1>1, <1>2, <1>3, StretchOfTwoWindows

(* A new window: of the one before, the first request is out of reach of any stretch that     *)
(* reaches into the new one.                                                                  *)
LEMMA NewWindow ==
  ASSUME LimitInv, NEW c \in Callers, Allow(c), WindowOver(caller[c].time), Punctual'
  PROVE  WindowInv'
<1> DEFINE t == caller[c].time
           a == <<Cardinality(allowed), t, now>>
<1>0. /\ Limit \in Nat /\ Limit > 0 /\ Window \in Nat /\ Window > 0
      /\ LimitTypeInv /\ LimitTypeInv' /\ NumberedInv /\ NumberedInv' /\ a \notin allowed /\ IsFiniteSet(allowed)
  BY RateLimitAssumption, AllowNumbered DEF LimitInv
<1>1. /\ allowed' = allowed \union {a} /\ bucket' = [start |-> t, count |-> 1] /\ now' = now
      /\ a[2] = t /\ a[3] = now
  BY DEF Allow
<1>2. t = now /\ WindowInv
  BY <1>1 DEF Punctual, LimitInv
<1>3. /\ now \in Nat /\ bucket.start \in Nat /\ bucket.count \in Nat /\ \A b \in allowed : b[3] \in Nat /\ b[3] <= now
      /\ bucket'.start = now /\ bucket'.count = 1
  BY <1>0, <1>1, <1>2 DEF LimitTypeInv, NumberedInv
<1>4. \A b \in allowed : b[3] < now
  BY <1>0, <1>2, <1>3 DEF WindowInv, WindowOver
<1>5. Current' = {a}
  BY <1>1, <1>3, <1>4 DEF Current
<1>6. Cardinality(Current') = 1
  BY <1>5, FS_Singleton
<1>7. ASSUME NEW from \in Nat, from + Window > now PROVE Cardinality(EarlierFrom(from)') <= Limit - 1
  <2>1. EarlierFrom(from)' = {b \in allowed : from <= b[3]}
    BY <1>1, <1>3, <1>4 DEF EarlierFrom
  <2>2. CASE bucket.count = 0
    <3>1. EarlierFrom(from)' = {}
      BY <1>2, <2>1, <2>2 DEF WindowInv
    <3> QED
      BY <1>0, <3>1, FS_EmptySet
  <2>3. CASE bucket.count # 0
    <3>1. bucket.start < from
      BY <1>0, <1>2, <1>3, <1>7, <2>3 DEF WindowOver
    <3>2. PICK first \in allowed : first[3] = bucket.start
      BY <1>2, <2>3 DEF WindowInv
    <3>3. EarlierFrom(from)' \in SUBSET (Current \ {first})
      BY <1>3, <2>1, <3>1, <3>2 DEF Current
    <3>4. IsFiniteSet(Current) /\ first \in Current /\ Cardinality(Current) <= Limit /\ Cardinality(Current) \in Nat
      BY <1>0, <1>2, <1>3, <3>2, PartIsFinite DEF Current, WindowInv
    <3>5. IsFiniteSet(Current \ {first}) /\ Cardinality(Current \ {first}) = Cardinality(Current) - 1
      BY <3>4, FS_RemoveElement
    <3>6. Cardinality(EarlierFrom(from)') \in Nat /\ Cardinality(EarlierFrom(from)') <= Cardinality(Current \ {first})
      BY <3>3, <3>5, PartIsFinite
    <3> QED
      BY <1>0, <3>4, <3>5, <3>6
  <2> QED
    BY <2>2, <2>3
<1>8. ASSUME NEW from \in Nat, from + Window <= now PROVE Cardinality(Stretch(from)') < 2 * Limit
  <2>1. Stretch(from)' = Stretch(from)
    BY <1>0, <1>1, <1>3, <1>8 DEF Stretch
  <2> QED
    BY <1>2, <2>1 DEF WindowInv
<1>9. \A from \in Nat : Cardinality(Stretch(from)') < 2 * Limit
  BY <1>0, <1>1, <1>3, <1>6, <1>7, <1>8, StretchBound
<1>10. \A b \in allowed' : b[3] < bucket'.start + Window
  BY <1>0, <1>1, <1>3, <1>4
<1>11. \E b \in allowed' : b[3] = bucket'.start
  BY <1>1, <1>3
<1> QED
  BY <1>0, <1>1, <1>3, <1>6, <1>7, <1>9, <1>10, <1>11 DEF WindowInv

(* One more request in the window. *)
LEMMA SameWindow ==
  ASSUME LimitInv, NEW c \in Callers, Allow(c), ~WindowOver(caller[c].time), Punctual'
  PROVE  WindowInv'
<1> DEFINE t == caller[c].time
           a == <<Cardinality(allowed), t, now>>
<1>0. /\ Limit \in Nat /\ Limit > 0 /\ Window \in Nat /\ Window > 0
      /\ LimitTypeInv /\ LimitTypeInv' /\ NumberedInv /\ NumberedInv' /\ a \notin allowed /\ IsFiniteSet(allowed)
  BY RateLimitAssumption, AllowNumbered DEF LimitInv
<1>1. /\ allowed' = allowed \union {a} /\ bucket' = [bucket EXCEPT !.count = @ + 1] /\ now' = now
      /\ a[2] = t /\ a[3] = now /\ ~Full
  BY DEF Allow
<1>2. t = now /\ WindowInv
  BY <1>1 DEF Punctual, LimitInv
<1>3. /\ now \in Nat /\ bucket.start \in Nat /\ bucket.count \in Nat /\ \A b \in allowed : b[3] \in Nat /\ b[3] <= now
      /\ bucket'.start = bucket.start /\ bucket'.count = bucket.count + 1
  BY <1>0, <1>1, <1>2 DEF LimitTypeInv, NumberedInv
<1>4. bucket.count # 0 /\ now < bucket.start + Window /\ bucket.start <= now /\ bucket.count < Limit
  BY <1>0, <1>1, <1>2, <1>3 DEF WindowInv, WindowOver, Full
<1>5. Current' = Current \union {a} /\ a \notin Current /\ IsFiniteSet(Current)
  BY <1>0, <1>1, <1>3, <1>4, PartIsFinite DEF Current
<1>6. Cardinality(Current') = bucket.count + 1
  BY <1>2, <1>5, FS_AddElement DEF WindowInv
<1>7. ASSUME NEW from \in Nat, from + Window > bucket.start PROVE Cardinality(EarlierFrom(from)') <= Limit - 1
  <2>1. EarlierFrom(from)' = EarlierFrom(from)
    BY <1>1, <1>3, <1>4 DEF EarlierFrom
  <2> QED
    BY <1>2, <1>7, <2>1 DEF WindowInv
<1>8. ASSUME NEW from \in Nat, from + Window <= bucket.start PROVE Cardinality(Stretch(from)') < 2 * Limit
  <2>1. Stretch(from)' = Stretch(from)
    BY <1>0, <1>1, <1>3, <1>4, <1>8 DEF Stretch
  <2> QED
    BY <1>2, <2>1 DEF WindowInv
<1>9. Cardinality(Current') <= Limit
  BY <1>0, <1>3, <1>4, <1>6
<1>10. \A from \in Nat : Cardinality(Stretch(from)') < 2 * Limit
  BY <1>0, <1>1, <1>3, <1>4, <1>7, <1>8, <1>9, StretchBound
<1>11. \A b \in allowed' : b[3] < bucket'.start + Window
  BY <1>0, <1>1, <1>2, <1>3, <1>4 DEF WindowInv
<1>12. \E b \in allowed' : b[3] = bucket'.start
  BY <1>1, <1>2, <1>3, <1>4 DEF WindowInv
<1> QED
  BY <1>0, <1>1, <1>3, <1>4, <1>6, <1>7, <1>9, <1>10, <1>11, <1>12 DEF WindowInv

-----------------------------------------------------------------------------
(* The limiter keeps its invariant. *)
THEOREM LimitInvariance == LimitSpec => []LimitInv
<1>1. ASSUME LimitInv, NEW c \in Callers, Allow(c) PROVE LimitInv'
  BY <1>1, AllowNumbered, NewWindow, SameWindow DEF LimitInv
<1>2. ASSUME LimitInv, LimitNext PROVE LimitInv'
  BY <1>1, <1>2, ClockTicksInv, ReadClockInv, RefuseInv DEF LimitNext
<1>3. ASSUME LimitInv, UNCHANGED limitVars PROVE LimitInv'
  BY <1>3 DEF limitVars, LimitInv, LimitTypeInv, ComeBackInv, NumberedInv, Punctual, WindowInv, Current,
     EarlierFrom, Stretch
<1>4. LimitInv /\ [LimitNext]_limitVars => LimitInv'
  BY <1>2, <1>3
<1> QED
  BY <1>4, LimitIdleInv, PTL DEF LimitSpec

(* allow: for any limit and window, less than twice the limit is allowed in a stretch as long *)
(* as a window, as long as no request is held up between the clock and the mutex.             *)
THEOREM BurstIsBounded == LimitSpec => []BurstBound
<1>1. LimitInv => BurstBound
  BY RateLimitAssumption DEF LimitInv, WindowInv, Punctual, Stretch, BurstBound
<1> QED
  BY <1>1, LimitInvariance, PTL

(* Retry-After: whoever comes back when told to is not refused again, also with clocks read   *)
(* in another order than that of the mutex, unless another request was allowed.               *)
THEOREM RetryAfterHolds == LimitSpec => RetryAfterSuffices
<1>1. ASSUME LimitInv, NEW c \in Callers, Refuse(c), comeBack # 0 PROVE caller[c].time < comeBack
  <2>1. Window \in Nat /\ LimitTypeInv /\ ComeBackInv
    BY <1>1, RateLimitAssumption DEF LimitInv
  <2>2. caller[c].time \in Nat /\ bucket.start \in Nat /\ comeBack \in Nat
    BY <1>1, <2>1 DEF LimitTypeInv
  <2>3. caller[c].time < bucket.start + Window /\ bucket.start + Window <= comeBack
    BY <1>1, <2>1, <2>2 DEF Refuse, WindowOver, ComeBackInv
  <2> QED
    BY <2>1, <2>2, <2>3
<1>2. LimitInv => [\A c \in Callers : Refuse(c) /\ comeBack # 0 => caller[c].time < comeBack]_limitVars
  BY <1>1
<1> QED
  BY <1>2, LimitInvariance, PTL DEF RetryAfterSuffices

-----------------------------------------------------------------------------
(***************************************************************************)
(* RetryBackoff. 2 ^ n is the number of subsets of 1..n, so that what is   *)
(* needed of powers follows from facts on finite sets.                     *)
(***************************************************************************)

(* A power of two counts the subsets of a set; that is how the facts about powers are proved. *)
LEMMA PowerCountsSubsets ==
  ASSUME NEW n \in Nat
  PROVE  /\ IsFiniteSet(SUBSET (1..n))
         /\ Cardinality(SUBSET (1..n)) = 2 ^ n
         /\ 2 ^ n \in Nat
<1>1. IsFiniteSet(1..n) /\ Cardinality(1..n) = n
  BY FS_Interval
<1>2. IsFiniteSet(SUBSET (1..n)) /\ Cardinality(SUBSET (1..n)) = 2 ^ Cardinality(1..n)
  BY <1>1, FS_SUBSET
<1>3. Cardinality(SUBSET (1..n)) \in Nat
  BY <1>2, FS_CardinalityType
<1> QED
  BY <1>1, <1>2, <1>3

(* Powers grow with the exponent. *)
LEMMA PowerMonotone ==
  ASSUME NEW m \in Nat, NEW n \in Nat, m <= n
  PROVE  2 ^ m <= 2 ^ n
<1> DEFINE A == SUBSET (1..m)
           B == SUBSET (1..n)
<1>1. A \in SUBSET B
  OBVIOUS
<1>2. IsFiniteSet(B) /\ Cardinality(B) = 2 ^ n /\ Cardinality(A) = 2 ^ m
  BY PowerCountsSubsets
<1> HIDE DEF A, B
<1>3. Cardinality(A) <= Cardinality(B)
  BY <1>1, <1>2, FS_Subset
<1> QED
  BY <1>2, <1>3

(* Powers are positive, and 2^0 is 1. *)
LEMMA PowerOfZero == 2 ^ 0 = 1
<1>1. SUBSET (1..0) = {{}}
  OBVIOUS
<1>2. Cardinality({{}}) = 1
  BY FS_Singleton
<1> QED
  BY <1>1, <1>2, PowerCountsSubsets

(* One more in the exponent doubles the power. *)
LEMMA PowerDoubles ==
  ASSUME NEW n \in Nat
  PROVE  2 ^ (n + 1) = 2 * 2 ^ n
<1> DEFINE A == SUBSET (1..n)
           B == {T \union {n + 1} : T \in A}
           f == [T \in A |-> T \union {n + 1}]
<1>1. \A T \in A : n + 1 \notin T
  OBVIOUS
<1>2. SUBSET (1..(n + 1)) = A \union B
  <2>1. ASSUME NEW U \in SUBSET (1..(n + 1)) PROVE U \in A \union B
    <3>1. U \ {n + 1} \in A
      OBVIOUS
    <3>2. CASE n + 1 \in U
      <4>1. U = (U \ {n + 1}) \union {n + 1}
        BY <3>2
      <4> QED
        BY <3>1, <4>1
    <3>3. CASE n + 1 \notin U
      <4>1. U = U \ {n + 1}
        BY <3>3
      <4> QED
        BY <3>1, <4>1
    <3> QED
      BY <3>2, <3>3
  <2>2. ASSUME NEW U \in A \union B PROVE U \in SUBSET (1..(n + 1))
    OBVIOUS
  <2> QED
    BY <2>1, <2>2
<1>3. A \cap B = {}
  BY <1>1
<1>4. ExistsBijection(A, B)
  <2>1. f \in [A -> B] /\ \A b \in B : \E T \in A : f[T] = b
    OBVIOUS
  <2>2. ASSUME NEW T \in A, NEW U \in A, f[T] = f[U] PROVE T = U
    <3>1. T = (T \union {n + 1}) \ {n + 1} /\ U = (U \union {n + 1}) \ {n + 1}
      BY <1>1
    <3> QED
      BY <2>2, <3>1
  <2>3. f \in Bijection(A, B)
    BY <2>1, <2>2 DEF Bijection, Injection, Surjection, IsInjective
  <2> QED
    BY <2>3 DEF ExistsBijection
<1>5. IsFiniteSet(A) /\ Cardinality(A) = 2 ^ n /\ 2 ^ n \in Nat
  BY PowerCountsSubsets
<1>6. IsFiniteSet(B) /\ Cardinality(B) = 2 ^ n
  BY <1>4, <1>5, FS_Bijection
<1>7. Cardinality(A \union B) = Cardinality(A) + Cardinality(B) - Cardinality(A \cap B)
  BY <1>5, <1>6, FS_Union
<1>8. Cardinality(A \cap B) = 0
  BY <1>3, FS_EmptySet
<1>9. Cardinality(SUBSET (1..(n + 1))) = 2 ^ (n + 1)
  BY PowerCountsSubsets
<1>10. 2 ^ (n + 1) = 2 ^ n + 2 ^ n - 0
  BY <1>2, <1>5, <1>6, <1>7, <1>8, <1>9, Zenon
<1> QED
  BY <1>5, <1>10

(* What fits into the width is not wrapped. *)
LEMMA FitsUnwrapped ==
  ASSUME NEW n \in 0..Largest
  PROVE  Wrapped(n) = n
<1> DEFINE h == 2 ^ (Width - 1)
<1>1. Width - 1 \in Nat /\ Width = (Width - 1) + 1
  BY RetryBackoffAssumption
<1>2. h \in Nat /\ 2 ^ Width = 2 * h
  BY <1>1, PowerCountsSubsets, PowerDoubles
<1>3. n \in Int /\ 0 <= n /\ n <= h - 1
  BY <1>2 DEF Largest
<1> HIDE DEF h
<1>4. (n + h) % (2 * h) = n + h
  BY <1>2, <1>3
<1>5. Wrapped(n) = ((n + h) % (2 * h)) - h
  BY <1>2 DEF Wrapped, h
<1> QED
  BY <1>2, <1>3, <1>4, <1>5

-----------------------------------------------------------------------------
(* In the loop the delay is the base doubled for every attempt but the first, and it is not   *)
(* over the maximum.                                                                          *)
LoopInv ==
  /\ backoffBase \in Nat \ {0}
  /\ backoffMax \in 0..Largest
  /\ backoffBase <= backoffMax
  /\ retries \in Nat
  /\ attempt \in Nat \ {0}
  /\ attempt = 1 \/ attempt <= retries
  /\ delay = backoffBase * 2 ^ (attempt - 1)
  /\ delay <= backoffMax

BackoffInv ==
  /\ backoffPc = "loop" => LoopInv
  /\ BackoffIsDoubledAndCapped

(* The delay is a number. *)
LEMMA DelayTyped ==
  ASSUME LoopInv
  PROVE  /\ 2 ^ (attempt - 1) \in Nat /\ 2 ^ attempt = 2 * 2 ^ (attempt - 1)
         /\ delay \in Nat /\ Largest \in Int /\ backoffBase \in Nat /\ backoffMax \in Nat
<1>1. attempt - 1 \in Nat /\ attempt = (attempt - 1) + 1
  BY DEF LoopInv
<1>2. 2 ^ (attempt - 1) \in Nat /\ 2 ^ attempt = 2 * 2 ^ (attempt - 1)
  BY <1>1, PowerCountsSubsets, PowerDoubles
<1>3. Width - 1 \in Nat
  BY RetryBackoffAssumption
<1>4. 2 ^ (Width - 1) \in Nat
  BY <1>3, PowerCountsSubsets
<1> QED
  BY <1>2, <1>4 DEF LoopInv, Largest

(* The configured durations are put in order first. *)
LEMMA BackoffStarts ==
  ASSUME NEW base \in Bases, NEW max \in Maxima, NEW n \in Retries, retryBackoffDuration(base, max, n)
  PROVE  BackoffInv'
<1>1. 2 ^ (Width - 1) \in Nat /\ Largest \in Int
  BY RetryBackoffAssumption, PowerCountsSubsets DEF Largest
<1>2. /\ base \in Int /\ base <= Largest /\ max \in Int /\ max <= Largest /\ n \in Nat
      /\ DefaultBase \in Int /\ 1 <= DefaultBase /\ DefaultBase <= Largest
  BY <1>1, RetryBackoffAssumption
<1>3. /\ backoffBase' = (IF base <= 0 THEN DefaultBase ELSE base)
      /\ backoffMax' = (IF max < backoffBase' THEN backoffBase' ELSE max)
      /\ retries' = n /\ attempt' = 1 /\ delay' = backoffBase' /\ backoffPc' = "loop"
  BY DEF retryBackoffDuration, WithRetryBackoff
<1>4. /\ backoffBase' \in Nat \ {0} /\ backoffBase' <= Largest
  BY <1>1, <1>2, <1>3
<1>5. backoffMax' \in 0..Largest /\ backoffBase' <= backoffMax'
  BY <1>1, <1>2, <1>3, <1>4
<1>6. delay' = backoffBase' * 2 ^ (attempt' - 1)
  <2>1. attempt' - 1 = 0
    BY <1>3
  <2>2. 2 ^ (attempt' - 1) = 1
    BY <2>1, PowerOfZero
  <2> QED
    BY <1>3, <1>4, <2>2
<1> QED
  BY <1>2, <1>3, <1>4, <1>5, <1>6 DEF BackoffInv, LoopInv, BackoffIsDoubledAndCapped

(* Doubling stops before the maximum is passed, so it never wraps around. *)
LEMMA DoubleInv ==
  ASSUME BackoffInv, Double
  PROVE  BackoffInv'
<1>1. LoopInv /\ backoffPc' = "loop" /\ UNCHANGED <<backoffBase, backoffMax, retries>>
  BY DEF BackoffInv, Double
<1>2. /\ 2 ^ attempt = 2 * 2 ^ (attempt - 1) /\ 2 ^ (attempt - 1) \in Nat
      /\ delay \in Nat /\ Largest \in Int /\ backoffBase \in Nat /\ backoffMax \in Nat
  BY <1>1, DelayTyped
<1>3. delay <= backoffMax \div 2
  BY <1>2 DEF Double, AtLimit
<1>4. 2 * delay <= backoffMax /\ 2 * delay \in 0..Largest
  BY <1>1, <1>2, <1>3 DEF LoopInv
<1>5. delay' = 2 * delay
  BY <1>4, FitsUnwrapped DEF Double
<1>6. attempt' = attempt + 1 /\ attempt \in Nat \ {0} /\ attempt < retries /\ attempt' - 1 = attempt
  BY <1>1 DEF Double, LoopInv
<1>7. delay' = backoffBase * 2 ^ (attempt' - 1)
  <2>1. delay = backoffBase * 2 ^ (attempt - 1)
    BY <1>1 DEF LoopInv
  <2>2. \A x, y \in Nat : 2 * (x * y) = x * (2 * y)
    OBVIOUS
  <2> QED
    BY <1>2, <1>5, <1>6, <2>1, <2>2
<1>8. LoopInv'
  BY <1>1, <1>4, <1>5, <1>6, <1>7 DEF LoopInv
<1> QED
  BY <1>1, <1>8 DEF BackoffInv, BackoffIsDoubledAndCapped

(* When it stops there, the doublings that are left would pass the maximum. *)
LEMMA CappedInv ==
  ASSUME BackoffInv, Capped
  PROVE  BackoffInv'
<1>1. /\ LoopInv /\ backoffPc' = "done" /\ delay' = backoffMax /\ attempt < retries
      /\ UNCHANGED <<backoffBase, backoffMax, retries>>
  BY DEF BackoffInv, Capped
<1>2. /\ 2 ^ attempt = 2 * 2 ^ (attempt - 1) /\ 2 ^ (attempt - 1) \in Nat
      /\ delay \in Nat /\ backoffBase \in Nat /\ backoffMax \in Nat
  BY <1>1, DelayTyped
<1>3. 2 * delay >= backoffMax
  BY <1>2 DEF Capped, AtLimit
<1>4. attempt \in Nat /\ retries > 1 /\ retries - 1 \in Nat /\ attempt <= retries - 1
  BY <1>1 DEF LoopInv
<1>5. 2 ^ attempt <= 2 ^ (retries - 1) /\ 2 ^ attempt \in Nat /\ 2 ^ (retries - 1) \in Nat
  BY <1>4, PowerMonotone, PowerCountsSubsets
<1>6. backoffBase * 2 ^ attempt = 2 * delay
  <2>1. delay = backoffBase * 2 ^ (attempt - 1)
    BY <1>1 DEF LoopInv
  <2>2. \A x, y \in Nat : 2 * (x * y) = x * (2 * y)
    OBVIOUS
  <2> QED
    BY <1>2, <2>1, <2>2
<1>7. backoffBase * 2 ^ (retries - 1) >= backoffMax
  <2>1. \A x, y, z \in Nat : y <= z => x * y <= x * z
    OBVIOUS
  <2>2. backoffBase * 2 ^ attempt <= backoffBase * 2 ^ (retries - 1)
    BY <1>2, <1>5, <2>1
  <2>3. backoffBase * 2 ^ (retries - 1) \in Nat
    BY <1>2, <1>5
  <2> QED
    BY <1>2, <1>3, <1>6, <2>2, <2>3
<1>8. ~(backoffBase * 2 ^ (retries - 1) < backoffMax)
  <2>1. backoffBase * 2 ^ (retries - 1) \in Nat
    BY <1>2, <1>5
  <2> QED
    BY <1>2, <1>7, <2>1
<1> QED
  BY <1>1, <1>4, <1>8 DEF BackoffInv, BackoffIsDoubledAndCapped

(* The loop ends when all doublings are done. *)
LEMMA LoopEndsInv ==
  ASSUME BackoffInv, LoopEnds
  PROVE  BackoffInv'
<1>1. /\ LoopInv /\ backoffPc' = "done" /\ attempt >= retries
      /\ delay' = IF delay > backoffMax THEN backoffMax ELSE delay
      /\ UNCHANGED <<backoffBase, backoffMax, retries>>
  BY DEF BackoffInv, LoopEnds
<1>2. delay \in Nat /\ backoffMax \in Nat /\ delay <= backoffMax
  BY <1>1, DelayTyped DEF LoopInv
<1>3. (IF retries > 1 THEN retries - 1 ELSE 0) = attempt - 1
  BY <1>1 DEF LoopInv
<1>4. backoffBase * 2 ^ (IF retries > 1 THEN retries - 1 ELSE 0) = delay
  BY <1>1, <1>3 DEF LoopInv
<1>5. delay' = IF delay < backoffMax THEN delay ELSE backoffMax
  BY <1>1, <1>2
<1> QED
  BY <1>1, <1>4, <1>5 DEF BackoffInv, BackoffIsDoubledAndCapped

(* retryBackoffDuration: for any width, durations and retry count the delay is the base       *)
(* doubled once per retry after the first and capped, without ever wrapping around.           *)
THEOREM BackoffHolds == BackoffSpec => []BackoffIsDoubledAndCapped
<1>1. BackoffIdle => BackoffInv
  BY DEF BackoffIdle, BackoffInv, BackoffIsDoubledAndCapped
<1>2. ASSUME BackoffInv, BackoffNext PROVE BackoffInv'
  BY <1>2, BackoffStarts, DoubleInv, CappedInv, LoopEndsInv DEF BackoffNext
<1>3. ASSUME BackoffInv, UNCHANGED backoffVars PROVE BackoffInv'
  BY <1>3 DEF backoffVars, BackoffInv, LoopInv, BackoffIsDoubledAndCapped
<1>4. BackoffInv /\ [BackoffNext]_backoffVars => BackoffInv'
  BY <1>2, <1>3
<1>5. BackoffInv => BackoffIsDoubledAndCapped
  BY DEF BackoffInv
<1> QED
  BY <1>1, <1>4, <1>5, PTL DEF BackoffSpec

=============================================================================
