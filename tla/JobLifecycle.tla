---------------------------- MODULE JobLifecycle ----------------------------
(***************************************************************************)
(* What a job repository promises its callers: a job is created once,      *)
(* follows the edges of internal/jobs/state_machine.go, may be finished by *)
(* a late result while it is queued or waiting for a retry, and never      *)
(* leaves a terminal status.  Parking a job for a retry uses up one of its *)
(* maxRetries attempts in the same step.                                   *)
(***************************************************************************)
EXTENDS JobStates, Naturals

CONSTANTS Jobs, MaxRetries

VARIABLES status, attempts

lifecycleVars == <<status, attempts>>

LifecycleInit ==
  /\ status = [j \in Jobs |-> Absent]
  /\ attempts = [j \in Jobs |-> 0]

Move(j, from, to) ==
  /\ status[j] \in from
  /\ status' = [status EXCEPT ![j] = to]

Create(j) == Move(j, {Absent}, Queued) /\ UNCHANGED attempts

Start(j) == Move(j, {Queued}, Running) /\ UNCHANGED attempts

Resume(j) == Move(j, {RetryWaiting}, Queued) /\ UNCHANGED attempts

Finish(j, to) == Move(j, {Queued, Running, RetryWaiting}, to) /\ UNCHANGED attempts

Park(j) ==
  /\ Move(j, {Running}, RetryWaiting)
  /\ attempts[j] < MaxRetries
  /\ attempts' = [attempts EXCEPT ![j] = @ + 1]

LifecycleNext ==
  \E j \in Jobs :
    \/ Create(j) \/ Start(j) \/ Resume(j) \/ Park(j)
    \/ \E to \in Terminal : Finish(j, to)

LifecycleSpec == LifecycleInit /\ [][LifecycleNext]_lifecycleVars
=============================================================================
