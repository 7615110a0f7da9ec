----------------------------- MODULE JobStates -----------------------------
(***************************************************************************)
(* The vocabulary of the job lifecycle, shared by every module about jobs: *)
(* the statuses of internal/jobs/model.go, the transition table of         *)
(* internal/jobs/state_machine.go and the way a Complete call reads it.    *)
(* Absent stands for "no row with this idempotency tuple yet".             *)
(***************************************************************************)

Absent              == "absent"
Queued              == "queued"
Running             == "running"
Succeeded           == "succeeded"
SucceededWithErrors == "succeeded_with_errors"
Failed              == "failed"
Canceled            == "canceled"
RetryWaiting        == "retry_waiting"

Terminal == {Succeeded, SucceededWithErrors, Failed, Canceled}

Statuses == {Queued, Running, RetryWaiting} \union Terminal

(***************************************************************************)
(* The table `transitions`: a terminal status has no entry.                *)
(***************************************************************************)
transitions ==
  [from \in Statuses |->
     CASE from = Queued       -> {Running, Canceled}
       [] from = Running      -> Terminal \union {RetryWaiting}
       [] from = RetryWaiting -> {Queued}
       [] OTHER               -> {}]

CanTransition(from, to) == from = to \/ to \in transitions[from]

(***************************************************************************)
(* Complete treats a queued or retry_waiting job as if it were running, so *)
(* that a worker whose lease was recovered can still report its result.    *)
(***************************************************************************)
CompletedFromAny(from) == Running

CompletedFrom(from) == IF from \in {Queued, RetryWaiting} THEN Running ELSE from

CanComplete(from, to) == CanTransition(CompletedFrom(from), to)

(***************************************************************************)
(* lease_until against the clock.  A deadline is compared with the present *)
(* and with nothing else, so what matters of it is whether it is null, yet *)
(* to come or gone by.                                                     *)
(***************************************************************************)
NoLease == "null"
Future  == "future"
Past    == "past"

Deadlines == {Future, Past}
Leases    == {NoLease} \union Deadlines
=============================================================================
