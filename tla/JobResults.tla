------------------------------ MODULE JobResults ------------------------------
(***************************************************************************)
(* What a job leaves behind: review candidates, events, and the reference  *)
(* to its result in the job's row.  internal/jobs on Postgres, and the     *)
(* worker that reports to it.                                              *)
(*                                                                         *)
(* A worker that has run the handler posts its events and then a terminal  *)
(* report; it stops at the first post that is refused or lost.  A job is   *)
(* run again when its lease runs out, also under a worker that still       *)
(* reports.  Each report is several statements; StoreResultRef reads the   *)
(* reference, merges in memory and writes it back.                         *)
(*                                                                         *)
(* Jobs share nothing here, so there is one.  The statuses a job has while *)
(* it is not finished count as running (Complete treats them so, and       *)
(* JobControlPlane has them all).  The result of an attempt is named by    *)
(* the attempt's number, and 0 stands for a key that is not there.         *)
(***************************************************************************)
EXTENDS JobStates, Naturals, Sequences

CONSTANTS
  Kinds,        \* kinds of jobs by the way they report, see AllKinds
  MaxAttempts,  \* retries of the job, plus one
  MaxSize,      \* bound: candidates, frames or flagged items found by one attempt
  MaxFailures   \* bound: reports cut short

AllKinds == {"candidates", "frames", "cleaning", "package"}

ASSUME JobResultsAssumption ==
  /\ Kinds \subseteq AllKinds
  /\ {MaxAttempts, MaxSize, MaxFailures} \subseteq Nat

Attempts == 1..MaxAttempts

VARIABLES
  kind,         \* the kind of the job
  status,       \* jobs.status
  ref,          \* jobs.result_ref_json
  events,       \* job_events that carry a detail about the result
  persisted,    \* annotation_candidates, as the attempts that proposed them
  attempt,      \* the attempts and the report each one is in
  failures,     \* how many reports were cut short
  completedBy,  \* history: the attempt whose Complete wrote the status last
  overlaps      \* history: attempts that were reporting when another one began to

vars == <<kind, status, ref, events, persisted, attempt, failures, completedBy, overlaps>>

(***************************************************************************)
(* The keys result_type, with which result_count comes, and candidate_ids, *)
(* frames, report or artifact_ids.                                         *)
(***************************************************************************)
Ref == [type: {"none"} \union AllKinds, count: Nat, result: Nat]

NoRef == [type |-> "none", count |-> 0, result |-> 0]

Reporting == {"persist", "append", "read", "write", "check", "complete", "log",
              "readAgain", "writeAgain"}

Attempt == [pc: {"waiting", "done", "dead"} \union Reporting, died: {"", "refused"} \union Reporting,
            size: Nat, ok: BOOLEAN, seen: Ref]

TypeOK ==
  /\ kind \in Kinds
  /\ status \in {Running} \union Terminal
  /\ ref \in Ref
  /\ events \in Seq(Ref)
  /\ persisted \subseteq Attempts
  /\ attempt \in [Attempts -> Attempt]
  /\ failures \in Nat
  /\ completedBy \in Attempts \union {0}
  /\ overlaps \subseteq Attempts

Init ==
  /\ kind \in Kinds
  /\ status = Running
  /\ ref = NoRef
  /\ events = <<>>
  /\ persisted = {}
  /\ attempt = [a \in Attempts |-> [pc |-> "waiting", died |-> "", size |-> 0, ok |-> FALSE,
                                    seen |-> NoRef]]
  /\ failures = 0
  /\ completedBy = 0
  /\ overlaps = {}

-----------------------------------------------------------------------------
Goto(a, pc) == attempt' = [attempt EXCEPT ![a].pc = pc]

At(a, pc) == attempt[a].pc = pc

InFlight == {a \in Attempts : attempt[a].pc \in Reporting}

Sizes == IF kind = "package" THEN {0, 1} ELSE 0..MaxSize

(***************************************************************************)
(* The handler has returned or raised, and the worker begins to report.    *)
(* Candidates, frames and cleaning reports are announced by an event       *)
(* before the terminal report, which may be of success (with errors or     *)
(* without) or of failure; an attempt without a result only has the        *)
(* latter.  A cleaning report is a result also if it flags no item.        *)
(***************************************************************************)
HasResult(size, ok) == size # 0 \/ (kind = "cleaning" /\ ok)

Found(a) == HasResult(attempt[a].size, attempt[a].ok)

FirstReport(size, ok) ==
  IF ~HasResult(size, ok) \/ kind = "package" THEN "check"
  ELSE IF kind = "candidates" THEN "persist" ELSE "append"

HandlerEnds(a, size, ok) ==
  /\ At(a, "waiting")
  /\ \A b \in Attempts : b < a => ~At(b, "waiting")
  /\ status \notin Terminal
  /\ kind = "package" /\ ~ok => size = 0
  /\ attempt' = [attempt EXCEPT ![a].pc = FirstReport(size, ok), ![a].size = size, ![a].ok = ok]
  /\ overlaps' = overlaps \union InFlight
  /\ UNCHANGED <<kind, status, ref, events, persisted, failures, completedBy>>

(***************************************************************************)
(* ReportEvent: candidates are persisted in a transaction of the review    *)
(* repository, the event gets their ids, the row gets the reference.       *)
(***************************************************************************)
CandidatesOf(a) == {a}

persistReviewCandidates(a) ==
  /\ At(a, "persist")
  /\ persisted' = persisted \union CandidatesOf(a)
  /\ Goto(a, "append")
  /\ UNCHANGED <<kind, status, ref, events, failures, completedBy, overlaps>>

EventWithoutIds(a) == [type |-> kind, count |-> attempt[a].size, result |-> 0]

EventDetail(a) == [type |-> kind, count |-> attempt[a].size, result |-> a]

ReportEvent(a) ==
  /\ At(a, "append")
  /\ events' = Append(events, EventDetail(a))
  /\ Goto(a, "read")
  /\ UNCHANGED <<kind, status, ref, persisted, failures, completedBy, overlaps>>

IncomingOnly(current, incoming) == incoming

mergeResultRefs(current, incoming) ==
  [type   |-> IF incoming.type # "none" THEN incoming.type ELSE current.type,
   count  |-> IF incoming.type # "none" THEN incoming.count ELSE current.count,
   result |-> IF incoming.result # 0 THEN incoming.result ELSE current.result]

StoreResultRefGet(a, from, to) ==
  /\ At(a, from)
  /\ attempt' = [attempt EXCEPT ![a].pc = to, ![a].seen = ref]
  /\ UNCHANGED <<kind, status, ref, events, persisted, failures, completedBy, overlaps>>

StoreResultRefWrite(a, incoming, from, to) ==
  /\ At(a, from)
  /\ ref' = mergeResultRefs(attempt[a].seen, incoming)
  /\ attempt' = [attempt EXCEPT ![a].pc = to, ![a].seen = NoRef]
  /\ UNCHANGED <<kind, status, events, persisted, failures, completedBy, overlaps>>

(***************************************************************************)
(* ReportTerminal: Complete reads and checks, then writes the status; the  *)
(* terminal event and the reference follow.  Only a package is named here  *)
(* for the first time.                                                     *)
(***************************************************************************)
Reported(a) == IF attempt[a].ok THEN Succeeded ELSE Failed

CompleteGet(a) ==
  /\ At(a, "check")
  /\ IF CanComplete(status, Reported(a))
     THEN Goto(a, "complete")
     ELSE attempt' = [attempt EXCEPT ![a].pc = "dead", ![a].died = "refused"]
  /\ UNCHANGED <<kind, status, ref, events, persisted, failures, completedBy, overlaps>>

Complete(a) ==
  /\ At(a, "complete")
  /\ status' = Reported(a)
  /\ completedBy' = a
  /\ Goto(a, "log")
  /\ UNCHANGED <<kind, ref, events, persisted, failures, overlaps>>

resultRef(a) ==
  IF ~Found(a) THEN NoRef
  ELSE [type |-> kind, count |-> attempt[a].size, result |-> IF kind = "package" THEN a ELSE 0]

CountersOnly(a) == NoRef

TerminalDetail(a) == resultRef(a)

ReportTerminal(a) ==
  /\ At(a, "log")
  /\ events' = Append(events, TerminalDetail(a))
  /\ Goto(a, IF resultRef(a) = NoRef THEN "done" ELSE "readAgain")
  /\ UNCHANGED <<kind, status, ref, persisted, failures, completedBy, overlaps>>

(***************************************************************************)
(* A statement fails, or the server or the worker goes down.               *)
(***************************************************************************)
ReportFails(a) ==
  /\ a \in InFlight
  /\ failures < MaxFailures
  /\ failures' = failures + 1
  /\ attempt' = [attempt EXCEPT ![a].pc = "dead", ![a].died = attempt[a].pc,
                                 ![a].seen = NoRef]
  /\ UNCHANGED <<kind, status, ref, events, persisted, completedBy, overlaps>>

(***************************************************************************)
(* The sweeper fails the job when its last lease has run out.              *)
(***************************************************************************)
MarkFailed ==
  /\ status = Running
  /\ \A a \in Attempts : ~At(a, "waiting")
  /\ status' = Failed
  /\ completedBy' = 0
  /\ UNCHANGED <<kind, ref, events, persisted, attempt, failures, overlaps>>

Report(a) ==
  \/ persistReviewCandidates(a)
  \/ ReportEvent(a)
  \/ StoreResultRefGet(a, "read", "write")
  \/ StoreResultRefWrite(a, EventDetail(a), "write", "check")
  \/ CompleteGet(a)
  \/ Complete(a)
  \/ ReportTerminal(a)
  \/ StoreResultRefGet(a, "readAgain", "writeAgain")
  \/ StoreResultRefWrite(a, resultRef(a), "writeAgain", "done")

Next ==
  \/ \E a \in Attempts :
       \/ \E size \in Sizes, ok \in BOOLEAN : HandlerEnds(a, size, ok)
       \/ Report(a)
       \/ ReportFails(a)
  \/ MarkFailed

Spec == Init /\ [][Next]_vars

-----------------------------------------------------------------------------
(***************************************************************************)
(* GetJob shows the row's reference; a row without one is made up for from *)
(* the events, each key from the newest event that has it, where a count   *)
(* of 0 is taken for none.                                                 *)
(***************************************************************************)
Newest(S) == CHOOSE i \in S : \A j \in S : j <= i

CountOfOldest ==
  LET results == {i \in DOMAIN events : events[i].result # 0}
  IN [type   |-> IF results = {} THEN "none" ELSE kind,
      count  |-> IF events = <<>> THEN 0 ELSE events[1].count,
      result |-> IF results = {} THEN 0 ELSE events[Newest(results)].result]

extractResultRef ==
  LET typed   == {i \in DOMAIN events : events[i].type # "none"}
      counts  == {i \in DOMAIN events : events[i].count # 0}
      results == {i \in DOMAIN events : events[i].result # 0}
  IN [type   |-> IF typed = {} THEN "none" ELSE events[Newest(typed)].type,
      count  |-> IF counts = {} THEN 0 ELSE events[Newest(counts)].count,
      result |-> IF results = {} THEN 0 ELSE events[Newest(results)].result]

GetJob == IF ref # NoRef THEN ref ELSE extractResultRef

-----------------------------------------------------------------------------
(***************************************************************************)
(* ReportEvent, StoreResultRef, GetJob: once an event has named a result,  *)
(* the job names one for ever, whichever merges of overlapping reports are *)
(* lost and wherever a report is cut short.                                *)
(***************************************************************************)
ResultStaysNamed ==
  (\E i \in DOMAIN events : events[i].result # 0) => GetJob.result # 0

(***************************************************************************)
(* ReportTerminal: a job that was completed with a result, as a success or *)
(* as a failure, names a result from the moment its status says so.  The   *)
(* exception are packages, which are named only after Complete: there the  *)
(* report may be at that point, or have been cut short exactly there.      *)
(***************************************************************************)
CompletedNamesResult ==
  completedBy # 0 =>
    \/ ~Found(completedBy)
    \/ GetJob.result # 0
    \/ kind = "package" /\ \/ At(completedBy, "log")
                           \/ attempt[completedBy].died = "log"

(***************************************************************************)
(* mergeResultRefs, extractResultRef: count and result that a job shows    *)
(* are of one attempt, unless attempts reported at the same time. A        *)
(* cleaning report that flags nothing is the exception as long as its      *)
(* reference is not in the row: among the events its count of 0 is taken   *)
(* for none, and the count of an earlier report is shown with it.          *)
(***************************************************************************)
EmptyReportUnstored(a) == kind = "cleaning" /\ ref = NoRef /\ attempt[a].size = 0

ResultOfOneAttempt ==
  overlaps = {} /\ GetJob.result # 0 =>
    \/ GetJob.count = attempt[GetJob.result].size
    \/ EmptyReportUnstored(GetJob.result)

StrayOnlyByRetry ==
  \A a \in persisted :
    \/ GetJob.result = a
    \/ attempt[a].pc \in {"append", "dead"}
    \/ \E b \in persisted : b # a

NamedIsPersisted ==
  kind = "candidates" /\ GetJob.result # 0 => GetJob.result \in persisted

(***************************************************************************)
(* persistReviewCandidates: whatever a job of candidates names has been    *)
(* persisted, so a reviewer finds it; and candidates that wait for a       *)
(* reviewer are the ones their job names, unless their attempt is still on *)
(* its way there or was cut short, or the job was run again and proposed   *)
(* others.                                                                 *)
(***************************************************************************)
CandidatesMatchJob == NamedIsPersisted /\ StrayOnlyByRetry

=============================================================================
