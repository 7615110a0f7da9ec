------------------------ MODULE AnnotationWorkspace ------------------------
(***************************************************************************)
(* One annotation task and its draft: internal/tasks and                   *)
(* internal/annotations on Postgres, used through the workspace page.      *)
(*                                                                         *)
(* The draft's body is the number of the save that wrote it.  A page shows *)
(* the revision and the body it was last given, and sends that revision as *)
(* base_revision.  SaveDraft and Submit are transactions that lock the row *)
(* of the draft, one step each.  A submission and a transition of the task *)
(* are several statements without a transaction: a request in flight       *)
(* occupies a slot of req, with the statement it issues next and what it   *)
(* has read.  A request that only reads and is refused changes nothing and *)
(* is no step.  The task has an asset and a snapshot, which never change.  *)
(***************************************************************************)
EXTENDS Naturals

CONSTANTS Editors,      \* open pages of the workspace
          Requests,     \* slots for submissions and transitions in flight
          MaxSaves,     \* bound on accepted saves
          MaxFailures   \* bound on requests cut short

ASSUME WorkspaceAssumption == MaxSaves \in Nat /\ MaxFailures \in Nat

VARIABLES task,       \* status of the task
          state,      \* state of the draft row
          revision,   \* its revision, 0 without a row
          body,       \* its body, 0 when empty
          page,       \* per editor: the revision and body shown
          req,        \* per slot: next statement and what was read
          saves,      \* number of accepted saves
          reached,    \* history: the task has been "submitted"
          refused,    \* history: the task refused to follow a submission
          failures    \* number of requests cut short

draftVars == <<state, revision, body>>
vars == <<task, state, revision, body, page, req, saves, reached, refused, failures>>

TaskStatuses == {"queued", "ready", "in_progress", "blocked", "submitted",
                 "reviewing", "rework_required", "accepted", "published", "closed"}

allowedTransitions ==
    [queued          |-> {"ready"},
     ready           |-> {"in_progress", "blocked"},
     in_progress     |-> {"blocked", "submitted", "closed"},
     blocked         |-> {"ready", "in_progress"},
     submitted       |-> {"reviewing", "blocked"},
     reviewing       |-> {"rework_required", "accepted", "blocked"},
     rework_required |-> {"in_progress", "blocked"},
     accepted        |-> {"published", "blocked"},
     published       |-> {"closed"},
     closed          |-> {}]

isAllowedTransition(from, to) == from \in TaskStatuses /\ to \in allowedTransitions[from]

Idle == [pc |-> "idle", read |-> "absent", to |-> "absent"]

\* What GetWorkspace gives; without a row it is the synthetic draft of revision 0.
Shown == [revision |-> revision, body |-> body]

Init ==
    /\ task = "absent"
    /\ state = "none" /\ revision = 0 /\ body = 0
    /\ page = [e \in Editors |-> [revision |-> 0, body |-> 0]]
    /\ req = [s \in Requests |-> Idle]
    /\ saves = 0 /\ reached = FALSE /\ refused = FALSE /\ failures = 0

\* A task is created in any status its caller names.
CreateTask(st) ==
    /\ task = "absent"
    /\ task' = st
    /\ reached' = (reached \/ st = "submitted")
    /\ UNCHANGED <<draftVars, page, req, saves, refused, failures>>

GetWorkspace(e) ==
    /\ task # "absent"
    /\ page' = [page EXCEPT ![e] = Shown]
    /\ UNCHANGED <<task, draftVars, req, saves, reached, refused, failures>>

OverwriteOlder(base) ==
    \/ state = "none"
    \/ state = "draft" /\ base <= revision

OverwriteSubmitted(base) ==
    state # "none" /\ base > 0 => base = revision

\* The checks of the transaction: no row yet, or a draft at the base revision; a base
\* revision of 0 is not compared.
MayOverwrite(base) ==
    \/ state = "none"
    \/ state = "draft" /\ (base > 0 => base = revision)

NextRevision == revision + 1

\* The save of an editor, and its answer, which may be lost.
SaveWorkspaceDraft(e, answered) ==
    /\ task # "absent"
    /\ saves < MaxSaves
    /\ MayOverwrite(page[e].revision)
    /\ saves' = saves + 1
    /\ state' = "draft"
    /\ revision' = NextRevision
    /\ body' = saves + 1
    /\ page' = IF answered
               THEN [page EXCEPT ![e] = [revision |-> revision', body |-> body']]
               ELSE page
    /\ UNCHANGED <<task, req, reached, refused, failures>>

\* A submission reads the task first.
SubmitWorkspace(s) ==
    /\ req[s] = Idle
    /\ task # "absent"
    /\ req' = [req EXCEPT ![s] = [pc |-> "submit", read |-> task, to |-> "submitted"]]
    /\ UNCHANGED <<task, draftVars, page, saves, reached, refused, failures>>

TaskStays(r) == Idle

\* After the draft the task follows, unless it was "submitted" when it was read.
TaskFollows(r) == IF r.read = "submitted" THEN Idle ELSE [r EXCEPT !.pc = "get"]

\* The transaction on the draft: idempotent, refused without a row.
Submit(s) ==
    /\ req[s].pc = "submit"
    /\ \/ /\ state = "none"
          /\ req' = [req EXCEPT ![s] = Idle]
          /\ UNCHANGED draftVars
       \/ /\ state # "none"
          /\ state' = "submitted"
          /\ revision' = IF state = "submitted" THEN revision ELSE revision + 1
          /\ UNCHANGED body
          /\ req' = [req EXCEPT ![s] = TaskFollows(@)]
    /\ UNCHANGED <<task, page, saves, reached, refused, failures>>

AlwaysAllowed(to) == TRUE

MayTransition(to) == isAllowedTransition(task, to)

\* TransitionTask as called by a submission: its read and its check.
TransitionGet(s) ==
    /\ req[s].pc = "get"
    /\ \/ /\ MayTransition("submitted")
          /\ req' = [req EXCEPT ![s] = [pc |-> "write", read |-> task, to |-> "submitted"]]
          /\ UNCHANGED refused
       \/ /\ ~MayTransition("submitted")
          /\ req' = [req EXCEPT ![s] = Idle]
          /\ refused' = TRUE
    /\ UNCHANGED <<task, draftVars, page, saves, reached, failures>>

\* The legacy status of an annotation task is accepted as another name.
CurrentName(to) == IF to = "done" THEN "submitted" ELSE to

\* TransitionTask as a request of its own: its read and its check.
TransitionTask(s, to) ==
    /\ req[s] = Idle
    /\ MayTransition(CurrentName(to))
    /\ req' = [req EXCEPT ![s] = [pc |-> "write", read |-> task, to |-> CurrentName(to)]]
    /\ UNCHANGED <<task, draftVars, page, saves, reached, refused, failures>>

\* The update of the row, by id only.
TransitionWrite(s) ==
    /\ req[s].pc = "write"
    /\ task' = req[s].to
    /\ reached' = (reached \/ req[s].to = "submitted")
    /\ req' = [req EXCEPT ![s] = Idle]
    /\ UNCHANGED <<draftVars, page, saves, refused, failures>>

\* The request ends between two statements: an error, a timeout, a crash.
RequestFails(s) ==
    /\ req[s] # Idle
    /\ failures < MaxFailures
    /\ req' = [req EXCEPT ![s] = Idle]
    /\ failures' = failures + 1
    /\ UNCHANGED <<task, draftVars, page, saves, reached, refused>>

Next ==
    \/ \E st \in TaskStatuses : CreateTask(st)
    \/ \E e \in Editors : \/ GetWorkspace(e)
                          \/ \E answered \in BOOLEAN : SaveWorkspaceDraft(e, answered)
    \/ \E s \in Requests : \/ SubmitWorkspace(s)
                           \/ Submit(s)
                           \/ TransitionGet(s)
                           \/ \E to \in TaskStatuses \cup {"done"} : TransitionTask(s, to)
                           \/ TransitionWrite(s)
                           \/ RequestFails(s)

Spec == Init /\ [][Next]_vars

-----------------------------------------------------------------------------
ReqType == [pc : {"idle", "submit", "get", "write"},
            read : TaskStatuses \cup {"absent"},
            to : TaskStatuses \cup {"absent"}]

(* Every column, page and request in flight has a value the code can give it. *)
TypeOK ==
    /\ task \in TaskStatuses \cup {"absent"}
    /\ state \in {"none", "draft", "submitted"}
    /\ revision \in Nat /\ body \in Nat
    /\ page \in [Editors -> [revision : Nat, body : Nat]]
    /\ req \in [Requests -> ReqType]
    /\ saves \in Nat /\ failures \in Nat
    /\ reached \in BOOLEAN /\ refused \in BOOLEAN

(* A revision stands for one body: a page at the current revision of a draft shows the   *)
(* current body, whatever saves and lost answers came before.  The check of base_revision *)
(* in SaveDraft is worth something only because of this.                                  *)
RevisionNamesBody ==
    \A e \in Editors : page[e].revision = revision => page[e].body = body

(* No save is overwritten by somebody who did not see it: the body changes only by a save *)
(* of an editor whose page shows the body it replaces, or whose page is still the empty    *)
(* workspace of revision 0, which SaveDraft does not compare.                              *)
OverwritesOnlyWhatWasSeen ==
    [][body' # body => \E e \in Editors : /\ SaveWorkspaceDraft(e, TRUE) \/ SaveWorkspaceDraft(e, FALSE)
                                          /\ page[e].body = body \/ page[e].revision = 0]_vars

(* Once submitted, a draft keeps its body and its revision: no page that was opened before *)
(* the submission, and no second submission, changes what is reviewed.                     *)
SubmittedIsFrozen ==
    [][state = "submitted" => UNCHANGED draftVars]_vars

(* A submitted draft takes its task along: the task has been "submitted", or a request is  *)
(* about to move it, or it was in a status that has no such edge, or a request was cut     *)
(* short between the two.                                                                  *)
SubmissionMovesTask ==
    state = "submitted" =>
        \/ reached
        \/ \E s \in Requests : req[s].pc \in {"get", "write"} /\ req[s].to = "submitted"
        \/ refused
        \/ failures > 0

(* The task leaves the transition table only by an update that was overtaken: the status   *)
(* changed between the check in the service and the unconditional update.                  *)
OffTableOnlyWhenOvertaken ==
    [][/\ task # "absent"
       /\ task' # task
       => \/ isAllowedTransition(task, task')
          \/ \E s \in Requests : TransitionWrite(s) /\ req[s].read # task]_vars
=============================================================================
