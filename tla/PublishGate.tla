---------------------------- MODULE PublishGate ----------------------------
(***************************************************************************)
(* The publish gate of internal/publish on PostgresRepository: a batch of  *)
(* items is reviewed, may be edited by its owner (which voids the review), *)
(* and is published by the owner's approval, which inserts a publish       *)
(* record and then creates a downstream task.                              *)
(*                                                                         *)
(* Each operation first loads the batch and checks its status in the       *)
(* service; the repository then changes it in a transaction of its own     *)
(* that does not look at the status again.  Check and transaction are two  *)
(* steps.  Batches share no state, so one batch is modelled.               *)
(*                                                                         *)
(* What a set of items is does not matter, only which edit put it there:   *)
(* an item is the number of the ReplaceBatchItems call it came with, 0 for *)
(* CreateBatch.  A record refers to its batch and copies no items, so what *)
(* is published is what the batch holds.  Feedback rows are not modelled:  *)
(* nothing is decided on them.                                             *)
(***************************************************************************)
EXTENDS Naturals, FiniteSets

CONSTANTS
  Requests,     \* slots for HTTP requests in flight at the same time
  MaxEdits,     \* bound: ReplaceBatchItems calls
  MaxRecords,   \* bound: owner approvals are submitted while below it
  MaxFailures   \* bound: statements that fail in one behaviour

ASSUME PublishGateAssumption ==
  /\ IsFiniteSet(Requests)
  /\ MaxEdits \in Nat
  /\ MaxRecords \in Nat
  /\ MaxFailures \in Nat

VARIABLES
  status,    \* publish_batches.status
  items,     \* publish_batch_items of the batch
  edits,     \* how many edits have been submitted
  records,   \* how many publish_records the batch has
  tasks,     \* how many downstream tasks were created for them
  reviewed,  \* history: the contents the batch had when a reviewer approved it
  req,       \* the requests in flight
  failures,  \* how many statements have failed
  overlaps   \* history: the requests that were between their check and their
             \* transaction when another one was let past its check

vars == <<status, items, edits, records, tasks, reviewed, req, failures, overlaps>>

Absent                == "absent"
Draft                 == "draft"
ReviewPending         == "review_pending"
ReviewApproved        == "review_approved"
OwnerPending          == "owner_pending"
OwnerChangesRequested == "owner_changes_requested"
Rejected              == "rejected"
Published             == "published"
Superseded            == "superseded"

Statuses == {Draft, ReviewPending, ReviewApproved, OwnerPending, OwnerChangesRequested,
             Rejected, Published, Superseded}

Decisions == {"approve", "reject", "rework"}

Idle == [pc |-> "idle"]

(***************************************************************************)
(* A request in flight: the statement it issues next, the status of the    *)
(* batch it loaded, and what it is to write.                               *)
(***************************************************************************)
Request ==
  [pc: {"delete", "replace"}, read: Statuses, edit: Nat, victims: SUBSET Nat]
    \union [pc: {"review", "owner"}, read: Statuses, decision: Decisions]
    \union [pc: {"task"}]

TypeOK ==
  /\ status \in Statuses \union {Absent}
  /\ items \in SUBSET Nat
  /\ edits \in Nat
  /\ records \in Nat
  /\ tasks \in Nat
  /\ reviewed \in SUBSET (SUBSET Nat)
  /\ failures \in Nat
  /\ overlaps \subseteq Requests
  /\ \A s \in Requests : req[s] \in Request \union {Idle}

Init ==
  /\ status = Absent
  /\ items = {}
  /\ edits = 0
  /\ records = 0
  /\ tasks = 0
  /\ reviewed = {}
  /\ req = [s \in Requests |-> Idle]
  /\ failures = 0
  /\ overlaps = {}

-----------------------------------------------------------------------------
CreateBatch ==
  /\ status = Absent
  /\ status' = Draft
  /\ items' = {0}
  /\ UNCHANGED <<edits, records, tasks, reviewed, req, failures, overlaps>>

Return(s) == req' = [req EXCEPT ![s] = Idle]

PastCheck(s) == req[s].pc \in {"delete", "replace", "review", "owner"}

OthersPastCheck(s) == {t \in Requests \ {s} : PastCheck(t)}

(***************************************************************************)
(* ReplaceBatchItems.  The transaction begins with the delete, which works *)
(* on the rows it sees when it starts; only afterwards does it lock the    *)
(* batch, insert its own items, void the review and commit.                *)
(***************************************************************************)
isEditableStatus(st) ==
  st \in {Draft, ReviewPending, ReviewApproved, OwnerPending, OwnerChangesRequested}

ReplaceBatchItems(s) ==
  /\ req[s] = Idle
  /\ isEditableStatus(status)
  /\ edits < MaxEdits
  /\ edits' = edits + 1
  /\ req' = [req EXCEPT ![s] = [pc |-> "delete", read |-> status,
                                edit |-> edits + 1, victims |-> {}]]
  /\ overlaps' = overlaps \union OthersPastCheck(s)
  /\ UNCHANGED <<status, items, records, tasks, reviewed, failures>>

Victims == items

DeleteItems(s) ==
  /\ req[s].pc = "delete"
  /\ req' = [req EXCEPT ![s].pc = "replace", ![s].victims = Victims]
  /\ UNCHANGED <<status, items, edits, records, tasks, reviewed, failures, overlaps>>

ReviewKept == status

ReviewVoided == OwnerChangesRequested

CommitReplace(s) ==
  /\ req[s].pc = "replace"
  /\ items' = (items \ req[s].victims) \union {req[s].edit}
  /\ status' = ReviewVoided
  /\ Return(s)
  /\ UNCHANGED <<edits, records, tasks, reviewed, failures, overlaps>>

(***************************************************************************)
(* ReviewApprove, ReviewReject, ReviewRework.                              *)
(***************************************************************************)
AlwaysReviewable(st) == st # Absent

isReviewable(st) == st \notin {Absent, Published, Rejected, Superseded}

ReviewDecision(s, decision) ==
  /\ req[s] = Idle
  /\ isReviewable(status)
  /\ req' = [req EXCEPT ![s] = [pc |-> "review", read |-> status, decision |-> decision]]
  /\ overlaps' = overlaps \union OthersPastCheck(s)
  /\ UNCHANGED <<status, items, edits, records, tasks, reviewed, failures>>

reviewStatus(decision) ==
  CASE decision = "approve" -> ReviewApproved
    [] decision = "reject"  -> Rejected
    [] decision = "rework"  -> OwnerChangesRequested

ApplyReviewDecision(s) ==
  /\ req[s].pc = "review"
  /\ status' = reviewStatus(req[s].decision)
  /\ reviewed' = IF req[s].decision = "approve" THEN reviewed \union {items} ELSE reviewed
  /\ Return(s)
  /\ UNCHANGED <<items, edits, records, tasks, failures, overlaps>>

(***************************************************************************)
(* OwnerApprove, OwnerReject, OwnerRework.  The record and the status are  *)
(* one transaction; the downstream task is created after its commit.       *)
(***************************************************************************)
ReadyWhenReviewable(st) == isReviewable(st)

readyForOwner(st) == st \in {ReviewApproved, OwnerPending}

OwnerDecision(s, decision) ==
  /\ req[s] = Idle
  /\ readyForOwner(status)
  /\ decision = "approve" => records < MaxRecords
  /\ req' = [req EXCEPT ![s] = [pc |-> "owner", read |-> status, decision |-> decision]]
  /\ overlaps' = overlaps \union OthersPastCheck(s)
  /\ UNCHANGED <<status, items, edits, records, tasks, reviewed, failures>>

NoFollowUp == Idle

FollowUp == [pc |-> "task"]

ApplyOwnerApproval(s) ==
  /\ req[s].pc = "owner"
  /\ req[s].decision = "approve"
  /\ records' = records + 1
  /\ status' = Published
  /\ req' = [req EXCEPT ![s] = FollowUp]
  /\ UNCHANGED <<items, edits, tasks, reviewed, failures, overlaps>>

ApplyOwnerRefusal(s) ==
  /\ req[s].pc = "owner"
  /\ req[s].decision # "approve"
  /\ status' = IF req[s].decision = "reject" THEN Rejected ELSE OwnerChangesRequested
  /\ Return(s)
  /\ UNCHANGED <<items, edits, records, tasks, reviewed, failures, overlaps>>

CreateTask(s) ==
  /\ req[s].pc = "task"
  /\ tasks' = tasks + 1
  /\ Return(s)
  /\ UNCHANGED <<status, items, edits, records, reviewed, failures, overlaps>>

(***************************************************************************)
(* A statement fails or the server goes down: an open transaction is       *)
(* rolled back, a committed one stays.                                     *)
(***************************************************************************)
RequestFails(s) ==
  /\ req[s] # Idle
  /\ failures < MaxFailures
  /\ failures' = failures + 1
  /\ Return(s)
  /\ UNCHANGED <<status, items, edits, records, tasks, reviewed, overlaps>>

-----------------------------------------------------------------------------
Next ==
  \/ CreateBatch
  \/ \E s \in Requests :
       \/ ReplaceBatchItems(s) \/ DeleteItems(s) \/ CommitReplace(s)
       \/ \E d \in Decisions : ReviewDecision(s, d) \/ OwnerDecision(s, d)
       \/ ApplyReviewDecision(s)
       \/ ApplyOwnerApproval(s) \/ ApplyOwnerRefusal(s) \/ CreateTask(s)
       \/ RequestFails(s)

Spec == Init /\ [][Next]_vars

-----------------------------------------------------------------------------
(***************************************************************************)
(* A batch that shows as review-approved holds exactly what a reviewer     *)
(* approved: every edit that commits after the approval voids it, in any   *)
(* interleaving of edits and reviews.                                      *)
(***************************************************************************)
ApprovalIsOfContent == status = ReviewApproved => items \in reviewed

(***************************************************************************)
(* Every publish record has its downstream task, or the request that will  *)
(* create it is under way, or that request failed.                         *)
(***************************************************************************)
CreatingTask == {s \in Requests : req[s].pc = "task"}

RecordsGetTasks == records <= tasks + Cardinality(CreatingTask) + failures

(***************************************************************************)
(* A published batch leaves that status only in the transaction of a       *)
(* request that loaded the batch before it was published: a request that   *)
(* arrives later is turned away by the service, so without an overlap a    *)
(* publication is final.                                                   *)
(***************************************************************************)
Overtaken ==
  \E s \in Requests : /\ req[s].pc \in {"replace", "review", "owner"}
                      /\ req[s].read # Published
                      /\ req'[s] = Idle

PublishedLeftOnlyWhenOvertaken ==
  [][status = Published /\ status' # Published => Overtaken]_vars

PublishedContentReviewed == records > 0 => items \in reviewed

PublishedOnce == records <= 1

ItemsOfOneEdit == \A i, j \in items : i = j

(***************************************************************************)
(* The design's hard rule (7.3): all content that ends up in a publish     *)
(* record must have been confirmed by the reviewer, also after an edit by  *)
(* the owner. With it, a batch is published at most once, whatever fails   *)
(* in between, and holds the items of one ReplaceBatchItems call, never a  *)
(* mixture. All three hold as long as no request was let past its check    *)
(* while another one was on its way to its transaction.                    *)
(***************************************************************************)
SerialPublishing ==
  overlaps = {} => PublishedContentReviewed /\ PublishedOnce /\ ItemsOfOneEdit
=============================================================================
