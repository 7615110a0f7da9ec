-------------------------- MODULE PublishGateProofs --------------------------
(***************************************************************************)
(* Proofs about PublishGate for every number of requests in flight, edits, *)
(* approvals and failures.                                                 *)
(***************************************************************************)
EXTENDS PublishGate, FiniteSetTheorems, TLAPS

(***************************************************************************)
(* A request past its check loaded a batch that was there and that it was  *)
(* allowed to change.                                                      *)
(***************************************************************************)
LoadedInTime ==
  \A s \in Requests :
    req[s].pc \in {"delete", "replace", "review", "owner"} => req[s].read # Published

TypeInv == TypeOK /\ req = [s \in Requests |-> req[s]]

Inv == TypeInv /\ ApprovalIsOfContent /\ LoadedInTime

(***************************************************************************)
(* The status strings are different from one another.                      *)
(***************************************************************************)
LEMMA StatusesDistinct ==
  /\ ReviewApproved # Absent /\ ReviewApproved # Draft
  /\ ReviewApproved # OwnerChangesRequested /\ ReviewApproved # Rejected
  /\ ReviewApproved # Published /\ Published # Absent
  /\ Published # Draft /\ Published # ReviewPending /\ Published # OwnerPending
  /\ Published # OwnerChangesRequested /\ Published # Rejected
BY DEF Absent, Draft, ReviewPending, ReviewApproved, OwnerPending, OwnerChangesRequested,
       Rejected, Published

(***************************************************************************)
(* The gate starts in the invariant: nothing is in flight, no batch yet.   *)
(***************************************************************************)
LEMMA InitInv == Init => Inv
BY DEF Init, Inv, TypeInv, TypeOK, ApprovalIsOfContent, LoadedInTime, Statuses, Idle, Absent,
       ReviewApproved

(***************************************************************************)
(* Every check and every transaction keeps variables and requests typed.   *)
(***************************************************************************)
LEMMA TypeStep == TypeInv /\ [Next]_vars => TypeInv'
<1> SUFFICES ASSUME TypeInv, [Next]_vars
             PROVE  TypeInv'
  OBVIOUS
<1> USE DEF TypeInv, TypeOK
<1>0. Idle.pc = "idle"
  BY DEF Idle
<1>1. CASE UNCHANGED vars
  BY <1>1 DEF vars
<1>2. CASE CreateBatch
  BY <1>2 DEF CreateBatch, Statuses
<1>3. ASSUME NEW s \in Requests, ReplaceBatchItems(s) PROVE TypeInv'
  <2>1. status \in Statuses
    BY <1>3 DEF ReplaceBatchItems, isEditableStatus, Statuses
  <2>2. req'[s] \in Request
    BY <1>3, <2>1 DEF ReplaceBatchItems, Request
  <2>3. \A t \in Requests : t # s => req'[t] = req[t]
    BY <1>3 DEF ReplaceBatchItems
  <2>4. req' = [t \in Requests |-> req'[t]]
    BY <1>3 DEF ReplaceBatchItems
  <2>5. UNCHANGED <<status, items, records, tasks, reviewed, failures>> /\ edits' \in Nat
    BY <1>3 DEF ReplaceBatchItems
  <2>6. overlaps' \subseteq Requests
    BY <1>3 DEF ReplaceBatchItems, OthersPastCheck
  <2> QED  BY <2>2, <2>3, <2>4, <2>5, <2>6
<1>4. ASSUME NEW s \in Requests, DeleteItems(s) PROVE TypeInv'
  <2>1. req[s] \in [pc: {"delete", "replace"}, read: Statuses, edit: Nat, victims: SUBSET Nat]
    BY <1>0, <1>4 DEF DeleteItems, Request
  <2>2. req'[s] = [req[s] EXCEPT !.pc = "replace", !.victims = items]
    BY <1>4, <2>1 DEF DeleteItems, Victims
  <2>3. req'[s] \in Request
    BY <2>1, <2>2 DEF Request
  <2> QED  BY <1>4, <2>3 DEF DeleteItems
<1>5. ASSUME NEW s \in Requests, CommitReplace(s) PROVE TypeInv'
  <2>1. req[s].edit \in Nat
    BY <1>0, <1>5 DEF CommitReplace, Request
  <2> QED  BY <1>5, <2>1 DEF CommitReplace, Return, ReviewVoided, Statuses
<1>6. ASSUME NEW s \in Requests, NEW d \in Decisions, ReviewDecision(s, d) PROVE TypeInv'
  <2>1. req'[s] \in Request
    BY <1>6 DEF ReviewDecision, Request, isReviewable
  <2>2. overlaps' \subseteq Requests
    BY <1>6 DEF ReviewDecision, OthersPastCheck
  <2> QED  BY <1>6, <2>1, <2>2 DEF ReviewDecision
<1>7. ASSUME NEW s \in Requests, NEW d \in Decisions, OwnerDecision(s, d) PROVE TypeInv'
  <2>1. req'[s] \in Request
    BY <1>7 DEF OwnerDecision, Request, readyForOwner, Statuses
  <2>2. overlaps' \subseteq Requests
    BY <1>7 DEF OwnerDecision, OthersPastCheck
  <2> QED  BY <1>7, <2>1, <2>2 DEF OwnerDecision
<1>8. ASSUME NEW s \in Requests, ApplyReviewDecision(s) PROVE TypeInv'
  <2>1. req[s].decision \in Decisions
    BY <1>0, <1>8 DEF ApplyReviewDecision, Request
  <2>2. status' \in Statuses
    BY <1>8, <2>1 DEF ApplyReviewDecision, reviewStatus, Decisions, Statuses
  <2> QED  BY <1>8, <2>2 DEF ApplyReviewDecision, Return
<1>9. ASSUME NEW s \in Requests, ApplyOwnerApproval(s) PROVE TypeInv'
  <2>1. FollowUp \in Request
    BY DEF FollowUp, Request
  <2> QED  BY <1>9, <2>1 DEF ApplyOwnerApproval, Statuses
<1>10. ASSUME NEW s \in Requests, ApplyOwnerRefusal(s) PROVE TypeInv'
  BY <1>10 DEF ApplyOwnerRefusal, Return, Statuses
<1>11. ASSUME NEW s \in Requests, CreateTask(s) PROVE TypeInv'
  BY <1>11 DEF CreateTask, Return
<1>12. ASSUME NEW s \in Requests, RequestFails(s) PROVE TypeInv'
  BY <1>12 DEF RequestFails, Return
<1> QED
  BY <1>1, <1>2, <1>3, <1>4, <1>5, <1>6, <1>7, <1>8, <1>9, <1>10, <1>11, <1>12 DEF Next

(***************************************************************************)
(* No step lets a request past the check of a published batch.             *)
(***************************************************************************)
LEMMA LoadedStep == TypeInv /\ LoadedInTime /\ [Next]_vars => LoadedInTime'
<1> SUFFICES ASSUME TypeInv, LoadedInTime, [Next]_vars, NEW t \in Requests,
                    req'[t].pc \in {"delete", "replace", "review", "owner"}
             PROVE  req'[t].read # Published
  BY DEF LoadedInTime
<1> USE StatusesDistinct DEF LoadedInTime
<1>0. Idle.pc = "idle" /\ FollowUp.pc = "task" /\ req = [s \in Requests |-> req[s]]
  BY DEF Idle, FollowUp, TypeInv
<1>1. CASE UNCHANGED vars \/ CreateBatch
  BY <1>1 DEF vars, CreateBatch
<1>2. ASSUME NEW s \in Requests, ReplaceBatchItems(s) PROVE req'[t].read # Published
  BY <1>0, <1>2 DEF ReplaceBatchItems, isEditableStatus
<1>3. ASSUME NEW s \in Requests, DeleteItems(s) PROVE req'[t].read # Published
  <2>1. CASE t # s  BY <1>0, <1>3, <2>1 DEF DeleteItems
  <2>2. CASE t = s
    <3>1. req[s] \in [pc: {"delete", "replace"}, read: Statuses, edit: Nat, victims: SUBSET Nat]
      BY <1>0, <1>3 DEF DeleteItems, Request, TypeInv, TypeOK
    <3>2. req'[s] = [req[s] EXCEPT !.pc = "replace", !.victims = items]
      BY <1>0, <1>3, <3>1 DEF DeleteItems, Victims
    <3>3. req[s].read # Published
      BY <1>3 DEF DeleteItems
    <3>4. req'[s].read = req[s].read
      BY <3>1, <3>2
    <3> QED  BY <2>2, <3>3, <3>4
  <2> QED  BY <2>1, <2>2
<1>4. ASSUME NEW s \in Requests, NEW d \in Decisions, ReviewDecision(s, d)
      PROVE  req'[t].read # Published
  BY <1>0, <1>4 DEF ReviewDecision, isReviewable
<1>5. ASSUME NEW s \in Requests, NEW d \in Decisions, OwnerDecision(s, d)
      PROVE  req'[t].read # Published
  BY <1>0, <1>5 DEF OwnerDecision, readyForOwner
<1>6. ASSUME NEW s \in Requests, Return(s) \/ req' = [req EXCEPT ![s] = FollowUp]
      PROVE  req'[t].read # Published
  BY <1>0, <1>6 DEF Return
<1>7. ASSUME NEW s \in Requests,
             \/ CommitReplace(s) \/ ApplyReviewDecision(s) \/ ApplyOwnerApproval(s)
             \/ ApplyOwnerRefusal(s) \/ CreateTask(s) \/ RequestFails(s)
      PROVE  req'[t].read # Published
  BY <1>6, <1>7 DEF CommitReplace, ApplyReviewDecision, ApplyOwnerApproval, ApplyOwnerRefusal,
                    CreateTask, RequestFails
<1> QED
  BY <1>1, <1>2, <1>3, <1>4, <1>5, <1>7 DEF Next

(***************************************************************************)
(* The items change only in CommitReplace, which voids the review in the   *)
(* same transaction; the status becomes review_approved only when the      *)
(* items of that moment enter the history.                                 *)
(***************************************************************************)
LEMMA ApprovalStep == TypeInv /\ ApprovalIsOfContent /\ [Next]_vars => ApprovalIsOfContent'
<1> SUFFICES ASSUME TypeInv, ApprovalIsOfContent, [Next]_vars, status' = ReviewApproved
             PROVE  items' \in reviewed'
  BY DEF ApprovalIsOfContent
<1> USE StatusesDistinct DEF ApprovalIsOfContent
<1>1. CASE UNCHANGED vars \/ CreateBatch
  BY <1>1 DEF vars, CreateBatch
<1>2. ASSUME NEW s \in Requests, CommitReplace(s) PROVE FALSE
  BY <1>2 DEF CommitReplace, ReviewVoided
<1>3. ASSUME NEW s \in Requests, ApplyReviewDecision(s) PROVE items' \in reviewed'
  <2>1. CASE req[s].decision = "approve"
    BY <1>3, <2>1 DEF ApplyReviewDecision
  <2>2. CASE req[s].decision # "approve"
    <3>1. req[s].decision \in Decisions
      BY <1>3 DEF ApplyReviewDecision, TypeInv, TypeOK, Request, Idle
    <3> QED  BY <1>3, <2>2, <3>1 DEF Decisions, ApplyReviewDecision, reviewStatus
  <2> QED  BY <2>1, <2>2
<1>4. ASSUME NEW s \in Requests, ApplyOwnerApproval(s) \/ ApplyOwnerRefusal(s) PROVE FALSE
  BY <1>4 DEF ApplyOwnerApproval, ApplyOwnerRefusal
<1>5. ASSUME UNCHANGED <<status, items, reviewed>> PROVE items' \in reviewed'
  BY <1>5
<1>6. ASSUME NEW s \in Requests,
             \/ ReplaceBatchItems(s) \/ DeleteItems(s) \/ CreateTask(s) \/ RequestFails(s)
             \/ \E d \in Decisions : ReviewDecision(s, d) \/ OwnerDecision(s, d)
      PROVE  items' \in reviewed'
  BY <1>5, <1>6 DEF ReplaceBatchItems, DeleteItems, CreateTask, RequestFails, ReviewDecision,
                    OwnerDecision
<1> QED
  BY <1>1, <1>2, <1>3, <1>4, <1>6 DEF Next

(***************************************************************************)
(* The invariant holds in every reachable state of the gate.               *)
(***************************************************************************)
THEOREM Invariance == Spec => []Inv
<1>1. Inv /\ [Next]_vars => Inv'
  BY TypeStep, LoadedStep, ApprovalStep DEF Inv
<1> QED  BY InitInv, <1>1, PTL DEF Spec

(***************************************************************************)
(* Batch, records and requests keep their types for any number of          *)
(* requests, edits and failures.                                           *)
(***************************************************************************)
THEOREM TypeCorrect == Spec => []TypeOK
BY Invariance, PTL DEF Inv, TypeInv

(***************************************************************************)
(* A batch that shows as review-approved holds what a reviewer approved,   *)
(* with any number of edits and reviews overlapping.                       *)
(***************************************************************************)
THEOREM ApprovalIsOfContentHolds == Spec => []ApprovalIsOfContent
BY Invariance, PTL DEF Inv

(***************************************************************************)
(* A published batch is reopened or rejected only by a request that loaded *)
(* it before it was published and returns in that very step.               *)
(***************************************************************************)
THEOREM PublishedLeftOnlyWhenOvertakenHolds == Spec => PublishedLeftOnlyWhenOvertaken
<1>1. ASSUME Inv, [Next]_vars, status = Published, status' # Published
      PROVE  Overtaken
  <2> USE StatusesDistinct
  <2>1. PICK s \in Requests :
          CommitReplace(s) \/ ApplyReviewDecision(s) \/ ApplyOwnerRefusal(s)
    <3>1. ASSUME UNCHANGED status PROVE FALSE
      BY <1>1, <3>1
    <3>2. ~CreateBatch
      BY <1>1 DEF CreateBatch
    <3>3. ASSUME NEW s \in Requests, ApplyOwnerApproval(s) PROVE FALSE
      BY <1>1, <3>3 DEF ApplyOwnerApproval
    <3>4. ASSUME NEW s \in Requests,
                 \/ ReplaceBatchItems(s) \/ DeleteItems(s) \/ CreateTask(s) \/ RequestFails(s)
                 \/ \E d \in Decisions : ReviewDecision(s, d) \/ OwnerDecision(s, d)
          PROVE  FALSE
      BY <3>1, <3>4 DEF ReplaceBatchItems, DeleteItems, CreateTask, RequestFails,
                        ReviewDecision, OwnerDecision
    <3>5. ~UNCHANGED vars
      BY <3>1 DEF vars
    <3> QED  BY <1>1, <3>2, <3>3, <3>4, <3>5 DEF Next
  <2>2. req'[s] = Idle
    BY <1>1, <2>1 DEF CommitReplace, ApplyReviewDecision, ApplyOwnerRefusal, Return, Inv, TypeInv
  <2>3. req[s].pc \in {"replace", "review", "owner"}
    BY <2>1 DEF CommitReplace, ApplyReviewDecision, ApplyOwnerRefusal
  <2>4. req[s].read # Published
    BY <1>1, <2>3 DEF Inv, LoadedInTime
  <2> QED  BY <2>2, <2>3, <2>4 DEF Overtaken
<1>2. Inv /\ [Next]_vars => [status = Published /\ status' # Published => Overtaken]_vars
  BY <1>1
<1> QED  BY Invariance, <1>2, PTL DEF Spec, PublishedLeftOnlyWhenOvertaken

(***************************************************************************)
(* How the set of requests about to create a task can change when one      *)
(* request s moves on and the others stay where they are.                  *)
(***************************************************************************)
LEMMA CreatingTaskChange ==
  ASSUME TypeInv, NEW s \in Requests, NEW r, req' = [req EXCEPT ![s] = r]
  PROVE  /\ IsFiniteSet(CreatingTask) /\ IsFiniteSet(CreatingTask')
         /\ CreatingTask' = IF r.pc = "task" THEN CreatingTask \union {s}
                                             ELSE CreatingTask \ {s}
<1>1. \A t \in Requests : req'[t] = IF t = s THEN r ELSE req[t]
  BY DEF TypeInv
<1>2. CreatingTask' = IF r.pc = "task" THEN CreatingTask \union {s} ELSE CreatingTask \ {s}
  BY <1>1 DEF CreatingTask
<1>3. IsFiniteSet(CreatingTask) /\ IsFiniteSet(CreatingTask')
  BY FS_Subset, PublishGateAssumption DEF CreatingTask
<1> QED  BY <1>2, <1>3

(***************************************************************************)
(* A step keeps the books of records, tasks, requests under way and        *)
(* failures balanced.                                                      *)
(***************************************************************************)
LEMMA RecordsStep == TypeInv /\ RecordsGetTasks /\ [Next]_vars => RecordsGetTasks'
<1> SUFFICES ASSUME TypeInv, RecordsGetTasks, [Next]_vars
             PROVE  RecordsGetTasks'
  OBVIOUS
<1>0. /\ Idle.pc = "idle" /\ FollowUp.pc = "task"
      /\ records \in Nat /\ tasks \in Nat /\ failures \in Nat
      /\ IsFiniteSet(CreatingTask) /\ Cardinality(CreatingTask) \in Nat
  <2>1. IsFiniteSet(CreatingTask)
    BY FS_Subset, PublishGateAssumption DEF CreatingTask
  <2> QED  BY <2>1, FS_CardinalityType DEF Idle, FollowUp, TypeInv, TypeOK
<1>1. ASSUME UNCHANGED <<records, tasks, failures>>, CreatingTask' = CreatingTask
      PROVE  RecordsGetTasks'
  BY <1>1 DEF RecordsGetTasks
<1>2. CASE UNCHANGED vars \/ CreateBatch
  BY <1>1, <1>2 DEF vars, CreateBatch, CreatingTask
<1>3. ASSUME NEW s \in Requests, NEW r, req' = [req EXCEPT ![s] = r],
             s \notin CreatingTask, r.pc # "task"
      PROVE  CreatingTask' = CreatingTask
  BY <1>3, CreatingTaskChange
<1>4. ASSUME NEW s \in Requests,
             \/ ReplaceBatchItems(s) \/ CommitReplace(s) \/ ApplyReviewDecision(s)
             \/ ApplyOwnerRefusal(s)
             \/ \E d \in Decisions : ReviewDecision(s, d) \/ OwnerDecision(s, d)
      PROVE  RecordsGetTasks'
  <2>1. s \notin CreatingTask
    BY <1>0, <1>4 DEF CreatingTask, ReplaceBatchItems, CommitReplace, ApplyReviewDecision,
                      ApplyOwnerRefusal, ReviewDecision, OwnerDecision
  <2>2. PICK r : req' = [req EXCEPT ![s] = r] /\ r.pc # "task"
    <3>1. CASE CommitReplace(s) \/ ApplyReviewDecision(s) \/ ApplyOwnerRefusal(s)
      BY <1>0, <3>1 DEF CommitReplace, ApplyReviewDecision, ApplyOwnerRefusal, Return
    <3>2. CASE ReplaceBatchItems(s)
      <4> DEFINE r == [pc |-> "delete", read |-> status, edit |-> edits + 1, victims |-> {}]
      <4>1. req' = [req EXCEPT ![s] = r]
        BY <3>2 DEF ReplaceBatchItems
      <4>2. r.pc # "task"
        OBVIOUS
      <4> QED  BY <4>1, <4>2
    <3>3. ASSUME NEW d \in Decisions, ReviewDecision(s, d)
          PROVE  \E r : req' = [req EXCEPT ![s] = r] /\ r.pc # "task"
      <4> DEFINE r == [pc |-> "review", read |-> status, decision |-> d]
      <4>1. req' = [req EXCEPT ![s] = r]
        BY <3>3 DEF ReviewDecision
      <4>2. r.pc # "task"
        OBVIOUS
      <4> QED  BY <4>1, <4>2
    <3>4. ASSUME NEW d \in Decisions, OwnerDecision(s, d)
          PROVE  \E r : req' = [req EXCEPT ![s] = r] /\ r.pc # "task"
      <4> DEFINE r == [pc |-> "owner", read |-> status, decision |-> d]
      <4>1. req' = [req EXCEPT ![s] = r]
        BY <3>4 DEF OwnerDecision
      <4>2. r.pc # "task"
        OBVIOUS
      <4> QED  BY <4>1, <4>2
    <3> QED  BY <1>4, <3>1, <3>2, <3>3, <3>4
  <2>3. UNCHANGED <<records, tasks, failures>>
    BY <1>4 DEF ReplaceBatchItems, CommitReplace, ApplyReviewDecision, ApplyOwnerRefusal,
                ReviewDecision, OwnerDecision
  <2> QED  BY <1>1, <1>3, <2>1, <2>2, <2>3
<1>5. ASSUME NEW s \in Requests, DeleteItems(s) PROVE RecordsGetTasks'
  <2>1. req[s] \in [pc: {"delete", "replace"}, read: Statuses, edit: Nat, victims: SUBSET Nat]
    BY <1>0, <1>5 DEF DeleteItems, Request, TypeInv, TypeOK
  <2>2. /\ req' = [req EXCEPT ![s] = [req[s] EXCEPT !.pc = "replace", !.victims = items]]
        /\ [req[s] EXCEPT !.pc = "replace", !.victims = items].pc # "task"
    BY <1>5, <2>1 DEF DeleteItems, Victims, TypeInv
  <2>3. s \notin CreatingTask
    BY <1>5 DEF DeleteItems, CreatingTask
  <2>4. UNCHANGED <<records, tasks, failures>>
    BY <1>5 DEF DeleteItems
  <2> QED  BY <1>1, <1>3, <2>2, <2>3, <2>4
<1>6. ASSUME NEW s \in Requests, ApplyOwnerApproval(s) PROVE RecordsGetTasks'
  <2>1. CreatingTask' = CreatingTask \union {s} /\ s \notin CreatingTask
    BY <1>0, <1>6, CreatingTaskChange DEF ApplyOwnerApproval, CreatingTask
  <2>2. Cardinality(CreatingTask') = Cardinality(CreatingTask) + 1
    BY <1>0, <2>1, FS_AddElement
  <2> QED  BY <1>0, <1>6, <2>2 DEF ApplyOwnerApproval, RecordsGetTasks
<1>7. ASSUME NEW s \in Requests, Return(s)
      PROVE  /\ Cardinality(CreatingTask') \in Nat
             /\ Cardinality(CreatingTask) <= Cardinality(CreatingTask') + 1
  <2>1. CreatingTask' = CreatingTask \ {s}
    BY <1>0, <1>7, CreatingTaskChange DEF Return
  <2>2. CASE s \in CreatingTask
    <3>1. Cardinality(CreatingTask \ {s}) = Cardinality(CreatingTask) - 1
      BY <1>0, <2>2, FS_RemoveElement
    <3>2. IsFiniteSet(CreatingTask')
      BY <1>0, <2>1, <2>2, FS_RemoveElement
    <3>3. Cardinality(CreatingTask') \in Nat
      BY <3>2, FS_CardinalityType
    <3>4. Cardinality(CreatingTask') = Cardinality(CreatingTask) - 1
      BY <2>1, <3>1
    <3> QED  BY <1>0, <3>3, <3>4
  <2>3. CASE s \notin CreatingTask
    <3>1. CreatingTask' = CreatingTask
      BY <2>1, <2>3
    <3>2. Cardinality(CreatingTask') = Cardinality(CreatingTask)
      BY <3>1
    <3> QED  BY <1>0, <3>2
  <2> QED  BY <2>2, <2>3
<1>8. ASSUME NEW s \in Requests, CreateTask(s) PROVE RecordsGetTasks'
  BY <1>0, <1>7, <1>8 DEF CreateTask, RecordsGetTasks
<1>9. ASSUME NEW s \in Requests, RequestFails(s) PROVE RecordsGetTasks'
  BY <1>0, <1>7, <1>9 DEF RequestFails, RecordsGetTasks
<1> QED
  BY <1>2, <1>4, <1>5, <1>6, <1>8, <1>9 DEF Next

(***************************************************************************)
(* A publish record lacks its downstream task only while the request that  *)
(* creates it is under way, or because a request failed.                   *)
(***************************************************************************)
THEOREM RecordsGetTasksHolds == Spec => []RecordsGetTasks
<1>1. Init => RecordsGetTasks
  <2> SUFFICES ASSUME Init PROVE RecordsGetTasks
    OBVIOUS
  <2>1. CreatingTask = {}
    BY DEF Init, CreatingTask, Idle
  <2> QED  BY <2>1, FS_EmptySet DEF Init, RecordsGetTasks
<1>2. TypeInv /\ RecordsGetTasks /\ [Next]_vars => RecordsGetTasks'
  BY RecordsStep
<1>3. Inv => TypeInv
  BY DEF Inv
<1> QED  BY Invariance, <1>1, <1>2, <1>3, PTL DEF Spec
-----------------------------------------------------------------------------
(***************************************************************************)
(* While no request was overtaken: at most one is past its check and still *)
(* finds the batch as it loaded it, its delete has seen all items, and a   *)
(* batch with a record stays published with what was reviewed.             *)
(***************************************************************************)
OneAtATime == \A s, t \in Requests : PastCheck(s) /\ PastCheck(t) => s = t

ReadIsCurrent ==
  \A s \in Requests : PastCheck(s) =>
    /\ req[s].read = status
    /\ req[s].pc = "owner" => readyForOwner(status)
    /\ req[s].pc = "replace" => req[s].victims = items

OneContent == \A i, j \in items : i = j

RecordIsFinal ==
  /\ records <= 1
  /\ records > 0 => status = Published /\ items \in reviewed

Serial == OneAtATime /\ ReadIsCurrent /\ OneContent /\ RecordIsFinal

SerialInv == status # OwnerPending /\ (overlaps = {} => Serial)

(***************************************************************************)
(* A step that lets s past its check without overtaking anybody, or that   *)
(* takes s out of flight, leaves at most one request past its check.       *)
(***************************************************************************)
LEMMA Alone ==
  ASSUME NEW s \in Requests, TypeInv, OneAtATime, NEW next,
         req' = [req EXCEPT ![s] = next],
         PastCheck(s) \/ OthersPastCheck(s) = {}
  PROVE  OneAtATime' /\ \A t \in Requests : t # s => ~PastCheck(t)'
BY DEF OneAtATime, TypeInv, PastCheck, OthersPastCheck

(***************************************************************************)
(* What a request that returns from its transaction leaves in flight.      *)
(***************************************************************************)
LEMMA NobodyLeft ==
  ASSUME NEW s \in Requests, TypeInv, OneAtATime, PastCheck(s), NEW next,
         req' = [req EXCEPT ![s] = next], next.pc \in {"idle", "task"}
  PROVE  \A t \in Requests : ~PastCheck(t)'
BY DEF OneAtATime, TypeInv, PastCheck

(***************************************************************************)
(* Without an overtaken request every step keeps the serial invariant.     *)
(***************************************************************************)
LEMMA SerialStep == Inv /\ SerialInv /\ [Next]_vars => SerialInv'
<1> SUFFICES ASSUME Inv, SerialInv, [Next]_vars
             PROVE  SerialInv'
  OBVIOUS
<1>0. /\ Idle.pc = "idle" /\ FollowUp.pc = "task"
      /\ req = [s \in Requests |-> req[s]] /\ TypeInv
  BY DEF Idle, FollowUp, Inv, TypeInv
<1>1. CASE UNCHANGED vars
  BY <1>1 DEF vars, SerialInv, Serial, OneAtATime, ReadIsCurrent, OneContent, RecordIsFinal,
              PastCheck, readyForOwner
<1>2. CASE CreateBatch
  <2>1. (status = Absent /\ records = 0) \/ overlaps # {}
    BY <1>2, StatusesDistinct DEF CreateBatch, SerialInv, Serial, RecordIsFinal, Inv, TypeInv, TypeOK
  <2>2. ASSUME NEW s \in Requests, PastCheck(s) PROVE req[s].read \in Statuses
    BY <1>0, <2>2 DEF PastCheck, Request, TypeInv, TypeOK
  <2>3. Absent \notin Statuses
    BY DEF Absent, Statuses, Draft, ReviewPending, ReviewApproved, OwnerPending,
           OwnerChangesRequested, Rejected, Published, Superseded
  <2>4. ASSUME overlaps = {} PROVE Serial'
    <3>1. \A s \in Requests : ~PastCheck(s)
      BY <1>2, <2>2, <2>3, <2>4 DEF SerialInv, Serial, ReadIsCurrent, CreateBatch
    <3>2. \A s \in Requests : ~PastCheck(s)'
      BY <1>2, <3>1 DEF PastCheck, CreateBatch
    <3> QED  BY <1>2, <2>1, <2>4, <3>2
             DEF Serial, OneAtATime, ReadIsCurrent, OneContent, RecordIsFinal, CreateBatch
  <2>5. status' # OwnerPending
    BY <1>2 DEF CreateBatch, Draft, OwnerPending
  <2> QED  BY <1>2, <2>4, <2>5 DEF SerialInv, CreateBatch
<1>3. ASSUME NEW s \in Requests, ReplaceBatchItems(s) PROVE SerialInv'
  <2>1. SUFFICES ASSUME overlaps' = {} PROVE Serial'
    BY <1>3 DEF ReplaceBatchItems, SerialInv
  <2>2. Serial /\ OthersPastCheck(s) = {}
    BY <1>3, <2>1 DEF ReplaceBatchItems, SerialInv
  <2>3. OneAtATime' /\ \A t \in Requests : t # s => ~PastCheck(t)'
    BY <1>0, <1>3, <2>2, Alone DEF ReplaceBatchItems, Serial
  <2>4. req'[s].read = status /\ req'[s].pc = "delete"
    BY <1>0, <1>3 DEF ReplaceBatchItems
  <2> QED  BY <1>3, <2>2, <2>3, <2>4
           DEF Serial, ReadIsCurrent, OneContent, RecordIsFinal, ReplaceBatchItems
<1>4. ASSUME NEW s \in Requests, DeleteItems(s) PROVE SerialInv'
  <2>1. SUFFICES ASSUME overlaps = {} PROVE Serial'
    BY <1>4 DEF DeleteItems, SerialInv
  <2>2. Serial /\ PastCheck(s)
    BY <1>4, <2>1 DEF DeleteItems, SerialInv, PastCheck
  <2>3. req[s] \in [pc: {"delete", "replace"}, read: Statuses, edit: Nat, victims: SUBSET Nat]
    BY <1>0, <1>4 DEF DeleteItems, Request, TypeInv, TypeOK
  <2>4. req' = [req EXCEPT ![s] = [req[s] EXCEPT !.pc = "replace", !.victims = items]]
    BY <1>0, <1>4, <2>3 DEF DeleteItems, Victims
  <2>5. OneAtATime' /\ \A t \in Requests : t # s => ~PastCheck(t)'
    BY <1>0, <2>2, <2>4, Alone DEF Serial
  <2>6. req'[s].read = req[s].read /\ req'[s].victims = items /\ req'[s].pc = "replace"
    BY <1>0, <2>3, <2>4
  <2> QED  BY <1>4, <2>2, <2>5, <2>6
           DEF Serial, ReadIsCurrent, OneContent, RecordIsFinal, DeleteItems
<1>5. ASSUME NEW s \in Requests, NEW d \in Decisions, ReviewDecision(s, d) PROVE SerialInv'
  <2>1. SUFFICES ASSUME overlaps' = {} PROVE Serial'
    BY <1>5 DEF ReviewDecision, SerialInv
  <2>2. Serial /\ OthersPastCheck(s) = {}
    BY <1>5, <2>1 DEF ReviewDecision, SerialInv
  <2>3. OneAtATime' /\ \A t \in Requests : t # s => ~PastCheck(t)'
    BY <1>0, <1>5, <2>2, Alone DEF ReviewDecision, Serial
  <2>4. req'[s].read = status /\ req'[s].pc = "review"
    BY <1>0, <1>5 DEF ReviewDecision
  <2> QED  BY <1>5, <2>2, <2>3, <2>4
           DEF Serial, ReadIsCurrent, OneContent, RecordIsFinal, ReviewDecision
<1>6. ASSUME NEW s \in Requests, NEW d \in Decisions, OwnerDecision(s, d) PROVE SerialInv'
  <2>1. SUFFICES ASSUME overlaps' = {} PROVE Serial'
    BY <1>6 DEF OwnerDecision, SerialInv
  <2>2. Serial /\ OthersPastCheck(s) = {}
    BY <1>6, <2>1 DEF OwnerDecision, SerialInv
  <2>3. OneAtATime' /\ \A t \in Requests : t # s => ~PastCheck(t)'
    BY <1>0, <1>6, <2>2, Alone DEF OwnerDecision, Serial
  <2>4. req'[s].read = status /\ req'[s].pc = "owner" /\ readyForOwner(status)
    BY <1>0, <1>6 DEF OwnerDecision
  <2> QED  BY <1>6, <2>2, <2>3, <2>4
           DEF Serial, ReadIsCurrent, OneContent, RecordIsFinal, OwnerDecision, readyForOwner
<1>7. ASSUME NEW s \in Requests, overlaps = {},
             PastCheck(s), NEW next, req' = [req EXCEPT ![s] = next],
             next.pc \in {"idle", "task"}
      PROVE  /\ Serial /\ records = 0 /\ status = req[s].read
             /\ OneAtATime' /\ ReadIsCurrent'
  <2>1. Serial
    BY <1>7 DEF SerialInv
  <2>2. \A t \in Requests : ~PastCheck(t)'
    BY <1>0, <1>7, <2>1, NobodyLeft DEF Serial
  <2>3. status = req[s].read /\ status # Published
    BY <1>7, <2>1 DEF Serial, ReadIsCurrent, Inv, LoadedInTime, PastCheck
  <2>4. records = 0
    BY <1>0, <2>1, <2>3 DEF Serial, RecordIsFinal, TypeInv, TypeOK
  <2> QED  BY <2>1, <2>2, <2>3, <2>4 DEF OneAtATime, ReadIsCurrent
<1>8. ASSUME NEW s \in Requests, CommitReplace(s) PROVE SerialInv'
  <2>1. status' # OwnerPending /\ overlaps' = overlaps
    BY <1>8 DEF CommitReplace, ReviewVoided, OwnerChangesRequested, OwnerPending
  <2>2. ASSUME overlaps = {} PROVE Serial'
    <3>1. Serial /\ records = 0 /\ OneAtATime' /\ ReadIsCurrent' /\ PastCheck(s)
      BY <1>0, <1>7, <1>8, <2>2 DEF CommitReplace, Return, PastCheck
    <3>2. items' = {req[s].edit}
      BY <1>8, <3>1 DEF CommitReplace, Serial, ReadIsCurrent
    <3> QED  BY <1>8, <3>1, <3>2 DEF Serial, OneContent, RecordIsFinal, CommitReplace
  <2> QED  BY <2>1, <2>2 DEF SerialInv
<1>9. ASSUME NEW s \in Requests, ApplyReviewDecision(s) PROVE SerialInv'
  <2>1. status' # OwnerPending /\ overlaps' = overlaps
    <3>1. req[s].decision \in Decisions
      BY <1>0, <1>9 DEF ApplyReviewDecision, Request, TypeInv, TypeOK
    <3> QED  BY <1>9, <3>1 DEF ApplyReviewDecision, reviewStatus, Decisions, ReviewApproved,
                Rejected, OwnerChangesRequested, OwnerPending
  <2>2. ASSUME overlaps = {} PROVE Serial'
    <3>1. Serial /\ records = 0 /\ OneAtATime' /\ ReadIsCurrent'
      BY <1>0, <1>7, <1>9, <2>2 DEF ApplyReviewDecision, Return, PastCheck
    <3> QED  BY <1>9, <3>1 DEF Serial, OneContent, RecordIsFinal, ApplyReviewDecision
  <2> QED  BY <2>1, <2>2 DEF SerialInv
<1>10. ASSUME NEW s \in Requests, ApplyOwnerApproval(s) PROVE SerialInv'
  <2>1. status' = Published /\ overlaps' = overlaps
    BY <1>10 DEF ApplyOwnerApproval
  <2>2. ASSUME overlaps = {} PROVE Serial'
    <3>1. /\ Serial /\ records = 0 /\ OneAtATime' /\ ReadIsCurrent'
          /\ PastCheck(s) /\ req[s].pc = "owner"
      BY <1>0, <1>7, <1>10, <2>2 DEF ApplyOwnerApproval, PastCheck
    <3>2. status = ReviewApproved
      BY <3>1 DEF Serial, ReadIsCurrent, readyForOwner, SerialInv
    <3>3. items \in reviewed
      BY <3>2 DEF Inv, ApprovalIsOfContent
    <3> QED  BY <1>10, <3>1, <3>3 DEF Serial, OneContent, RecordIsFinal, ApplyOwnerApproval
  <2> QED  BY <2>1, <2>2, StatusesDistinct DEF SerialInv
<1>11. ASSUME NEW s \in Requests, ApplyOwnerRefusal(s) PROVE SerialInv'
  <2>1. status' # OwnerPending /\ overlaps' = overlaps
    BY <1>11 DEF ApplyOwnerRefusal, Rejected, OwnerChangesRequested, OwnerPending
  <2>2. ASSUME overlaps = {} PROVE Serial'
    <3>1. Serial /\ records = 0 /\ OneAtATime' /\ ReadIsCurrent'
      BY <1>0, <1>7, <1>11, <2>2 DEF ApplyOwnerRefusal, Return, PastCheck
    <3> QED  BY <1>11, <3>1 DEF Serial, OneContent, RecordIsFinal, ApplyOwnerRefusal
  <2> QED  BY <2>1, <2>2 DEF SerialInv
<1>12. ASSUME NEW s \in Requests, CreateTask(s) \/ RequestFails(s) PROVE SerialInv'
  <2>1. UNCHANGED <<status, items, records, reviewed, overlaps>> /\ Return(s)
    BY <1>12 DEF CreateTask, RequestFails
  <2>2. \A t \in Requests : PastCheck(t)' => PastCheck(t) /\ req'[t] = req[t]
    BY <1>0, <2>1 DEF PastCheck, Return
  <2> QED  BY <2>1, <2>2 DEF SerialInv, Serial, OneAtATime, ReadIsCurrent, OneContent,
                             RecordIsFinal, readyForOwner
<1> QED
  BY <1>1, <1>2, <1>3, <1>4, <1>5, <1>6, <1>8, <1>9, <1>10, <1>11, <1>12 DEF Next

(***************************************************************************)
(* The serial invariant holds in every reachable state of the gate.        *)
(***************************************************************************)
THEOREM SerialInvariance == Spec => []SerialInv
<1>1. Init => SerialInv
  BY DEF Init, SerialInv, Serial, OneAtATime, ReadIsCurrent, OneContent, RecordIsFinal, PastCheck,
         Idle, Absent, OwnerPending
<1> QED  BY Invariance, SerialStep, <1>1, PTL DEF Spec

(***************************************************************************)
(* The design's hard rule: while no request is overtaken between its check *)
(* and its transaction, what is published was confirmed by a reviewer, a   *)
(* batch is published at most once and it holds the items of one edit.     *)
(***************************************************************************)
THEOREM SerialPublishingHolds == Spec => []SerialPublishing
<1>1. SerialInv => SerialPublishing
  BY DEF SerialInv, Serial, RecordIsFinal, OneContent, SerialPublishing,
         PublishedContentReviewed, PublishedOnce, ItemsOfOneEdit
<1> QED  BY SerialInvariance, <1>1, PTL

=============================================================================
