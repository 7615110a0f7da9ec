--------------------- MODULE AnnotationWorkspaceProofs ---------------------
(***************************************************************************)
(* The properties of AnnotationWorkspace for any number of pages, requests *)
(* in flight, saves and failures.                                          *)
(***************************************************************************)
EXTENDS AnnotationWorkspace, TLAPS

(* No page is ahead of the row, and a draft without a row has revision 0. *)
PagesInv ==
  /\ \A e \in Editors : page[e].revision <= revision
  /\ state = "none" => revision = 0

(* What a request in flight knows: a submission moves the task to "submitted", one that   *)
(* read "submitted" shows that the task has been there, and an update about to be written *)
(* has an edge of the table from the status that was read.                                *)
RequestInv ==
  /\ task = "submitted" => reached
  /\ \A s \in Requests :
       /\ req[s].pc \in {"submit", "get"} => req[s].to = "submitted"
       /\ req[s].pc = "submit" /\ req[s].read = "submitted" => reached
       /\ req[s].pc = "write" => isAllowedTransition(req[s].read, req[s].to)

IInv == TypeOK /\ RevisionNamesBody /\ PagesInv /\ RequestInv /\ SubmissionMovesTask

-----------------------------------------------------------------------------
(* An edge of the table ends in a status of the task. *)
LEMMA EdgeTyped ==
  ASSUME NEW from, NEW to, isAllowedTransition(from, to)
  PROVE  to \in TaskStatuses
BY DEF isAllowedTransition, allowedTransitions, TaskStatuses

(* Every step of the code keeps rows, pages and requests in their types. *)
LEMMA TypeStep == TypeOK /\ RequestInv /\ [Next]_vars => TypeOK'
<1> SUFFICES ASSUME TypeOK, RequestInv, [Next]_vars PROVE TypeOK'
  OBVIOUS
<1> USE WorkspaceAssumption
<1>1. ASSUME NEW st \in TaskStatuses, CreateTask(st) PROVE TypeOK'
  BY <1>1 DEF CreateTask, TypeOK, draftVars
<1>2. ASSUME NEW e \in Editors, GetWorkspace(e) PROVE TypeOK'
  BY <1>2 DEF GetWorkspace, TypeOK, draftVars, Shown
<1>3. ASSUME NEW e \in Editors, NEW answered \in BOOLEAN, SaveWorkspaceDraft(e, answered)
      PROVE  TypeOK'
  BY <1>3 DEF SaveWorkspaceDraft, NextRevision, TypeOK
<1>4. ASSUME NEW s \in Requests, SubmitWorkspace(s) PROVE TypeOK'
  BY <1>4 DEF SubmitWorkspace, TypeOK, draftVars, ReqType, TaskStatuses
<1>5. ASSUME NEW s \in Requests, Submit(s) PROVE TypeOK'
  <2>1. Idle \in ReqType /\ TaskFollows(req[s]) \in ReqType
    BY DEF TypeOK, TaskFollows, Idle, ReqType
  <2>2. req' \in [Requests -> ReqType]
    BY <1>5, <2>1 DEF Submit, TypeOK
  <2> QED
    BY <1>5, <2>2 DEF Submit, TypeOK, draftVars
<1>6. ASSUME NEW s \in Requests, TransitionGet(s) PROVE TypeOK'
  <2>1. Idle \in ReqType /\ [pc |-> "write", read |-> task, to |-> "submitted"] \in ReqType
    BY DEF TypeOK, Idle, ReqType, TaskStatuses
  <2>2. req' \in [Requests -> ReqType]
    BY <1>6, <2>1 DEF TransitionGet, TypeOK
  <2>3. refused' \in BOOLEAN
    BY <1>6 DEF TransitionGet, TypeOK
  <2> QED
    BY <1>6, <2>2, <2>3 DEF TransitionGet, TypeOK, draftVars
<1>7. ASSUME NEW s \in Requests, NEW to \in TaskStatuses \cup {"done"}, TransitionTask(s, to)
      PROVE  TypeOK'
  <2>1. CurrentName(to) \in TaskStatuses
    BY <1>7, EdgeTyped DEF TransitionTask, MayTransition
  <2> HIDE DEF CurrentName
  <2> QED
    BY <1>7, <2>1 DEF TransitionTask, TypeOK, draftVars, ReqType
<1>8. ASSUME NEW s \in Requests, TransitionWrite(s) PROVE TypeOK'
  <2>1. task' \in TaskStatuses
    BY <1>8, EdgeTyped DEF TransitionWrite, RequestInv
  <2> QED
    BY <1>8, <2>1 DEF TransitionWrite, TypeOK, draftVars, ReqType, Idle
<1>9. ASSUME NEW s \in Requests, RequestFails(s) PROVE TypeOK'
  BY <1>9 DEF RequestFails, TypeOK, draftVars, ReqType, Idle
<1>10. CASE UNCHANGED vars
  BY <1>10 DEF vars, TypeOK
<1> QED
  BY <1>1, <1>2, <1>3, <1>4, <1>5, <1>6, <1>7, <1>8, <1>9, <1>10 DEF Next

(* Pages stay behind the row, and a revision keeps standing for one body: the row's       *)
(* revision grows whenever its body changes.                                              *)
LEMMA PagesStep ==
  TypeOK /\ PagesInv /\ RevisionNamesBody /\ [Next]_vars => (PagesInv /\ RevisionNamesBody)'
<1> SUFFICES ASSUME TypeOK, PagesInv, RevisionNamesBody, [Next]_vars
             PROVE  (PagesInv /\ RevisionNamesBody)'
  OBVIOUS
<1> USE DEF PagesInv, RevisionNamesBody
<1>1. ASSUME NEW e \in Editors, GetWorkspace(e) PROVE (PagesInv /\ RevisionNamesBody)'
  BY <1>1 DEF GetWorkspace, TypeOK, draftVars, Shown
<1>2. ASSUME NEW e \in Editors, NEW answered \in BOOLEAN, SaveWorkspaceDraft(e, answered)
      PROVE  (PagesInv /\ RevisionNamesBody)'
  <2>1. revision' = revision + 1 /\ state' # "none"
    BY <1>2 DEF SaveWorkspaceDraft, NextRevision
  <2>2. CASE answered
    BY <1>2, <2>1, <2>2 DEF SaveWorkspaceDraft, TypeOK
  <2>3. CASE ~answered
    BY <1>2, <2>1, <2>3 DEF SaveWorkspaceDraft, TypeOK
  <2> QED
    BY <2>2, <2>3
<1>3. ASSUME NEW s \in Requests, Submit(s) PROVE (PagesInv /\ RevisionNamesBody)'
  BY <1>3 DEF Submit, TypeOK, draftVars
<1>4. ASSUME UNCHANGED <<state, revision, body, page>> PROVE (PagesInv /\ RevisionNamesBody)'
  BY <1>4
<1>5. ASSUME NEW st \in TaskStatuses, CreateTask(st) PROVE UNCHANGED <<state, revision, body, page>>
  BY <1>5 DEF CreateTask, draftVars
<1>6. ASSUME NEW s \in Requests,
             \/ SubmitWorkspace(s) \/ TransitionGet(s) \/ TransitionWrite(s) \/ RequestFails(s)
             \/ \E to \in TaskStatuses \cup {"done"} : TransitionTask(s, to)
      PROVE  UNCHANGED <<state, revision, body, page>>
  BY <1>6 DEF SubmitWorkspace, TransitionGet, TransitionWrite, RequestFails, TransitionTask, draftVars
<1>7. UNCHANGED vars => UNCHANGED <<state, revision, body, page>>
  BY DEF vars
<1> QED
  BY <1>1, <1>2, <1>3, <1>4, <1>5, <1>6, <1>7 DEF Next

(* What requests know stays true: the history variable never goes back, and a request      *)
(* about to write was checked against what it read.                                        *)
LEMMA RequestStep == TypeOK /\ RequestInv /\ [Next]_vars => RequestInv'
<1> SUFFICES ASSUME TypeOK, RequestInv, [Next]_vars PROVE RequestInv'
  OBVIOUS
<1> USE DEF RequestInv
<1>1. ASSUME NEW st \in TaskStatuses, CreateTask(st) PROVE RequestInv'
  <2>1. (task' = "submitted" => reached') /\ (reached => reached') /\ req' = req
    BY <1>1 DEF CreateTask
  <2> QED
    BY <2>1
<1>2. ASSUME NEW e \in Editors, GetWorkspace(e) PROVE RequestInv'
  BY <1>2 DEF GetWorkspace
<1>3. ASSUME NEW e \in Editors, NEW answered \in BOOLEAN, SaveWorkspaceDraft(e, answered)
      PROVE  RequestInv'
  BY <1>3 DEF SaveWorkspaceDraft
<1>4. ASSUME NEW s \in Requests, SubmitWorkspace(s) PROVE RequestInv'
  BY <1>4 DEF SubmitWorkspace, TypeOK
<1>5. ASSUME NEW s \in Requests, Submit(s) PROVE RequestInv'
  BY <1>5 DEF Submit, TaskFollows, Idle, TypeOK, ReqType
<1>6. ASSUME NEW s \in Requests, TransitionGet(s) PROVE RequestInv'
  BY <1>6 DEF TransitionGet, MayTransition, Idle, TypeOK
<1>7. ASSUME NEW s \in Requests, NEW to \in TaskStatuses \cup {"done"}, TransitionTask(s, to)
      PROVE  RequestInv'
  BY <1>7 DEF TransitionTask, MayTransition, TypeOK
<1>8. ASSUME NEW s \in Requests, TransitionWrite(s) PROVE RequestInv'
  <2>1. task' = "submitted" => reached'
    BY <1>8 DEF TransitionWrite
  <2>2. reached => reached'
    BY <1>8 DEF TransitionWrite
  <2>3. \A t \in Requests : req'[t] = req[t] \/ req'[t] = Idle
    BY <1>8 DEF TransitionWrite, TypeOK
  <2> QED
    BY <2>1, <2>2, <2>3 DEF Idle
<1>9. ASSUME NEW s \in Requests, RequestFails(s) PROVE RequestInv'
  BY <1>9 DEF RequestFails, Idle, TypeOK
<1>10. CASE UNCHANGED vars
  BY <1>10 DEF vars
<1> QED
  BY <1>1, <1>2, <1>3, <1>4, <1>5, <1>6, <1>7, <1>8, <1>9, <1>10 DEF Next

(* A submitted draft keeps its reason for the status of its task. *)
LEMMA SubmissionStep ==
  TypeOK /\ RequestInv /\ SubmissionMovesTask /\ [Next]_vars => SubmissionMovesTask'
<1> SUFFICES ASSUME TypeOK, RequestInv, SubmissionMovesTask, [Next]_vars
             PROVE  SubmissionMovesTask'
  OBVIOUS
<1> USE DEF SubmissionMovesTask
<1>1. ASSUME NEW st \in TaskStatuses, CreateTask(st) PROVE SubmissionMovesTask'
  <2>1. (reached => reached') /\ UNCHANGED <<state, req, refused, failures>>
    BY <1>1 DEF CreateTask, draftVars
  <2> QED
    BY <2>1
<1>2. ASSUME NEW e \in Editors, GetWorkspace(e) PROVE SubmissionMovesTask'
  BY <1>2 DEF GetWorkspace, draftVars
<1>3. ASSUME NEW e \in Editors, NEW answered \in BOOLEAN, SaveWorkspaceDraft(e, answered)
      PROVE  SubmissionMovesTask'
  BY <1>3 DEF SaveWorkspaceDraft
<1>4. ASSUME NEW s \in Requests, SubmitWorkspace(s) PROVE SubmissionMovesTask'
  BY <1>4 DEF SubmitWorkspace, TypeOK, draftVars, Idle
<1>5. ASSUME NEW s \in Requests, Submit(s) PROVE SubmissionMovesTask'
  <2>1. CASE state = "none"
    BY <1>5, <2>1 DEF Submit, draftVars
  <2>2. CASE state # "none" /\ req[s].read = "submitted"
    BY <1>5, <2>2 DEF Submit, RequestInv
  <2>3. CASE state # "none" /\ req[s].read # "submitted"
    <3>1. req'[s].pc = "get" /\ req'[s].to = "submitted"
      BY <1>5, <2>3 DEF Submit, TaskFollows, RequestInv, TypeOK, ReqType
    <3> QED
      BY <3>1
  <2> QED
    BY <2>1, <2>2, <2>3
<1>6. ASSUME NEW s \in Requests, TransitionGet(s) PROVE SubmissionMovesTask'
  BY <1>6 DEF TransitionGet, TypeOK, draftVars
<1>7. ASSUME NEW s \in Requests, NEW to \in TaskStatuses \cup {"done"}, TransitionTask(s, to)
      PROVE  SubmissionMovesTask'
  BY <1>7 DEF TransitionTask, TypeOK, draftVars, Idle
<1>8. ASSUME NEW s \in Requests, TransitionWrite(s) PROVE SubmissionMovesTask'
  <2>1. reached \/ req[s].to = "submitted" => reached'
    BY <1>8 DEF TransitionWrite
  <2>2. \A t \in Requests \ {s} : req'[t] = req[t]
    BY <1>8 DEF TransitionWrite, TypeOK
  <2>3. UNCHANGED <<state, refused, failures>>
    BY <1>8 DEF TransitionWrite, draftVars
  <2> QED
    BY <2>1, <2>2, <2>3
<1>9. ASSUME NEW s \in Requests, RequestFails(s) PROVE SubmissionMovesTask'
  BY <1>9 DEF RequestFails, TypeOK, draftVars
<1>10. CASE UNCHANGED vars
  BY <1>10 DEF vars
<1> QED
  BY <1>1, <1>2, <1>3, <1>4, <1>5, <1>6, <1>7, <1>8, <1>9, <1>10 DEF Next

-----------------------------------------------------------------------------
(* The inductive invariant of tasks and drafts. *)
THEOREM Invariance == Spec => []IInv
<1>1. Init => IInv
  <2> SUFFICES ASSUME Init PROVE IInv
    OBVIOUS
  <2>1. TypeOK
    BY DEF Init, TypeOK, ReqType, Idle
  <2>2. RevisionNamesBody /\ PagesInv
    BY DEF Init, RevisionNamesBody, PagesInv
  <2>3. RequestInv /\ SubmissionMovesTask
    BY DEF Init, RequestInv, SubmissionMovesTask, Idle
  <2> QED
    BY <2>1, <2>2, <2>3 DEF IInv
<1>2. IInv /\ [Next]_vars => IInv'
  BY TypeStep, PagesStep, RequestStep, SubmissionStep DEF IInv
<1> QED
  BY <1>1, <1>2, PTL DEF Spec

(* Rows, pages and requests keep their types, for any number of pages and requests. *)
THEOREM TypeCorrect == Spec => []TypeOK
BY Invariance, PTL DEF IInv

(* A page at the current revision shows the current body, whatever was saved, submitted or *)
(* lost in between: the comparison in SaveDraft tells whether the editor is up to date.     *)
THEOREM RevisionNamesBodyHolds == Spec => []RevisionNamesBody
BY Invariance, PTL DEF IInv

(* A submitted draft whose task never was "submitted" is about to move it, was refused, or  *)
(* belongs to a request that was cut short.                                                 *)
THEOREM SubmissionMovesTaskHolds == Spec => []SubmissionMovesTask
BY Invariance, PTL DEF IInv

(* A save replaces only what its editor was shown, except from the empty workspace.         *)
THEOREM OverwritesOnlyWhatWasSeenHolds == Spec => OverwritesOnlyWhatWasSeen
<1> DEFINE Seen(e) == /\ SaveWorkspaceDraft(e, TRUE) \/ SaveWorkspaceDraft(e, FALSE)
                      /\ page[e].body = body \/ page[e].revision = 0
           A == body' # body => \E e \in Editors : Seen(e)
<1>1. IInv /\ [Next]_vars => [A]_vars
  <2> SUFFICES ASSUME IInv, Next, body' # body PROVE \E e \in Editors : Seen(e)
    BY DEF vars
  <2>1. PICK e \in Editors, answered \in BOOLEAN : SaveWorkspaceDraft(e, answered)
    BY DEF Next, CreateTask, GetWorkspace, SubmitWorkspace, Submit, TransitionGet, TransitionTask,
           TransitionWrite, RequestFails, draftVars
  <2>2. SaveWorkspaceDraft(e, TRUE) \/ SaveWorkspaceDraft(e, FALSE)
    BY <2>1
  <2>3. page[e].body = body \/ page[e].revision = 0
    BY <2>1 DEF SaveWorkspaceDraft, MayOverwrite, IInv, TypeOK, PagesInv, RevisionNamesBody
  <2> QED
    BY <2>2, <2>3
<1> QED
  BY Invariance, <1>1, PTL DEF Spec, OverwritesOnlyWhatWasSeen

(* A submitted draft never changes again. *)
THEOREM SubmittedIsFrozenHolds == Spec => SubmittedIsFrozen
<1> DEFINE A == state = "submitted" => UNCHANGED draftVars
<1>1. [Next]_vars => [A]_vars
  <2> SUFFICES ASSUME Next, state = "submitted" PROVE UNCHANGED draftVars
    BY DEF vars
  <2>1. ASSUME NEW e \in Editors, NEW answered \in BOOLEAN PROVE ~SaveWorkspaceDraft(e, answered)
    BY DEF SaveWorkspaceDraft, MayOverwrite
  <2> QED
    BY <2>1 DEF Next, CreateTask, GetWorkspace, SubmitWorkspace, Submit, TransitionGet,
                TransitionTask, TransitionWrite, RequestFails, draftVars
<1> QED
  BY <1>1, PTL DEF Spec, SubmittedIsFrozen

(* Only an update that was overtaken moves a task along an edge the table does not have.     *)
THEOREM OffTableOnlyWhenOvertakenHolds == Spec => OffTableOnlyWhenOvertaken
<1> DEFINE Overtaken == \E s \in Requests : TransitionWrite(s) /\ req[s].read # task
           A == /\ task # "absent"
                /\ task' # task
                => isAllowedTransition(task, task') \/ Overtaken
<1>1. IInv /\ [Next]_vars => [A]_vars
  <2> SUFFICES ASSUME IInv, Next, task # "absent", task' # task
               PROVE  isAllowedTransition(task, task') \/ Overtaken
    BY DEF vars
  <2>1. PICK s \in Requests : TransitionWrite(s)
    BY DEF Next, CreateTask, GetWorkspace, SaveWorkspaceDraft, SubmitWorkspace, Submit,
           TransitionGet, TransitionTask, RequestFails
  <2>2. task' = req[s].to /\ isAllowedTransition(req[s].read, req[s].to)
    BY <2>1 DEF TransitionWrite, IInv, RequestInv
  <2> QED
    BY <2>1, <2>2
<1> QED
  BY Invariance, <1>1, PTL DEF Spec, OffTableOnlyWhenOvertaken
=============================================================================
