--------------------------- MODULE SnapshotContent ---------------------------
(***************************************************************************)
(* The content of dataset snapshots: internal/datahub and internal/review  *)
(* on Postgres, which share the table annotations.                         *)
(*                                                                         *)
(* An import is queued as a job and delivered by a worker, more than once  *)
(* when its lease runs out.  ImportSnapshot lists the snapshot's rows and  *)
(* then inserts, entry by entry and without a transaction, a row and its   *)
(* change record.  Accepting a review candidate inserts a row into the     *)
(* same snapshot, in a transaction that holds the candidate's lock.        *)
(*                                                                         *)
(* A box is a number: its geometry in units of 10^-7, 0 when it is not     *)
(* positive.  Snapshot, row and candidate ids are given in the order of    *)
(* the inserts.  Categories are fixed: only tests add them.                *)
(***************************************************************************)
EXTENDS Naturals, Sequences, FiniteSets

CONSTANTS
  Requests,       \* slots for HTTP requests in flight at the same time
  Datasets,       \* datasets, all of one project
  Keys,           \* object keys
  Categories,     \* names of the categories of the project
  Payloads,       \* the lists of entries that are imported
  Proposals,      \* the batches of entries that models propose as candidates
  MaxSnapshots,   \* bound: snapshots
  MaxJobs,        \* bound: imports that are queued
  MaxPosts,       \* bound: deliveries of imports
  MaxCandidates,  \* bound: candidates
  MaxFailures     \* bound: imports cut short by an error or a restart

NoSnapshot == 0

Entry == [key: Keys, category: STRING, box: Nat]

ASSUME SnapshotContentAssumption ==
  /\ IsFiniteSet(Requests)
  /\ Payloads \subseteq Seq(Entry)
  /\ <<>> \notin Payloads
  /\ Proposals \subseteq Seq(Entry) \ {<<>>}
  /\ {MaxSnapshots, MaxJobs, MaxPosts, MaxCandidates, MaxFailures} \subseteq Nat

VARIABLES
  items,        \* dataset_items: pairs of dataset and object key
  snapshots,    \* dataset_snapshots in the order of their ids
  queued,       \* the imports for which a job exists
  annotations,  \* annotations
  changes,      \* annotation_changes
  candidates,   \* annotation_candidates in the order of their ids
  audits,       \* audit_logs of the review
  req,          \* the requests in flight
  posts,        \* history: the deliveries of imports and how they ended
  overlaps      \* history: pairs of deliveries that both found their snapshot empty

vars == <<items, snapshots, queued, annotations, changes, candidates, audits, req,
          posts, overlaps>>

Idle == [pc |-> "idle"]

Snapshot == [dataset: Datasets, version: Nat, based: Nat]

Import == [snapshot: Nat, payload: Payloads]

(***************************************************************************)
(* A row names what it was inserted for: entry number at of delivery ref,  *)
(* or audit entry number at of candidate ref.                              *)
(***************************************************************************)
Row == [snapshot: Nat, dataset: Datasets, entry: Entry,
        source: {"import", "pseudo"}, ref: Nat, at: Nat]

Change == [from: Nat, to: Nat, entry: Entry, ref: Nat, at: Nat]

Candidate == [snapshot: Nat, dataset: Datasets, entry: Entry,
              status: {"pending", "accepted", "rejected"}]

Outcomes == {"running", "ok", "conflict", "overtaken", "refused", "failed"}

Post == [snapshot: Nat, payload: Payloads, outcome: Outcomes]

Request ==
  [pc: {"create"}, dataset: Datasets, version: Nat, based: Nat]
    \union [pc: {"entry", "change"}, post: Nat, at: Nat]
    \union [pc: {"review"}, candidate: Nat, decision: {"accepted", "rejected"}]

TypeOK ==
  /\ items \subseteq Datasets \X Keys
  /\ snapshots \in Seq(Snapshot)
  /\ queued \subseteq Import
  /\ annotations \subseteq Row
  /\ changes \subseteq Change
  /\ candidates \in Seq(Candidate)
  /\ audits \in Seq([candidate: Nat, action: {"accepted", "rejected"}])
  /\ req \in [Requests -> Request \union {Idle}]
  /\ posts \in Seq(Post)
  /\ overlaps \subseteq SUBSET Nat

Init ==
  /\ items = {}
  /\ snapshots = <<>>
  /\ queued = {}
  /\ annotations = {}
  /\ changes = {}
  /\ candidates = <<>>
  /\ audits = <<>>
  /\ req = [r \in Requests |-> Idle]
  /\ posts = <<>>
  /\ overlaps = {}

-----------------------------------------------------------------------------
Goto(r, next) == req' = [req EXCEPT ![r] = next]

Return(r) == Goto(r, Idle)

(***************************************************************************)
(* ScanDataset upserts object by object; an error leaves the objects       *)
(* before it.  One action is one iteration.                                *)
(***************************************************************************)
UpsertScannedItems(d, k) ==
  /\ items' = items \union {<<d, k>>}
  /\ UNCHANGED <<snapshots, queued, annotations, changes, candidates, audits, req,
                 posts, overlaps>>

ScanDataset(d) == \E k \in Keys : UpsertScannedItems(d, k)

(***************************************************************************)
(* CreateSnapshot counts the snapshots of the dataset, then inserts one    *)
(* with the next version.  The table has a unique index on dataset and     *)
(* version; a transaction that runs into it is rolled back.                *)
(***************************************************************************)
SnapshotsOf(d) == {i \in DOMAIN snapshots : snapshots[i].dataset = d}

NextVersion(d) == Cardinality(SnapshotsOf(d)) + 1

CreateSnapshot(r, d, based) ==
  /\ req[r] = Idle
  /\ Len(snapshots) < MaxSnapshots
  /\ Goto(r, [pc |-> "create", dataset |-> d, based |-> based, version |-> NextVersion(d)])
  /\ UNCHANGED <<items, snapshots, queued, annotations, changes, candidates, audits,
                 posts, overlaps>>

VersionUnchecked(d, v) == TRUE

VersionFree(d, v) == \A i \in SnapshotsOf(d) : snapshots[i].version # v

InsertSnapshot(r) ==
  /\ req[r].pc = "create"
  /\ snapshots' = IF VersionFree(req[r].dataset, req[r].version)
                  THEN Append(snapshots, [dataset |-> req[r].dataset,
                                          version |-> req[r].version,
                                          based |-> req[r].based])
                  ELSE snapshots
  /\ Return(r)
  /\ UNCHANGED <<items, queued, annotations, changes, candidates, audits, posts, overlaps>>

-----------------------------------------------------------------------------
(***************************************************************************)
(* The handler of the public route queues a job; the importer delivers it. *)
(***************************************************************************)
QueueImport(s, payload) ==
  /\ Cardinality(queued) < MaxJobs
  /\ queued' = queued \union {[snapshot |-> s, payload |-> payload]}
  /\ UNCHANGED <<items, snapshots, annotations, changes, candidates, audits, req,
                 posts, overlaps>>

ListAnnotationsForSnapshot(s) == {a \in annotations : a.snapshot = s}

(***************************************************************************)
(* Entries are compared as strings, with the six decimals of %f.           *)
(***************************************************************************)
importedAnnotationKey(e) == [e EXCEPT !.box = (@ + 5) \div 10]

SameLength(rows, payload) == Cardinality(rows) = Len(payload)

StoredUnrounded(rows, payload) ==
  /\ Cardinality(rows) = Len(payload)
  /\ \A i \in DOMAIN payload : \E a \in rows : a.entry = importedAnnotationKey(payload[i])

(***************************************************************************)
(* Both lists sorted are equal: their entries can be paired off.           *)
(***************************************************************************)
importEntriesMatchSnapshot(rows, payload) ==
  \E f \in [DOMAIN payload -> rows] :
    /\ \A i, j \in DOMAIN payload : f[i] = f[j] => i = j
    /\ \A a \in rows : \E i \in DOMAIN payload : f[i] = a
    /\ \A i \in DOMAIN payload :
         importedAnnotationKey(f[i].entry) = importedAnnotationKey(payload[i])

InsertsMissing(s, payload) ==
  IF importEntriesMatchSnapshot(ListAnnotationsForSnapshot(s), payload) THEN "ok"
  ELSE "running"

Answer(s, payload) ==
  IF ListAnnotationsForSnapshot(s) = {} THEN "running"
  ELSE IF importEntriesMatchSnapshot(ListAnnotationsForSnapshot(s), payload) THEN "ok"
  ELSE "conflict"

Importing(s) == {p \in DOMAIN posts : posts[p].snapshot = s /\ posts[p].outcome = "running"}

(***************************************************************************)
(* History keeps apart a conflict met while another delivery is importing. *)
(***************************************************************************)
ImportSnapshot(r, job) ==
  LET p == Len(posts) + 1
      answer == Answer(job.snapshot, job.payload)
      met == IF answer = "conflict" /\ Importing(job.snapshot) # {}
             THEN "overtaken" ELSE answer
  IN /\ req[r] = Idle
     /\ Len(posts) < MaxPosts
     /\ posts' = Append(posts, [snapshot |-> job.snapshot, payload |-> job.payload,
                                outcome |-> met])
     /\ IF answer = "running"
        THEN /\ Goto(r, [pc |-> "entry", post |-> p, at |-> 1])
             /\ overlaps' = overlaps \union {{p, q} : q \in Importing(job.snapshot)}
        ELSE UNCHANGED <<req, overlaps>>
     /\ UNCHANGED <<items, snapshots, queued, annotations, changes, candidates, audits>>

CompleteImportSnapshot(r) == \E job \in queued : ImportSnapshot(r, job)

Ends(r, outcome) ==
  /\ posts' = [posts EXCEPT ![req[r].post].outcome = outcome]
  /\ Return(r)

PostSnapshot(r) == posts[req[r].post].snapshot

CurrentEntry(r) == posts[req[r].post].payload[req[r].at]

(***************************************************************************)
(* Validation happens in the loop: a bad entry refuses the import after    *)
(* the entries before it were inserted.                                    *)
(***************************************************************************)
GetItemByObjectKey(d, k) == <<d, k>> \in items

LookupCategory(name) == name \in Categories

Refused(r) ==
  LET e == CurrentEntry(r)
  IN \/ e.box = 0
     \/ \E i \in 1..(req[r].at - 1) :
          importedAnnotationKey(posts[req[r].post].payload[i]) = importedAnnotationKey(e)
     \/ ~GetItemByObjectKey(snapshots[PostSnapshot(r)].dataset, e.key)
     \/ ~LookupCategory(e.category)

RefuseEntry(r) ==
  /\ req[r].pc = "entry"
  /\ Refused(r)
  /\ Ends(r, "refused")
  /\ UNCHANGED <<items, snapshots, queued, annotations, changes, candidates, audits, overlaps>>

CreateAnnotation(r) ==
  /\ req[r].pc = "entry"
  /\ ~Refused(r)
  /\ annotations' = annotations \union
       {[snapshot |-> PostSnapshot(r), dataset |-> snapshots[PostSnapshot(r)].dataset,
         entry |-> CurrentEntry(r), source |-> "import",
         ref |-> req[r].post, at |-> req[r].at]}
  /\ Goto(r, [req[r] EXCEPT !.pc = "change"])
  /\ UNCHANGED <<items, snapshots, queued, changes, candidates, audits, posts, overlaps>>

FromSnapshot(s) == IF snapshots[s].based = NoSnapshot THEN s ELSE snapshots[s].based

ChangeSkipped(r) == {}

ChangeRecord(r) ==
  {[from |-> FromSnapshot(PostSnapshot(r)), to |-> PostSnapshot(r),
    entry |-> CurrentEntry(r), ref |-> req[r].post, at |-> req[r].at]}

RecordAnnotationChange(r) ==
  /\ req[r].pc = "change"
  /\ changes' = changes \union ChangeRecord(r)
  /\ IF req[r].at = Len(posts[req[r].post].payload)
     THEN Ends(r, "ok")
     ELSE /\ Goto(r, [pc |-> "entry", post |-> req[r].post, at |-> req[r].at + 1])
          /\ UNCHANGED posts
  /\ UNCHANGED <<items, snapshots, queued, annotations, candidates, audits, overlaps>>

Failed == {p \in DOMAIN posts : posts[p].outcome = "failed"}

ImportFails(r) ==
  /\ req[r].pc \in {"entry", "change"}
  /\ Cardinality(Failed) < MaxFailures
  /\ Ends(r, "failed")
  /\ UNCHANGED <<items, snapshots, queued, annotations, changes, candidates, audits, overlaps>>

-----------------------------------------------------------------------------
(***************************************************************************)
(* Review.  A batch is persisted in one transaction.  A decision is one    *)
(* too; it locks the candidate's row before it looks at the status.        *)
(***************************************************************************)
Persistable(d, e) ==
  e.box # 0 /\ LookupCategory(e.category) /\ GetItemByObjectKey(d, e.key)

PersistCandidates(s, batch) ==
  LET d == snapshots[s].dataset
  IN /\ Len(candidates) + Len(batch) <= MaxCandidates
     /\ \A i \in DOMAIN batch : Persistable(d, batch[i])
     /\ candidates' = candidates \o
          [i \in DOMAIN batch |-> [snapshot |-> s, dataset |-> d, entry |-> batch[i],
                                  status |-> "pending"]]
     /\ UNCHANGED <<items, snapshots, queued, annotations, changes, audits, req,
                    posts, overlaps>>

isQueuedCandidateStatus(status) == status = "pending"

Reviewing(c) == {r \in Requests : req[r] # Idle /\ req[r].pc = "review" /\ req[r].candidate = c}

LockIgnored(c) == TRUE

LockFree(c) == Reviewing(c) = {}

LockCandidate(r, c, decision) ==
  /\ req[r] = Idle
  /\ LockFree(c)
  /\ isQueuedCandidateStatus(candidates[c].status)
  /\ Goto(r, [pc |-> "review", candidate |-> c, decision |-> decision])
  /\ UNCHANGED <<items, snapshots, queued, annotations, changes, candidates, audits,
                 posts, overlaps>>

AcceptCandidate(r, c) == LockCandidate(r, c, "accepted")

RejectCandidate(r, c) == LockCandidate(r, c, "rejected")

Promoted(c) ==
  [snapshot |-> candidates[c].snapshot, dataset |-> candidates[c].dataset,
   entry |-> candidates[c].entry, source |-> "pseudo", ref |-> c, at |-> Len(audits) + 1]

CommitReview(r) ==
  LET c == req[r].candidate
      decision == req[r].decision
  IN /\ req[r].pc = "review"
     /\ candidates' = [candidates EXCEPT ![c].status = decision]
     /\ annotations' = annotations \union (IF decision = "accepted" THEN {Promoted(c)} ELSE {})
     /\ audits' = Append(audits, [candidate |-> c, action |-> decision])
     /\ Return(r)
     /\ UNCHANGED <<items, snapshots, queued, changes, posts, overlaps>>

RollBack(r) ==
  /\ req[r].pc \in {"create", "review"}
  /\ Return(r)
  /\ UNCHANGED <<items, snapshots, queued, annotations, changes, candidates, audits,
                 posts, overlaps>>

-----------------------------------------------------------------------------
DatahubStep ==
  \/ \E d \in Datasets : ScanDataset(d)
  \/ \E s \in DOMAIN snapshots, payload \in Payloads : QueueImport(s, payload)
  \/ \E r \in Requests :
       \/ \E d \in Datasets, based \in 0..Len(snapshots) : CreateSnapshot(r, d, based)
       \/ CompleteImportSnapshot(r)

RequestStep(r) ==
  /\ req[r] # Idle
  /\ \/ InsertSnapshot(r)
     \/ RefuseEntry(r)
     \/ CreateAnnotation(r)
     \/ RecordAnnotationChange(r)
     \/ ImportFails(r)
     \/ CommitReview(r)
     \/ RollBack(r)

ReviewStep ==
  \/ \E s \in DOMAIN snapshots, batch \in Proposals : PersistCandidates(s, batch)
  \/ \E r \in Requests, c \in DOMAIN candidates :
       AcceptCandidate(r, c) \/ RejectCandidate(r, c)

Next == DatahubStep \/ ReviewStep \/ \E r \in Requests : RequestStep(r)

Spec == Init /\ [][Next]_vars

-----------------------------------------------------------------------------
(***************************************************************************)
(* CreateSnapshot: however the counts and inserts of concurrent requests   *)
(* interleave, the snapshots of a dataset are numbered 1, 2, 3, ... in the *)
(* order of their ids, so "the latest version" is the latest id.           *)
(***************************************************************************)
VersionsFollowIds ==
  \A i \in DOMAIN snapshots :
    snapshots[i].version =
      Cardinality({j \in 1..i : snapshots[j].dataset = snapshots[i].dataset})

(***************************************************************************)
(* ImportSnapshot: once a delivery has been answered with success, every   *)
(* entry it carried is in the snapshot, up to the six decimals that are    *)
(* compared, whoever inserted it.                                          *)
(***************************************************************************)
AckedImportIsComplete ==
  \A p \in DOMAIN posts : posts[p].outcome = "ok" =>
    \A i \in DOMAIN posts[p].payload :
      \E a \in ListAnnotationsForSnapshot(posts[p].snapshot) :
        importedAnnotationKey(a.entry) = importedAnnotationKey(posts[p].payload[i])

(***************************************************************************)
(* ImportSnapshot: the change log and the rows tell the same story.  A     *)
(* change is about a row that exists, and an imported row without a change *)
(* belongs to a delivery that is about to record it or was cut short.      *)
(***************************************************************************)
ChangesTellOfRows ==
  /\ \A ch \in changes : \E a \in annotations :
       /\ a.source = "import"
       /\ a.snapshot = ch.to /\ a.entry = ch.entry /\ a.ref = ch.ref /\ a.at = ch.at
  /\ \A a \in annotations : a.source = "import" =>
       \/ \E ch \in changes : ch.to = a.snapshot /\ ch.ref = a.ref /\ ch.at = a.at
       \/ \E r \in Requests : /\ req[r].pc = "change"
                              /\ req[r].post = a.ref /\ req[r].at = a.at
       \/ posts[a.ref].outcome = "failed"

(***************************************************************************)
(* ImportSnapshot: rows of two deliveries meet in one snapshot only when   *)
(* both had listed it as empty.  A delivery that begins after another one  *)
(* has inserted its first row adds nothing.                                *)
(***************************************************************************)
MixedOnlyByOverlap ==
  \A a, b \in annotations :
    a.source = "import" /\ b.source = "import" /\ a.snapshot = b.snapshot /\ a.ref # b.ref
      => {a.ref, b.ref} \in overlaps

(***************************************************************************)
(* transitionCandidate: whoever reviews at the same time, a candidate is   *)
(* decided once, the audit log has that decision, and it is promoted to    *)
(* one row of its snapshot exactly when it was accepted.                   *)
(***************************************************************************)
DecidedOnce ==
  \A c \in DOMAIN candidates :
    /\ \A i, j \in DOMAIN audits :
         audits[i].candidate = c /\ audits[j].candidate = c => i = j
    /\ candidates[c].status # "pending" <=>
         \E i \in DOMAIN audits :
           audits[i].candidate = c /\ audits[i].action = candidates[c].status
    /\ candidates[c].status = "accepted" <=>
         \E a \in annotations : a.source = "pseudo" /\ a.ref = c
    /\ \A a, b \in annotations :
         a.source = "pseudo" /\ b.source = "pseudo" /\ a.ref = c /\ b.ref = c => a = b

(***************************************************************************)
(* ImportSnapshot: a delivery that meets no other one is told of a         *)
(* conflict only when an earlier one carried other entries, was refused or *)
(* cut short half way, or overlapped with a third, or a candidate was      *)
(* accepted into the snapshot.  A replay of a completed import, in         *)
(* whatever order and below the sixth decimal, is never a conflict.        *)
(***************************************************************************)
KeysOf(payload) == {importedAnnotationKey(payload[i]) : i \in DOMAIN payload}

ConflictHasCause ==
  \A p \in DOMAIN posts : posts[p].outcome = "conflict" =>
    \/ \E q \in 1..(p - 1) :
         /\ posts[q].snapshot = posts[p].snapshot
         /\ \/ KeysOf(posts[q].payload) # KeysOf(posts[p].payload)
            \/ Len(posts[q].payload) # Len(posts[p].payload)
            \/ posts[q].outcome \in {"failed", "refused"}
            \/ \E o \in overlaps : q \in o
    \/ \E a \in annotations : a.source = "pseudo" /\ a.snapshot = posts[p].snapshot

=============================================================================
