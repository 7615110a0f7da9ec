--------------------------- MODULE SnapshotProofs ---------------------------
(***************************************************************************)
(* The safety properties of the versions of a dataset: of SnapshotContent  *)
(* for any requests, datasets, payloads, deliveries, candidates and        *)
(* failures; and of SnapshotDiff for any images, categories, boxes and     *)
(* annotations.                                                            *)
(***************************************************************************)
EXTENDS SnapshotContent, SnapshotDiff,
        SequenceTheorems, FiniteSetTheorems, FunctionTheorems, WellFoundedInduction, TLAPS

(***************************************************************************)
(* SnapshotContent.                                                        *)
(***************************************************************************)

Importer(r) == req[r].pc \in {"entry", "change"}

(* Jobs and deliveries are about snapshots that exist, and a delivery that is being worked    *)
(* on is running, at one of its entries, in one request.                                      *)
Placed ==
  /\ \A job \in queued : job.snapshot \in DOMAIN snapshots
  /\ \A p \in DOMAIN posts : posts[p].snapshot \in DOMAIN snapshots

Linked ==
  /\ \A r \in Requests : Importer(r) =>
       /\ req[r].post \in DOMAIN posts
       /\ posts[req[r].post].outcome = "running"
       /\ req[r].at \in DOMAIN posts[req[r].post].payload
  /\ \A r, t \in Requests : Importer(r) /\ Importer(t) /\ req[r].post = req[t].post => r = t

(* A review has a candidate. *)
Held ==
  \A r \in Requests : req[r].pc = "review" => req[r].candidate \in DOMAIN candidates

Base == TypeOK /\ Placed /\ Linked /\ Held

-----------------------------------------------------------------------------
(* The fields of a request by the place it is at. *)
LEMMA RequestTyped ==
  ASSUME TypeOK, NEW r \in Requests
  PROVE  /\ req[r] # Idle => req[r] \in Request
         /\ req[r].pc = "create" => /\ req[r].dataset \in Datasets
                                    /\ req[r].version \in Nat /\ req[r].based \in Nat
         /\ Importer(r) => req[r].post \in Nat /\ req[r].at \in Nat
         /\ req[r].pc = "review" => /\ req[r].candidate \in Nat
                                    /\ req[r].decision \in {"accepted", "rejected"}
<1>1. req[r] \in Request \union {Idle}
  BY DEF TypeOK
<1> QED
  BY <1>1 DEF Request, Idle, Importer

(* A delivery stays what it is, and its outcome changes only while it is running. *)
PostsKept ==
  /\ Len(posts) <= Len(posts')
  /\ \A p \in DOMAIN posts :
       /\ p \in DOMAIN posts'
       /\ posts'[p].snapshot = posts[p].snapshot
       /\ posts'[p].payload = posts[p].payload
       /\ posts'[p].outcome = posts[p].outcome \/ posts[p].outcome = "running"

(* A delivery that ends gets its outcome, and no other changes.                               *)
LEMMA EndsTyped ==
  ASSUME TypeOK, Linked, NEW r \in Requests, NEW outcome \in Outcomes, Importer(r), Ends(r, outcome)
  PROVE  /\ posts' \in Seq(Post) /\ PostsKept
         /\ Len(posts') = Len(posts)
         /\ posts'[req[r].post].outcome = outcome
         /\ \A p \in DOMAIN posts : p # req[r].post => posts'[p] = posts[p]
         /\ req' = [req EXCEPT ![r] = Idle]
<1> DEFINE p == req[r].post
           e == [posts[p] EXCEPT !.outcome = outcome]
<1>1. p \in 1..Len(posts) /\ posts \in Seq(Post) /\ posts[p].outcome = "running"
  BY DEF Linked, TypeOK
<1>2. posts[p] \in Post
  BY <1>1, ElementOfSeq
<1>3. /\ e \in Post /\ e.outcome = outcome
      /\ e.snapshot = posts[p].snapshot /\ e.payload = posts[p].payload
  BY <1>2 DEF Post
<1>4. posts' = [posts EXCEPT ![p] = e]
  BY DEF Ends
<1> HIDE DEF e
<1>5. /\ posts' \in Seq(Post) /\ Len(posts') = Len(posts)
      /\ \A j \in 1..Len(posts) : posts'[j] = IF j = p THEN e ELSE posts[j]
  BY <1>1, <1>3, <1>4, ExceptSeq
<1>6. DOMAIN posts = 1..Len(posts) /\ DOMAIN posts' = 1..Len(posts) /\ Len(posts) \in Nat
  BY <1>1, <1>5, LenProperties
<1>7. PostsKept
  BY <1>1, <1>3, <1>5, <1>6 DEF PostsKept
<1> QED
  BY <1>1, <1>3, <1>5, <1>6, <1>7 DEF Ends, Return, Goto

(* ImportSnapshot adds a delivery. *)
LEMMA ImportTyped ==
  ASSUME TypeOK, Placed, NEW r \in Requests, NEW job \in queued, ImportSnapshot(r, job)
  PROVE  /\ posts' \in Seq(Post) /\ PostsKept
         /\ Len(posts') = Len(posts) + 1
         /\ posts'[Len(posts) + 1].snapshot = job.snapshot
         /\ posts'[Len(posts) + 1].payload = job.payload
         /\ posts'[Len(posts) + 1].outcome = "running" <=> Answer(job.snapshot, job.payload) = "running"
         /\ posts'[Len(posts) + 1].outcome = "ok" => Answer(job.snapshot, job.payload) = "ok"
         /\ posts'[Len(posts) + 1].outcome \in {"running", "ok", "conflict", "overtaken"}
         /\ \A p \in DOMAIN posts : posts'[p] = posts[p]
         /\ job.snapshot \in DOMAIN snapshots /\ job.payload \in Seq(Entry) /\ job.payload # <<>>
<1> DEFINE answer == Answer(job.snapshot, job.payload)
           met == IF answer = "conflict" /\ Importing(job.snapshot) # {} THEN "overtaken" ELSE answer
           new == [snapshot |-> job.snapshot, payload |-> job.payload, outcome |-> met]
<1>1. posts \in Seq(Post) /\ Len(posts) \in Nat
  BY DEF TypeOK
<1>2. job.snapshot \in Nat /\ job.payload \in Payloads
  BY DEF TypeOK, Import
<1>3. answer \in {"running", "ok", "conflict"}
  BY DEF Answer
<1>4. posts' = Append(posts, new)
  BY DEF ImportSnapshot
<1>5. new \in Post
  BY <1>2, <1>3 DEF Post, Outcomes
<1>6. /\ posts' \in Seq(Post) /\ Len(posts') = Len(posts) + 1
      /\ posts'[Len(posts) + 1] = new
      /\ \A p \in DOMAIN posts : posts'[p] = posts[p]
      /\ DOMAIN posts = 1..Len(posts) /\ DOMAIN posts' = 1..(Len(posts) + 1)
  <2> HIDE DEF new
  <2> QED BY <1>1, <1>4, <1>5
<1>7. PostsKept
  BY <1>1, <1>6 DEF PostsKept
<1>8. job.snapshot \in DOMAIN snapshots
  BY DEF Placed
<1>9. job.payload \in Seq(Entry) /\ job.payload # <<>>
  BY <1>2, SnapshotContentAssumption
<1> QED
  BY <1>3, <1>6, <1>7, <1>8, <1>9

(* PersistCandidates adds candidates that nobody has looked at. *)
LEMMA PersistTyped ==
  ASSUME TypeOK, NEW s \in DOMAIN snapshots, NEW batch \in Proposals, PersistCandidates(s, batch)
  PROVE  /\ candidates' \in Seq(Candidate) /\ Len(candidates) <= Len(candidates')
         /\ \A c \in DOMAIN candidates : c \in DOMAIN candidates' /\ candidates'[c] = candidates[c]
         /\ \A c \in DOMAIN candidates' : c \notin DOMAIN candidates => candidates'[c].status = "pending"
<1> DEFINE d == snapshots[s].dataset
           new == [i \in DOMAIN batch |-> [snapshot |-> s, dataset |-> d, entry |-> batch[i],
                                           status |-> "pending"]]
<1>1. snapshots \in Seq(Snapshot) /\ candidates \in Seq(Candidate)
  BY DEF TypeOK
<1>2. s \in Nat /\ snapshots[s] \in Snapshot
  BY <1>1, LenProperties
<1>3. d \in Datasets
  BY <1>2 DEF Snapshot
<1>4. batch \in Seq(Entry)
  BY SnapshotContentAssumption
<1>5. /\ Len(batch) \in Nat /\ DOMAIN batch = 1..Len(batch)
      /\ \A i \in 1..Len(batch) : batch[i] \in Entry
  BY <1>4, LenProperties
<1>6. new \in [1..Len(batch) -> Candidate] /\ \A i \in 1..Len(batch) : new[i].status = "pending"
  BY <1>2, <1>3, <1>5 DEF Candidate
<1>7. new \in Seq(Candidate) /\ Len(new) = Len(batch)
  <2> HIDE DEF new
  <2>1. new \in Seq(Candidate)
    BY <1>5, <1>6, SeqDef
  <2> QED BY <2>1, <1>5, <1>6, LenProperties
<1>8. candidates' = candidates \o new
  BY DEF PersistCandidates
<1> HIDE DEF new, d
<1>9. /\ candidates' \in Seq(Candidate) /\ Len(candidates') = Len(candidates) + Len(batch)
      /\ \A i \in 1..(Len(candidates) + Len(batch)) :
           candidates'[i] = IF i <= Len(candidates) THEN candidates[i] ELSE new[i - Len(candidates)]
  <2>1. /\ candidates \o new \in Seq(Candidate)
        /\ Len(candidates \o new) = Len(candidates) + Len(new)
        /\ \A i \in 1..(Len(candidates) + Len(new)) :
             (candidates \o new)[i] = IF i <= Len(candidates) THEN candidates[i] ELSE new[i - Len(candidates)]
    BY <1>1, <1>7, ConcatProperties, Zenon
  <2> QED BY <1>7, <1>8, <2>1, Zenon
<1>10. /\ DOMAIN candidates = 1..Len(candidates) /\ Len(candidates) \in Nat
       /\ DOMAIN candidates' = 1..(Len(candidates) + Len(batch))
  BY <1>1, <1>9, LenProperties
<1> QED
  BY <1>5, <1>6, <1>9, <1>10

(* CommitReview decides one candidate. *)
LEMMA CommitTyped ==
  ASSUME TypeOK, Held, NEW r \in Requests, CommitReview(r)
  PROVE  /\ candidates' \in Seq(Candidate) /\ DOMAIN candidates' = DOMAIN candidates
         /\ req[r].candidate \in DOMAIN candidates
         /\ candidates'[req[r].candidate].status = req[r].decision
         /\ \A c \in DOMAIN candidates : c # req[r].candidate => candidates'[c] = candidates[c]
         /\ Promoted(req[r].candidate) \in Row
         /\ audits' \in Seq([candidate: Nat, action: {"accepted", "rejected"}])
         /\ Len(audits') = Len(audits) + 1 /\ Len(audits) \in Nat
         /\ audits'[Len(audits) + 1] = [candidate |-> req[r].candidate, action |-> req[r].decision]
         /\ \A i \in DOMAIN audits : audits'[i] = audits[i]
<1> DEFINE c == req[r].candidate
           e == [candidates[c] EXCEPT !.status = req[r].decision]
<1>1. req[r].pc = "review"
  BY DEF CommitReview
<1>2. c \in DOMAIN candidates /\ c \in Nat /\ req[r].decision \in {"accepted", "rejected"}
  BY <1>1, RequestTyped DEF Held
<1>3. candidates \in Seq(Candidate) /\ DOMAIN candidates = 1..Len(candidates)
  BY LenProperties DEF TypeOK
<1>4. candidates[c] \in Candidate
  BY <1>2, <1>3, ElementOfSeq
<1>5. e \in Candidate /\ e.status = req[r].decision
  BY <1>2, <1>4 DEF Candidate
<1>6. candidates' = [candidates EXCEPT ![c] = e]
  BY DEF CommitReview
<1>7. Len(audits) \in Nat /\ audits \in Seq([candidate: Nat, action: {"accepted", "rejected"}])
  BY DEF TypeOK
<1>8. Promoted(c) \in Row
  BY <1>2, <1>4, <1>7 DEF Promoted, Row, Candidate
<1>9. audits' = Append(audits, [candidate |-> c, action |-> req[r].decision])
  BY DEF CommitReview
<1>10. [candidate |-> c, action |-> req[r].decision] \in [candidate: Nat, action: {"accepted", "rejected"}]
  BY <1>2
<1> HIDE DEF e, c
<1>11. /\ candidates' \in Seq(Candidate) /\ Len(candidates') = Len(candidates)
       /\ \A j \in 1..Len(candidates) : candidates'[j] = IF j = c THEN e ELSE candidates[j]
  BY <1>2, <1>3, <1>5, <1>6, ExceptSeq
<1>12. DOMAIN candidates' = 1..Len(candidates)
  BY <1>11, LenProperties
<1>13. /\ audits' \in Seq([candidate: Nat, action: {"accepted", "rejected"}])
       /\ Len(audits') = Len(audits) + 1
       /\ audits'[Len(audits) + 1] = [candidate |-> c, action |-> req[r].decision]
       /\ \A i \in DOMAIN audits : audits'[i] = audits[i]
  BY <1>7, <1>9, <1>10
<1> QED
  BY <1>2, <1>3, <1>5, <1>7, <1>8, <1>11, <1>12, <1>13 DEF c

(* Snapshots are added and never change. *)
LEMMA SnapshotsGrow ==
  ASSUME TypeOK, NEW r \in Requests, InsertSnapshot(r)
  PROVE  /\ snapshots' \in Seq(Snapshot) /\ Len(snapshots) \in Nat
         /\ \A s \in DOMAIN snapshots : s \in DOMAIN snapshots' /\ snapshots'[s] = snapshots[s]
<1>1. snapshots \in Seq(Snapshot) /\ Len(snapshots) \in Nat
  BY DEF TypeOK
<1>2. [dataset |-> req[r].dataset, version |-> req[r].version, based |-> req[r].based] \in Snapshot
  BY RequestTyped DEF InsertSnapshot, Snapshot
<1> QED
  BY <1>1, <1>2 DEF InsertSnapshot

(* What a delivery inserts is a row and a change. *)
LEMMA InsertTyped ==
  ASSUME TypeOK, Placed, Linked, NEW r \in Requests, Importer(r)
  PROVE  /\ PostSnapshot(r) \in DOMAIN snapshots /\ PostSnapshot(r) \in Nat
         /\ CurrentEntry(r) \in Entry
         /\ snapshots[PostSnapshot(r)].dataset \in Datasets
         /\ FromSnapshot(PostSnapshot(r)) \in Nat
         /\ posts[req[r].post].payload \in Seq(Entry)
         /\ DOMAIN posts[req[r].post].payload = 1..Len(posts[req[r].post].payload)
         /\ req[r].post \in Nat /\ req[r].at \in Nat
<1>1. req[r].post \in DOMAIN posts /\ req[r].at \in DOMAIN posts[req[r].post].payload
  BY DEF Linked
<1>2. posts[req[r].post] \in Post
  BY <1>1, LenProperties DEF TypeOK
<1>3. posts[req[r].post].payload \in Seq(Entry) /\ posts[req[r].post].snapshot \in Nat
  BY <1>2, SnapshotContentAssumption DEF Post
<1>4. CurrentEntry(r) \in Entry
  BY <1>1, <1>3, LenProperties DEF CurrentEntry
<1>5. PostSnapshot(r) \in DOMAIN snapshots /\ PostSnapshot(r) \in Nat
  BY <1>1, <1>3 DEF PostSnapshot, Placed
<1>6. snapshots[PostSnapshot(r)] \in Snapshot
  BY <1>5, LenProperties DEF TypeOK
<1>7. FromSnapshot(PostSnapshot(r)) \in Nat /\ snapshots[PostSnapshot(r)].dataset \in Datasets
  BY <1>5, <1>6 DEF FromSnapshot, Snapshot
<1> QED
  BY <1>3, <1>4, <1>5, <1>7, LenProperties, RequestTyped

(* The request that moves, and the others that do not. *)
LEMMA Moves ==
  ASSUME TypeOK, NEW r \in Requests, NEW next \in Request \union {Idle}, Goto(r, next)
  PROVE  /\ req' \in [Requests -> Request \union {Idle}]
         /\ req'[r] = next
         /\ \A t \in Requests \ {r} : req'[t] = req[t]
<1>1. req \in [Requests -> Request \union {Idle}]
  BY DEF TypeOK
<1> QED
  <2> HIDE DEF Request, Idle
  <2> QED BY <1>1 DEF Goto

-----------------------------------------------------------------------------
(* Types, and what deliveries and reviews refer to, in every step. *)
LEMMA BaseStep == Base /\ [Next]_vars => Base'
<1> SUFFICES ASSUME Base, [Next]_vars PROVE Base'
  OBVIOUS
<1> USE DEF Base
<1>1. CASE UNCHANGED vars
  BY <1>1 DEF vars, TypeOK, Placed, Linked, Held, Importer
<1>2. ASSUME NEW d \in Datasets, NEW k \in Keys, UpsertScannedItems(d, k) PROVE Base'
  BY <1>2 DEF UpsertScannedItems, TypeOK, Placed, Linked, Held, Importer
<1>3. ASSUME NEW s \in DOMAIN snapshots, NEW payload \in Payloads, QueueImport(s, payload) PROVE Base'
  <2>1. s \in Nat
    BY LenProperties DEF TypeOK
  <2>2. [snapshot |-> s, payload |-> payload] \in Import
    BY <2>1 DEF Import
  <2> QED
    BY <1>3, <2>2 DEF QueueImport, TypeOK, Placed, Linked, Held, Importer
<1>4. ASSUME NEW r \in Requests, NEW d \in Datasets, NEW based \in 0..Len(snapshots),
             CreateSnapshot(r, d, based) PROVE Base'
  <2> DEFINE next == [pc |-> "create", dataset |-> d, based |-> based, version |-> NextVersion(d)]
  <2>1. Len(snapshots) \in Nat /\ DOMAIN snapshots = 1..Len(snapshots)
    BY LenProperties DEF TypeOK
  <2>2. IsFiniteSet(SnapshotsOf(d))
    <3>1. IsFiniteSet(1..Len(snapshots))
      BY <2>1, FS_Interval
    <3>2. SnapshotsOf(d) \in SUBSET (1..Len(snapshots))
      BY <2>1 DEF SnapshotsOf
    <3> QED BY <3>1, <3>2, FS_Subset
  <2>3. NextVersion(d) \in Nat
    BY <2>2, FS_CardinalityType DEF NextVersion
  <2>4. next \in Request
    BY <2>1, <2>3 DEF Request
  <2>5. Goto(r, next) /\ next.pc = "create"
    BY <1>4 DEF CreateSnapshot
  <2> HIDE DEF next
  <2>6. req' \in [Requests -> Request \union {Idle}] /\ req'[r] = next
        /\ \A t \in Requests \ {r} : req'[t] = req[t]
    BY <2>4, <2>5, Moves
  <2> QED
    BY <1>4, <2>5, <2>6 DEF CreateSnapshot, TypeOK, Placed, Linked, Held, Importer
<1>5. ASSUME NEW r \in Requests, NEW job \in queued, ImportSnapshot(r, job) PROVE Base'
  <2> DEFINE next == [pc |-> "entry", post |-> Len(posts) + 1, at |-> 1]
  <2>1. /\ posts' \in Seq(Post) /\ PostsKept /\ Len(posts') = Len(posts) + 1
        /\ posts'[Len(posts) + 1].snapshot = job.snapshot
        /\ posts'[Len(posts) + 1].payload = job.payload
        /\ posts'[Len(posts) + 1].outcome = "running" <=> Answer(job.snapshot, job.payload) = "running"
        /\ \A p \in DOMAIN posts : posts'[p] = posts[p]
        /\ job.snapshot \in DOMAIN snapshots /\ job.payload \in Seq(Entry) /\ job.payload # <<>>
    BY <1>5, ImportTyped
  <2>2. Len(posts) \in Nat /\ DOMAIN posts = 1..Len(posts) /\ DOMAIN posts' = 1..(Len(posts) + 1)
    BY <2>1, LenProperties DEF TypeOK
  <2>3. 1 \in DOMAIN job.payload
    BY <2>1, EmptySeq, LenProperties
  <2>4. overlaps' \subseteq SUBSET Nat
    <3>1. overlaps \subseteq SUBSET Nat
      BY DEF TypeOK
    <3>2. \A q \in Importing(job.snapshot) : {Len(posts) + 1, q} \in SUBSET Nat
      BY <2>2 DEF Importing
    <3> DEFINE pairs == {{Len(posts) + 1, q} : q \in Importing(job.snapshot)}
    <3>3. overlaps' = overlaps \union pairs \/ overlaps' = overlaps
      BY <1>5 DEF ImportSnapshot
    <3>4. pairs \subseteq SUBSET Nat
      BY <3>2
    <3> HIDE DEF pairs
    <3> QED
      BY <3>1, <3>3, <3>4
  <2>5. Placed'
    BY <1>5, <2>1, <2>2 DEF ImportSnapshot, Placed
  <2>6. next \in Request /\ next.pc = "entry" /\ next.post = Len(posts) + 1 /\ next.at = 1
    BY <2>2 DEF Request
  <2> HIDE DEF next
  <2>7. CASE Answer(job.snapshot, job.payload) = "running"
    <3>1. Goto(r, next)
      BY <1>5, <2>7 DEF ImportSnapshot, next
    <3>2. req' \in [Requests -> Request \union {Idle}] /\ req'[r] = next
          /\ \A t \in Requests \ {r} : req'[t] = req[t]
      BY <2>6, <3>1, Moves
    <3>3. TypeOK'
      BY <1>5, <2>1, <2>4, <3>2 DEF ImportSnapshot, TypeOK
    <3>4. Linked'
      <4>1. /\ next.post \in DOMAIN posts' /\ posts'[next.post].outcome = "running"
            /\ next.at \in DOMAIN posts'[next.post].payload /\ next.post \notin DOMAIN posts
        BY <2>1, <2>2, <2>3, <2>6, <2>7
      <4>2. \A t \in Requests \ {r} : Importer(t)' =>
              /\ Importer(t) /\ req'[t] = req[t]
              /\ req[t].post \in DOMAIN posts /\ req[t].post \in DOMAIN posts'
              /\ posts'[req[t].post] = posts[req[t].post]
        BY <2>1, <2>2, <3>2 DEF Linked, Importer
      <4> QED
        BY <3>2, <4>1, <4>2 DEF Linked
    <3> QED
      BY <1>5, <2>5, <2>6, <3>2, <3>3, <3>4 DEF ImportSnapshot, Held
  <2>8. CASE Answer(job.snapshot, job.payload) # "running"
    <3>1. req' = req
      BY <1>5, <2>8 DEF ImportSnapshot
    <3>2. TypeOK'
      BY <1>5, <2>1, <2>4, <3>1 DEF ImportSnapshot, TypeOK
    <3>3. Linked'
      BY <2>1, <2>2, <3>1 DEF Linked, Importer
    <3> QED
      BY <1>5, <2>5, <3>1, <3>2, <3>3 DEF ImportSnapshot, Held
  <2> QED BY <2>7, <2>8
<1>6. ASSUME NEW r \in Requests, InsertSnapshot(r) \/ RollBack(r) PROVE Base'
  <2>1. Goto(r, Idle)
    BY <1>6 DEF InsertSnapshot, RollBack, Return
  <2>2. req' \in [Requests -> Request \union {Idle}] /\ req'[r] = Idle
        /\ \A t \in Requests \ {r} : req'[t] = req[t]
    BY <2>1, Moves
  <2>3. snapshots' \in Seq(Snapshot) /\ \A s \in DOMAIN snapshots : s \in DOMAIN snapshots'
    BY <1>6, SnapshotsGrow DEF RollBack, TypeOK
  <2>4. TypeOK'
    BY <1>6, <2>2, <2>3 DEF InsertSnapshot, RollBack, TypeOK
  <2>5. Placed'
    BY <1>6, <2>3 DEF InsertSnapshot, RollBack, Placed
  <2>6. Linked' /\ Held'
    BY <1>6, <2>2 DEF InsertSnapshot, RollBack, Linked, Held, Importer, Idle
  <2> QED
    BY <2>4, <2>5, <2>6
<1>7. ASSUME NEW r \in Requests, NEW outcome \in Outcomes, Importer(r), Ends(r, outcome),
             UNCHANGED <<items, snapshots, queued, candidates, audits, overlaps>>,
             annotations' \subseteq Row, changes' \subseteq Change
      PROVE  Base'
  <2>1. /\ posts' \in Seq(Post) /\ Len(posts') = Len(posts) /\ PostsKept
        /\ \A p \in DOMAIN posts : p # req[r].post => posts'[p] = posts[p]
    BY <1>7, EndsTyped
  <2>2. DOMAIN posts' = DOMAIN posts
    BY <2>1, LenProperties DEF TypeOK
  <2>3. req' \in [Requests -> Request \union {Idle}] /\ req'[r] = Idle
        /\ \A t \in Requests \ {r} : req'[t] = req[t]
    BY <1>7, Moves DEF Ends, Return
  <2>4. TypeOK'
    BY <1>7, <2>1, <2>3 DEF TypeOK
  <2>5. Placed'
    BY <1>7, <2>1, <2>2 DEF Placed, PostsKept
  <2>6. Linked'
    BY <1>7, <2>1, <2>2, <2>3 DEF Linked, Importer, Idle
  <2> QED
    BY <1>7, <2>3, <2>4, <2>5, <2>6 DEF Held, Idle
<1>8. ASSUME NEW r \in Requests, RefuseEntry(r) \/ ImportFails(r) PROVE Base'
  <2>1. Importer(r) /\ \E o \in Outcomes : Ends(r, o)
    BY <1>8 DEF RefuseEntry, ImportFails, Importer, Outcomes
  <2> QED
    BY <1>7, <1>8, <2>1 DEF RefuseEntry, ImportFails, TypeOK
<1>9. ASSUME NEW r \in Requests, CreateAnnotation(r) PROVE Base'
  <2> DEFINE next == [req[r] EXCEPT !.pc = "change"]
             row == [snapshot |-> PostSnapshot(r), dataset |-> snapshots[PostSnapshot(r)].dataset,
                     entry |-> CurrentEntry(r), source |-> "import",
                     ref |-> req[r].post, at |-> req[r].at]
  <2>1. req[r].pc = "entry" /\ Importer(r)
    BY <1>9 DEF CreateAnnotation, Importer
  <2>2. row \in Row
    BY <2>1, InsertTyped DEF Row
  <2>3. next \in Request /\ next.pc = "change" /\ next.post = req[r].post /\ next.at = req[r].at
    <3>1. req[r] \in Request
      BY <2>1, RequestTyped DEF Idle
    <3> QED BY <2>1, <3>1 DEF Request
  <2>4. Goto(r, next) /\ annotations' = annotations \union {row}
    BY <1>9 DEF CreateAnnotation
  <2> HIDE DEF next, row
  <2>5. req' \in [Requests -> Request \union {Idle}] /\ req'[r] = next
        /\ \A t \in Requests \ {r} : req'[t] = req[t]
    BY <2>3, <2>4, Moves
  <2>6. TypeOK'
    BY <1>9, <2>2, <2>4, <2>5 DEF CreateAnnotation, TypeOK
  <2>7. Linked'
    BY <1>9, <2>1, <2>3, <2>5 DEF CreateAnnotation, Linked, Importer
  <2> QED
    BY <1>9, <2>3, <2>5, <2>6, <2>7 DEF CreateAnnotation, Placed, Held
<1>10. ASSUME NEW r \in Requests, RecordAnnotationChange(r) PROVE Base'
  <2>1. req[r].pc = "change" /\ Importer(r)
    BY <1>10 DEF RecordAnnotationChange, Importer
  <2>2. ChangeRecord(r) \subseteq Change
    BY <2>1, InsertTyped DEF ChangeRecord, Change
  <2>3. changes' \subseteq Change
    BY <1>10, <2>2 DEF RecordAnnotationChange, TypeOK
  <2>4. CASE req[r].at = Len(posts[req[r].post].payload)
    <3>1. Ends(r, "ok")
      BY <1>10, <2>4 DEF RecordAnnotationChange
    <3> QED
      BY <1>7, <1>10, <2>1, <2>3, <3>1 DEF RecordAnnotationChange, TypeOK, Outcomes
  <2>5. CASE req[r].at # Len(posts[req[r].post].payload)
    <3> DEFINE next == [pc |-> "entry", post |-> req[r].post, at |-> req[r].at + 1]
    <3>1. next \in Request /\ next.pc = "entry" /\ next.post = req[r].post /\ next.at = req[r].at + 1
      BY <2>1, RequestTyped DEF Request
    <3>2. Goto(r, next) /\ posts' = posts
      BY <1>10, <2>5 DEF RecordAnnotationChange
    <3> HIDE DEF next
    <3>3. req' \in [Requests -> Request \union {Idle}] /\ req'[r] = next
          /\ \A t \in Requests \ {r} : req'[t] = req[t]
      BY <3>1, <3>2, Moves
    <3>4. TypeOK'
      BY <1>10, <2>3, <3>2, <3>3 DEF RecordAnnotationChange, TypeOK
    <3>5. req[r].at + 1 \in DOMAIN posts[req[r].post].payload
      <4>1. req[r].at \in DOMAIN posts[req[r].post].payload
        BY <2>1 DEF Linked
      <4>2. /\ DOMAIN posts[req[r].post].payload = 1..Len(posts[req[r].post].payload)
            /\ Len(posts[req[r].post].payload) \in Nat
        BY <2>1, InsertTyped, LenProperties
      <4> QED BY <2>5, <4>1, <4>2
    <3>6. Linked'
      BY <2>1, <3>1, <3>2, <3>3, <3>5 DEF Linked, Importer
    <3> QED
      BY <1>10, <3>1, <3>2, <3>3, <3>4, <3>6 DEF RecordAnnotationChange, Placed, Held
  <2> QED BY <2>4, <2>5
<1>11. ASSUME NEW r \in Requests, CommitReview(r) PROVE Base'
  <2>1. req' \in [Requests -> Request \union {Idle}] /\ req'[r] = Idle
        /\ \A t \in Requests \ {r} : req'[t] = req[t]
    BY <1>11, Moves DEF CommitReview, Return
  <2>2. /\ candidates' \in Seq(Candidate) /\ DOMAIN candidates' = DOMAIN candidates
        /\ Promoted(req[r].candidate) \in Row
        /\ audits' \in Seq([candidate: Nat, action: {"accepted", "rejected"}])
    BY <1>11, CommitTyped
  <2>3. annotations' \subseteq Row
    BY <1>11, <2>2 DEF CommitReview, TypeOK
  <2>4. TypeOK'
    BY <1>11, <2>1, <2>2, <2>3 DEF CommitReview, TypeOK
  <2>5. Placed'
    BY <1>11 DEF CommitReview, Placed
  <2>6. Linked'
    BY <1>11, <2>1 DEF CommitReview, Linked, Importer, Idle
  <2>7. Held'
    BY <2>1, <2>2 DEF Held, Idle
  <2> QED
    BY <2>4, <2>5, <2>6, <2>7
<1>12. ASSUME NEW s \in DOMAIN snapshots, NEW batch \in Proposals, PersistCandidates(s, batch) PROVE Base'
  <2>1. candidates' \in Seq(Candidate) /\ \A c \in DOMAIN candidates : c \in DOMAIN candidates'
    BY <1>12, PersistTyped
  <2> QED
    BY <1>12, <2>1 DEF PersistCandidates, TypeOK, Placed, Linked, Held, Importer
<1>13. ASSUME NEW r \in Requests, NEW c \in DOMAIN candidates, NEW decision \in {"accepted", "rejected"},
              LockCandidate(r, c, decision) PROVE Base'
  <2> DEFINE next == [pc |-> "review", candidate |-> c, decision |-> decision]
  <2>1. next \in Request /\ next.pc = "review" /\ next.candidate = c
    BY LenProperties DEF Request, TypeOK
  <2>2. Goto(r, next)
    BY <1>13 DEF LockCandidate
  <2> HIDE DEF next
  <2>3. req' \in [Requests -> Request \union {Idle}] /\ req'[r] = next
        /\ \A t \in Requests \ {r} : req'[t] = req[t]
    BY <2>1, <2>2, Moves
  <2>4. TypeOK'
    BY <1>13, <2>1, <2>3 DEF LockCandidate, TypeOK
  <2>5. Linked'
    BY <1>13, <2>1, <2>3 DEF LockCandidate, Linked, Importer
  <2>6. Held'
    BY <1>13, <2>1, <2>3 DEF LockCandidate, Held
  <2>7. Placed'
    BY <1>13 DEF LockCandidate, Placed
  <2> QED
    BY <2>4, <2>5, <2>6, <2>7
<1> QED
  BY <1>1, <1>2, <1>3, <1>4, <1>5, <1>6, <1>8, <1>9, <1>10, <1>11, <1>12, <1>13
     DEF Next, DatahubStep, ReviewStep, RequestStep, ScanDataset, CompleteImportSnapshot,
         AcceptCandidate, RejectCandidate

-----------------------------------------------------------------------------
(* Imports.  A row is an entry of a delivery that named its snapshot, and a delivery has      *)
(* inserted every entry before the one it is at.                                              *)
Imported(a) == a.source = "import"

RowsOfPosts ==
  \A a \in annotations : Imported(a) =>
    /\ a.ref \in DOMAIN posts
    /\ a.snapshot = posts[a.ref].snapshot
    /\ a.at \in DOMAIN posts[a.ref].payload
    /\ a.entry = posts[a.ref].payload[a.at]

IsInserted(p, i) == \E a \in annotations : Imported(a) /\ a.ref = p /\ a.at = i

InsertedBy(r) ==
  \A i \in DOMAIN posts[req[r].post].payload :
    i < req[r].at \/ (i = req[r].at /\ req[r].pc = "change") => IsInserted(req[r].post, i)

Inserted == \A r \in Requests : Importer(r) => InsertedBy(r)

(* Deliveries into one snapshot that are running at the same time have overlapped, and so has *)
(* a running delivery with one whose rows are in its snapshot.                                *)
Alongside ==
  /\ \A p, q \in DOMAIN posts :
       /\ p # q /\ posts[p].snapshot = posts[q].snapshot
       /\ posts[p].outcome = "running" /\ posts[q].outcome = "running"
       => {p, q} \in overlaps
  /\ \A a \in annotations, p \in DOMAIN posts :
       /\ Imported(a) /\ a.ref # p /\ a.snapshot = posts[p].snapshot
       /\ posts[p].outcome = "running"
       => {a.ref, p} \in overlaps

(* A step that imports nothing. *)
Elsewhere ==
  /\ UNCHANGED <<posts, overlaps, changes>>
  /\ annotations \subseteq annotations'
  /\ \A a \in annotations' : Imported(a) => a \in annotations
  /\ \A r \in Requests : /\ Importer(r)' <=> Importer(r)
                         /\ Importer(r) => req'[r] = req[r]

(* A request that is not importing and goes to a place where it is not. *)
LEMMA Aside ==
  ASSUME Base, NEW r \in Requests, ~Importer(r), NEW next, Goto(r, next),
         next.pc \notin {"entry", "change"}
  PROVE  \A t \in Requests : /\ Importer(t)' <=> Importer(t)
                             /\ Importer(t) => req'[t] = req[t]
<1>1. DOMAIN req = Requests
  BY DEF Base, TypeOK
<1>2. req'[r] = next /\ \A t \in Requests \ {r} : req'[t] = req[t]
  BY <1>1 DEF Goto
<1> TAKE t \in Requests
<1>3. CASE t = r
  <2>1. ~(req'[r].pc \in {"entry", "change"})
    BY <1>2
  <2> QED
    BY <1>3, <2>1 DEF Importer
<1>4. CASE t # r
  BY <1>2, <1>4 DEF Importer
<1> QED
  BY <1>3, <1>4

(* The steps that touch deliveries, imported rows or the change log.                          *)
LEMMA ImportSteps ==
  ASSUME Base, [Next]_vars
  PROVE  \/ Elsewhere
         \/ \E r \in Requests, job \in queued : ImportSnapshot(r, job)
         \/ \E r \in Requests : RefuseEntry(r) \/ ImportFails(r)
         \/ \E r \in Requests : CreateAnnotation(r)
         \/ \E r \in Requests : RecordAnnotationChange(r)
<1> USE DEF Base
<1>1. CASE UNCHANGED vars
  BY <1>1 DEF vars, Elsewhere, Importer
<1>2. ASSUME NEW d \in Datasets, NEW k \in Keys, UpsertScannedItems(d, k) PROVE Elsewhere
  BY <1>2 DEF UpsertScannedItems, Elsewhere, Importer
<1>3. ASSUME NEW s \in DOMAIN snapshots, NEW payload \in Payloads, QueueImport(s, payload) PROVE Elsewhere
  BY <1>3 DEF QueueImport, Elsewhere, Importer
<1>4. ASSUME NEW r \in Requests, NEW d \in Datasets, NEW based \in 0..Len(snapshots),
             CreateSnapshot(r, d, based) PROVE Elsewhere
  <2> DEFINE next == [pc |-> "create", dataset |-> d, based |-> based, version |-> NextVersion(d)]
  <2>1. ~Importer(r) /\ Goto(r, next) /\ next.pc = "create"
    BY <1>4 DEF CreateSnapshot, Importer, Idle
  <2> HIDE DEF next
  <2> QED
    BY <1>4, <2>1, Aside DEF CreateSnapshot, Elsewhere
<1>5. ASSUME NEW r \in Requests, InsertSnapshot(r) \/ RollBack(r) PROVE Elsewhere
  <2>1. ~Importer(r) /\ Goto(r, Idle) /\ Idle.pc = "idle"
    BY <1>5 DEF InsertSnapshot, RollBack, Return, Importer, Idle
  <2> QED
    BY <1>5, <2>1, Aside DEF InsertSnapshot, RollBack, Elsewhere
<1>6. ASSUME NEW r \in Requests, CommitReview(r) PROVE Elsewhere
  <2>1. ~Importer(r) /\ Goto(r, Idle) /\ Idle.pc = "idle"
    BY <1>6 DEF CommitReview, Return, Importer, Idle
  <2>2. ~Imported(Promoted(req[r].candidate))
    BY DEF Promoted, Imported
  <2>3. \/ annotations' = annotations \union {Promoted(req[r].candidate)}
        \/ annotations' = annotations
    BY <1>6 DEF CommitReview
  <2>4. /\ annotations \subseteq annotations'
        /\ \A a \in annotations' : Imported(a) => a \in annotations
    <3> HIDE DEF Promoted, Imported
    <3> QED BY <2>2, <2>3
  <2> QED
    BY <1>6, <2>1, <2>4, Aside DEF CommitReview, Elsewhere
<1>7. ASSUME NEW s \in DOMAIN snapshots, NEW batch \in Proposals, PersistCandidates(s, batch) PROVE Elsewhere
  BY <1>7 DEF PersistCandidates, Elsewhere, Importer
<1>8. ASSUME NEW r \in Requests, NEW c \in DOMAIN candidates, NEW decision \in {"accepted", "rejected"},
             LockCandidate(r, c, decision) PROVE Elsewhere
  <2> DEFINE next == [pc |-> "review", candidate |-> c, decision |-> decision]
  <2>1. ~Importer(r) /\ Goto(r, next) /\ next.pc = "review"
    BY <1>8 DEF LockCandidate, Importer, Idle
  <2> HIDE DEF next
  <2> QED
    BY <1>8, <2>1, Aside DEF LockCandidate, Elsewhere
<1> QED
  BY <1>1, <1>2, <1>3, <1>4, <1>5, <1>6, <1>7, <1>8
     DEF Next, DatahubStep, ReviewStep, RequestStep, ScanDataset, CompleteImportSnapshot,
         AcceptCandidate, RejectCandidate

(* What the steps of an import do to requests, deliveries and rows. *)
LEMMA EndStep ==
  ASSUME Base, NEW r \in Requests, RefuseEntry(r) \/ ImportFails(r)
  PROVE  /\ Importer(r) /\ ~Importer(r)' /\ UNCHANGED <<annotations, changes, overlaps>>
         /\ \A t \in Requests \ {r} : req'[t] = req[t]
         /\ PostsKept /\ DOMAIN posts' = DOMAIN posts
         /\ posts'[req[r].post].outcome \in {"refused", "failed"}
         /\ ImportFails(r) => posts'[req[r].post].outcome = "failed"
         /\ \A p \in DOMAIN posts : p # req[r].post => posts'[p] = posts[p]
<1>1. Importer(r)
  BY DEF RefuseEntry, ImportFails, Importer
<1>2. PICK o \in {"refused", "failed"} : Ends(r, o) /\ (ImportFails(r) => o = "failed")
  BY DEF RefuseEntry, ImportFails
<1>3. /\ posts' \in Seq(Post) /\ PostsKept /\ Len(posts') = Len(posts)
      /\ posts'[req[r].post].outcome = o
      /\ \A p \in DOMAIN posts : p # req[r].post => posts'[p] = posts[p]
  BY <1>1, <1>2, EndsTyped DEF Base, Outcomes
<1>4. DOMAIN posts' = DOMAIN posts
  BY <1>3, LenProperties DEF Base, TypeOK
<1>5. req'[r] = Idle /\ \A t \in Requests \ {r} : req'[t] = req[t]
  BY <1>2, Moves DEF Ends, Return, Base
<1>6. UNCHANGED <<annotations, changes, overlaps>>
  BY DEF RefuseEntry, ImportFails
<1> QED
  BY <1>1, <1>2, <1>3, <1>4, <1>5, <1>6 DEF Importer, Idle

(* CreateAnnotation inserts the row of the entry its delivery is at.                          *)
LEMMA RowStep ==
  ASSUME Base, NEW r \in Requests, CreateAnnotation(r)
  PROVE  /\ req[r].pc = "entry" /\ Importer(r) /\ Importer(r)' /\ req'[r].pc = "change"
         /\ req'[r].post = req[r].post /\ req'[r].at = req[r].at
         /\ \A t \in Requests \ {r} : req'[t] = req[t]
         /\ UNCHANGED <<posts, changes, overlaps>>
         /\ \E row : /\ annotations' = annotations \union {row} /\ Imported(row)
                     /\ row.ref = req[r].post /\ row.at = req[r].at
                     /\ row.snapshot = posts[req[r].post].snapshot
                     /\ row.entry = posts[req[r].post].payload[req[r].at]
<1>1. req[r].pc = "entry" /\ Importer(r) /\ req[r] \in Request
  BY RequestTyped DEF CreateAnnotation, Importer, Base, Idle
<1>2. Goto(r, [req[r] EXCEPT !.pc = "change"])
  BY DEF CreateAnnotation
<1>3. /\ [req[r] EXCEPT !.pc = "change"] \in Request /\ [req[r] EXCEPT !.pc = "change"].pc = "change"
      /\ [req[r] EXCEPT !.pc = "change"].post = req[r].post
      /\ [req[r] EXCEPT !.pc = "change"].at = req[r].at
  BY <1>1 DEF Request
<1>4. req'[r] = [req[r] EXCEPT !.pc = "change"] /\ \A t \in Requests \ {r} : req'[t] = req[t]
  BY <1>2, <1>3, Moves DEF Base
<1>5. \E row : /\ annotations' = annotations \union {row} /\ Imported(row)
               /\ row.ref = req[r].post /\ row.at = req[r].at
               /\ row.snapshot = posts[req[r].post].snapshot
               /\ row.entry = posts[req[r].post].payload[req[r].at]
  <2> DEFINE new == [snapshot |-> PostSnapshot(r), dataset |-> snapshots[PostSnapshot(r)].dataset,
                     entry |-> CurrentEntry(r), source |-> "import",
                     ref |-> req[r].post, at |-> req[r].at]
  <2>1. annotations' = annotations \union {new}
    BY DEF CreateAnnotation
  <2>2. /\ Imported(new) /\ new.ref = req[r].post /\ new.at = req[r].at
        /\ new.snapshot = posts[req[r].post].snapshot
        /\ new.entry = posts[req[r].post].payload[req[r].at]
    BY DEF Imported, PostSnapshot, CurrentEntry
  <2> HIDE DEF new
  <2> WITNESS new
  <2> QED
    BY <2>1, <2>2
<1>6. UNCHANGED <<posts, changes, overlaps>>
  BY DEF CreateAnnotation
<1> QED
  BY <1>1, <1>3, <1>4, <1>5, <1>6 DEF Importer

(* RecordAnnotationChange logs the entry its delivery is at.                                  *)
LEMMA ChangeStep ==
  ASSUME Base, NEW r \in Requests, RecordAnnotationChange(r)
  PROVE  /\ req[r].pc = "change" /\ Importer(r)
         /\ \A t \in Requests \ {r} : req'[t] = req[t]
         /\ UNCHANGED <<annotations, overlaps>>
         /\ \E ch : /\ changes' = changes \union {ch}
                    /\ ch.ref = req[r].post /\ ch.at = req[r].at
                    /\ ch.to = posts[req[r].post].snapshot
                    /\ ch.entry = posts[req[r].post].payload[req[r].at]
         /\ PostsKept /\ DOMAIN posts' = DOMAIN posts
         /\ \A p \in DOMAIN posts : p # req[r].post => posts'[p] = posts[p]
         /\ \/ /\ posts' = posts /\ Importer(r)' /\ req'[r].pc = "entry"
               /\ req'[r].post = req[r].post /\ req'[r].at = req[r].at + 1
            \/ /\ ~Importer(r)' /\ posts'[req[r].post].outcome = "ok"
               /\ req[r].at = Len(posts[req[r].post].payload)
<1>1. req[r].pc = "change" /\ Importer(r)
  BY DEF RecordAnnotationChange, Importer
<1>2. \E ch : /\ changes' = changes \union {ch}
              /\ ch.ref = req[r].post /\ ch.at = req[r].at
              /\ ch.to = posts[req[r].post].snapshot
              /\ ch.entry = posts[req[r].post].payload[req[r].at]
  <2> DEFINE new == [from |-> FromSnapshot(PostSnapshot(r)), to |-> PostSnapshot(r),
                     entry |-> CurrentEntry(r), ref |-> req[r].post, at |-> req[r].at]
  <2>1. changes' = changes \union {new}
    BY DEF RecordAnnotationChange, ChangeRecord
  <2>2. /\ new.ref = req[r].post /\ new.at = req[r].at
        /\ new.to = posts[req[r].post].snapshot
        /\ new.entry = posts[req[r].post].payload[req[r].at]
    BY DEF PostSnapshot, CurrentEntry
  <2> HIDE DEF new
  <2> WITNESS new
  <2> QED
    BY <2>1, <2>2
<1>3. UNCHANGED <<annotations, overlaps>>
  BY DEF RecordAnnotationChange
<1>4. CASE req[r].at = Len(posts[req[r].post].payload)
  <2>1. Ends(r, "ok")
    BY <1>4 DEF RecordAnnotationChange
  <2>2. /\ posts' \in Seq(Post) /\ PostsKept /\ Len(posts') = Len(posts)
        /\ posts'[req[r].post].outcome = "ok"
        /\ \A p \in DOMAIN posts : p # req[r].post => posts'[p] = posts[p]
    BY <1>1, <2>1, EndsTyped DEF Base, Outcomes
  <2>3. DOMAIN posts' = DOMAIN posts
    BY <2>2, LenProperties DEF Base, TypeOK
  <2>4. req'[r] = Idle /\ \A t \in Requests \ {r} : req'[t] = req[t]
    BY <2>1, Moves DEF Ends, Return, Base
  <2> QED
    BY <1>1, <1>2, <1>3, <1>4, <2>2, <2>3, <2>4 DEF Importer, Idle
<1>5. CASE req[r].at # Len(posts[req[r].post].payload)
  <2> DEFINE next == [pc |-> "entry", post |-> req[r].post, at |-> req[r].at + 1]
  <2>1. Goto(r, next) /\ posts' = posts
    BY <1>5 DEF RecordAnnotationChange
  <2>2. next \in Request /\ next.pc = "entry" /\ next.post = req[r].post /\ next.at = req[r].at + 1
    BY <1>1, RequestTyped DEF Request, Base
  <2> HIDE DEF next
  <2>3. req'[r] = next /\ \A t \in Requests \ {r} : req'[t] = req[t]
    BY <2>1, <2>2, Moves DEF Base
  <2>4. PostsKept
    <3>1. Len(posts) \in Nat
      BY DEF Base, TypeOK
    <3> QED BY <2>1, <3>1 DEF PostsKept
  <2> QED
    BY <1>1, <1>2, <1>3, <2>1, <2>2, <2>3, <2>4 DEF Importer
<1> QED
  BY <1>4, <1>5

(* A delivery begins: it finds its entries, a conflict, or an empty snapshot.                 *)
LEMMA StartStep ==
  ASSUME Base, NEW r \in Requests, NEW job \in queued, ImportSnapshot(r, job)
  PROVE  /\ UNCHANGED <<annotations, changes>>
         /\ Len(posts) \in Nat /\ DOMAIN posts = 1..Len(posts) /\ DOMAIN posts' = 1..(Len(posts) + 1)
         /\ \A p \in DOMAIN posts : posts'[p] = posts[p]
         /\ posts'[Len(posts) + 1].snapshot = job.snapshot
         /\ posts'[Len(posts) + 1].payload = job.payload
         /\ posts'[Len(posts) + 1].outcome = "ok" =>
              importEntriesMatchSnapshot(ListAnnotationsForSnapshot(job.snapshot), job.payload)
         /\ req[r] = Idle /\ \A t \in Requests \ {r} : req'[t] = req[t]
         /\ \/ /\ ListAnnotationsForSnapshot(job.snapshot) = {}
               /\ req'[r] = [pc |-> "entry", post |-> Len(posts) + 1, at |-> 1]
               /\ overlaps' = overlaps \union {{Len(posts) + 1, q} : q \in Importing(job.snapshot)}
            \/ /\ UNCHANGED <<req, overlaps>>
               /\ posts'[Len(posts) + 1].outcome # "running"
<1> DEFINE next == [pc |-> "entry", post |-> Len(posts) + 1, at |-> 1]
<1>1. /\ posts' \in Seq(Post)
      /\ Len(posts') = Len(posts) + 1
      /\ posts'[Len(posts) + 1].snapshot = job.snapshot
      /\ posts'[Len(posts) + 1].payload = job.payload
      /\ posts'[Len(posts) + 1].outcome = "running" <=> Answer(job.snapshot, job.payload) = "running"
      /\ posts'[Len(posts) + 1].outcome = "ok" => Answer(job.snapshot, job.payload) = "ok"
      /\ \A p \in DOMAIN posts : posts'[p] = posts[p]
  BY ImportTyped DEF Base
<1>2. Len(posts) \in Nat /\ DOMAIN posts = 1..Len(posts) /\ DOMAIN posts' = 1..(Len(posts) + 1)
  BY <1>1, LenProperties DEF Base, TypeOK
<1>3. UNCHANGED <<annotations, changes>> /\ req[r] = Idle
  BY DEF ImportSnapshot
<1>4. posts'[Len(posts) + 1].outcome = "ok" =>
        importEntriesMatchSnapshot(ListAnnotationsForSnapshot(job.snapshot), job.payload)
  BY <1>1 DEF Answer
<1>5. CASE Answer(job.snapshot, job.payload) = "running"
  <2>1. ListAnnotationsForSnapshot(job.snapshot) = {}
    BY <1>5 DEF Answer
  <2>2. /\ Goto(r, next)
        /\ overlaps' = overlaps \union {{Len(posts) + 1, q} : q \in Importing(job.snapshot)}
    BY <1>5 DEF ImportSnapshot
  <2>3. next \in Request
    BY <1>2 DEF Request
  <2>4. req'[r] = next /\ \A t \in Requests \ {r} : req'[t] = req[t]
    BY <2>2, <2>3, Moves DEF Base
  <2> QED
    BY <1>1, <1>2, <1>3, <1>4, <2>1, <2>2, <2>4
<1>6. CASE Answer(job.snapshot, job.payload) # "running"
  <2>1. UNCHANGED <<req, overlaps>>
    BY <1>6 DEF ImportSnapshot
  <2> QED
    BY <1>1, <1>2, <1>3, <1>4, <1>6, <2>1
<1> QED
  BY <1>5, <1>6

(* Every step keeps: imported rows are entries of deliveries.                                 *)
LEMMA RowsOfPostsStep ==
  ASSUME Base, RowsOfPosts, [Next]_vars
  PROVE  RowsOfPosts'
<1>1. CASE Elsewhere
  BY <1>1 DEF Elsewhere, RowsOfPosts, Imported
<1>2. ASSUME NEW r \in Requests, NEW job \in queued, ImportSnapshot(r, job) PROVE RowsOfPosts'
  <2>1. /\ UNCHANGED annotations /\ DOMAIN posts \subseteq DOMAIN posts'
        /\ \A p \in DOMAIN posts : posts'[p] = posts[p]
    BY <1>2, StartStep
  <2> QED
    BY <2>1 DEF RowsOfPosts, Imported
<1>3. ASSUME NEW r \in Requests, RefuseEntry(r) \/ ImportFails(r) PROVE RowsOfPosts'
  BY <1>3, EndStep DEF RowsOfPosts, Imported, PostsKept
<1>4. ASSUME NEW r \in Requests, CreateAnnotation(r) PROVE RowsOfPosts'
  <2>1. /\ UNCHANGED posts /\ Importer(r)
        /\ \E row : /\ annotations' = annotations \union {row} /\ Imported(row)
                    /\ row.ref = req[r].post /\ row.at = req[r].at
                    /\ row.snapshot = posts[req[r].post].snapshot
                    /\ row.entry = posts[req[r].post].payload[req[r].at]
    BY <1>4, RowStep
  <2>2. req[r].post \in DOMAIN posts /\ req[r].at \in DOMAIN posts[req[r].post].payload
    BY <2>1 DEF Base, Linked
  <2> QED
    BY <2>1, <2>2 DEF RowsOfPosts, Imported
<1>5. ASSUME NEW r \in Requests, RecordAnnotationChange(r) PROVE RowsOfPosts'
  BY <1>5, ChangeStep DEF RowsOfPosts, Imported, PostsKept
<1> QED
  BY <1>1, <1>2, <1>3, <1>4, <1>5, ImportSteps

(* Every step keeps: what a delivery has passed is inserted.                                  *)
LEMMA InsertedStep ==
  ASSUME Base, Inserted, [Next]_vars
  PROVE  Inserted'
<1>0. ASSUME annotations \subseteq annotations', NEW t \in Requests, Importer(t), req'[t] = req[t],
             posts'[req[t].post].payload = posts[req[t].post].payload
      PROVE  InsertedBy(t)'
  BY <1>0 DEF Inserted, InsertedBy, IsInserted, Imported
<1>1. CASE Elsewhere
  BY <1>0, <1>1 DEF Elsewhere, Inserted
<1>2. ASSUME NEW r \in Requests, NEW job \in queued, ImportSnapshot(r, job) PROVE Inserted'
  <2>1. /\ UNCHANGED annotations /\ \A p \in DOMAIN posts : posts'[p] = posts[p]
        /\ \A t \in Requests \ {r} : req'[t] = req[t]
        /\ req'[r] = req[r] \/ req'[r] = [pc |-> "entry", post |-> Len(posts) + 1, at |-> 1]
        /\ posts'[Len(posts) + 1].payload = job.payload /\ req[r] = Idle
    BY <1>2, StartStep
  <2>2. \A t \in Requests : Importer(t) => req[t].post \in DOMAIN posts
    BY DEF Base, Linked
  <2>3. DOMAIN job.payload \subseteq Nat \ {0}
    <3>1. job.payload \in Seq(Entry)
      BY <1>2, ImportTyped DEF Base
    <3> QED BY <3>1, LenProperties
  <2> SUFFICES ASSUME NEW t \in Requests, Importer(t)',
                      NEW i \in DOMAIN posts'[req'[t].post].payload,
                      i < req'[t].at \/ (i = req'[t].at /\ req'[t].pc = "change")
               PROVE  IsInserted(req[t].post, i)'
    BY DEF Inserted, InsertedBy
  <2>4. CASE t # r \/ req'[r] = req[r]
    <3>1. req'[t] = req[t] /\ Importer(t)
      BY <2>1, <2>4 DEF Importer
    <3> QED
      BY <1>0, <2>1, <2>2, <3>1 DEF InsertedBy
  <2>5. CASE t = r /\ req'[r] = [pc |-> "entry", post |-> Len(posts) + 1, at |-> 1]
    BY <2>1, <2>3, <2>5
  <2> QED
    BY <2>1, <2>4, <2>5
<1>3. ASSUME NEW r \in Requests, RefuseEntry(r) \/ ImportFails(r) PROVE Inserted'
  <2>1. \A t \in Requests : Importer(t) => req[t].post \in DOMAIN posts
    BY DEF Base, Linked
  <2>2. /\ ~Importer(r)' /\ \A t \in Requests \ {r} : req'[t] = req[t]
        /\ UNCHANGED annotations /\ PostsKept
    BY <1>3, EndStep
  <2> SUFFICES ASSUME NEW t \in Requests, Importer(t)'
               PROVE  InsertedBy(t)'
    BY DEF Inserted
  <2>3. t # r /\ req'[t] = req[t] /\ Importer(t)
    BY <2>2 DEF Importer
  <2> QED
    BY <1>0, <2>1, <2>2, <2>3 DEF InsertedBy, PostsKept
<1>4. ASSUME NEW r \in Requests, CreateAnnotation(r) PROVE Inserted'
  <2>1. /\ req[r].pc = "entry" /\ Importer(r) /\ req'[r].pc = "change"
        /\ req'[r].post = req[r].post /\ req'[r].at = req[r].at
        /\ \A t \in Requests \ {r} : req'[t] = req[t]
        /\ UNCHANGED posts
        /\ \E row : /\ annotations' = annotations \union {row} /\ Imported(row)
                    /\ row.ref = req[r].post /\ row.at = req[r].at
    BY <1>4, RowStep
  <2>2. annotations \subseteq annotations'
    BY <2>1
  <2> SUFFICES ASSUME NEW t \in Requests, Importer(t)',
                      NEW i \in DOMAIN posts'[req'[t].post].payload,
                      i < req'[t].at \/ (i = req'[t].at /\ req'[t].pc = "change")
               PROVE  IsInserted(req[t].post, i)'
    BY DEF Inserted, InsertedBy
  <2>3. CASE t # r
    <3>1. req'[t] = req[t] /\ Importer(t)
      BY <2>1, <2>3 DEF Importer
    <3> QED
      BY <1>0, <2>1, <2>2, <3>1 DEF InsertedBy
  <2>4. CASE t = r /\ i = req[r].at
    BY <2>1, <2>4 DEF IsInserted, Imported
  <2>5. CASE t = r /\ i # req[r].at
    <3>1. i < req[r].at /\ i \in DOMAIN posts[req[r].post].payload
      BY <2>1, <2>5
    <3>2. IsInserted(req[r].post, i)
      BY <2>1, <3>1 DEF Inserted, InsertedBy
    <3> QED
      BY <2>1, <2>2, <2>5, <3>2 DEF IsInserted, Imported
  <2> QED
    BY <2>3, <2>4, <2>5
<1>5. ASSUME NEW r \in Requests, RecordAnnotationChange(r) PROVE Inserted'
  <2>1. /\ req[r].pc = "change" /\ Importer(r) /\ UNCHANGED annotations /\ PostsKept
        /\ \A t \in Requests \ {r} : req'[t] = req[t]
        /\ \/ /\ req'[r].pc = "entry"
              /\ req'[r].post = req[r].post /\ req'[r].at = req[r].at + 1
           \/ ~Importer(r)'
    BY <1>5, ChangeStep
  <2>2. \A t \in Requests : Importer(t) => req[t].post \in DOMAIN posts
    BY DEF Base, Linked
  <2> SUFFICES ASSUME NEW t \in Requests, Importer(t)',
                      NEW i \in DOMAIN posts'[req'[t].post].payload,
                      i < req'[t].at \/ (i = req'[t].at /\ req'[t].pc = "change")
               PROVE  IsInserted(req[t].post, i)'
    BY DEF Inserted, InsertedBy
  <2>3. CASE t # r
    <3>1. req'[t] = req[t] /\ Importer(t)
      BY <2>1, <2>3 DEF Importer
    <3> QED
      BY <1>0, <2>1, <2>2, <3>1 DEF InsertedBy, PostsKept
  <2>4. CASE t = r
    <3>1. /\ DOMAIN posts[req[r].post].payload = 1..Len(posts[req[r].post].payload)
          /\ req[r].at \in Nat /\ posts[req[r].post].payload \in Seq(Entry)
      BY <2>1, InsertTyped DEF Base
    <3>2. i \in DOMAIN posts[req[r].post].payload /\ i < req[r].at + 1 /\ i \in Nat
      BY <2>1, <2>2, <2>4, <3>1, LenProperties DEF PostsKept
    <3>3. i < req[r].at \/ i = req[r].at
      BY <3>1, <3>2
    <3>4. IsInserted(req[r].post, i)
      BY <2>1, <3>2, <3>3 DEF Inserted, InsertedBy
    <3> QED
      BY <2>1, <2>4, <3>4 DEF IsInserted, Imported
  <2> QED
    BY <2>3, <2>4
<1> QED
  BY <1>1, <1>2, <1>3, <1>4, <1>5, ImportSteps

(* Every step keeps: a running delivery overlaps with all others in its snapshot.             *)
LEMMA AlongsideStep ==
  ASSUME Base, RowsOfPosts, Alongside, [Next]_vars
  PROVE  Alongside'
<1>0. ASSUME UNCHANGED <<annotations, overlaps>>, DOMAIN posts' = DOMAIN posts,
             \A p \in DOMAIN posts : /\ posts'[p].snapshot = posts[p].snapshot
                                     /\ posts'[p].outcome = "running" => posts[p].outcome = "running"
      PROVE  Alongside'
  BY <1>0 DEF Alongside, Imported
<1>1. CASE Elsewhere
  BY <1>1 DEF Elsewhere, Alongside, Imported
<1>2. ASSUME NEW r \in Requests, NEW job \in queued, ImportSnapshot(r, job) PROVE Alongside'
  <2> DEFINE n == Len(posts) + 1
  <2>1. /\ UNCHANGED annotations
        /\ DOMAIN posts' = DOMAIN posts \union {n} /\ n \notin DOMAIN posts
        /\ \A p \in DOMAIN posts : posts'[p] = posts[p]
        /\ posts'[n].snapshot = job.snapshot
        /\ \/ /\ ListAnnotationsForSnapshot(job.snapshot) = {}
              /\ overlaps' = overlaps \union {{n, q} : q \in Importing(job.snapshot)}
           \/ UNCHANGED overlaps /\ posts'[n].outcome # "running"
    <3>1. Len(posts) \in Nat /\ DOMAIN posts = 1..Len(posts) /\ DOMAIN posts' = 1..(Len(posts) + 1)
      BY <1>2, StartStep
    <3>2. DOMAIN posts' = DOMAIN posts \union {n} /\ n \notin DOMAIN posts
      BY <3>1
    <3> QED
      BY <1>2, <3>2, StartStep, Zenon
  <2> HIDE DEF n
  <2>2. ASSUME NEW p \in DOMAIN posts', NEW q \in DOMAIN posts', p # q,
               posts'[p].snapshot = posts'[q].snapshot,
               posts'[p].outcome = "running", posts'[q].outcome = "running"
        PROVE  {p, q} \in overlaps'
    <3>1. CASE p # n /\ q # n
      BY <2>1, <2>2, <3>1 DEF Alongside
    <3>2. CASE p = n
      <4>1. q \in Importing(job.snapshot)
        BY <2>1, <2>2, <3>2 DEF Importing
      <4> QED
        BY <2>1, <2>2, <3>2, <4>1
    <3>3. CASE q = n
      <4>1. p \in Importing(job.snapshot) /\ {p, q} = {q, p}
        BY <2>1, <2>2, <3>3 DEF Importing
      <4> QED
        BY <2>1, <2>2, <3>3, <4>1
    <3> QED
      BY <3>1, <3>2, <3>3
  <2>3. ASSUME NEW a \in annotations', NEW p \in DOMAIN posts', Imported(a), a.ref # p,
               a.snapshot = posts'[p].snapshot, posts'[p].outcome = "running"
        PROVE  {a.ref, p} \in overlaps'
    <3>1. p # n
      BY <2>1, <2>3 DEF ListAnnotationsForSnapshot
    <3> QED
      BY <2>1, <2>3, <3>1 DEF Alongside
  <2> QED
    BY <2>2, <2>3 DEF Alongside, Imported
<1>3. ASSUME NEW r \in Requests, RefuseEntry(r) \/ ImportFails(r) PROVE Alongside'
  <2>1. /\ UNCHANGED <<annotations, overlaps>> /\ PostsKept /\ DOMAIN posts' = DOMAIN posts
        /\ posts'[req[r].post].outcome \in {"refused", "failed"}
        /\ \A p \in DOMAIN posts : p # req[r].post => posts'[p] = posts[p]
    BY <1>3, EndStep
  <2> QED
    BY <1>0, <2>1 DEF PostsKept
<1>4. ASSUME NEW r \in Requests, CreateAnnotation(r) PROVE Alongside'
  <2>1. Importer(r) /\ UNCHANGED <<posts, overlaps>>
    BY <1>4, RowStep
  <2>2. PICK row : /\ annotations' = annotations \union {row} /\ Imported(row)
                   /\ row.ref = req[r].post /\ row.snapshot = posts[req[r].post].snapshot
    BY <1>4, RowStep
  <2>3. req[r].post \in DOMAIN posts /\ posts[req[r].post].outcome = "running"
    BY <2>1 DEF Base, Linked
  <2>4. ASSUME NEW a \in annotations', NEW p \in DOMAIN posts, Imported(a), a.ref # p,
               a.snapshot = posts[p].snapshot, posts[p].outcome = "running"
        PROVE  {a.ref, p} \in overlaps
    <3>1. CASE a \in annotations
      BY <2>4, <3>1 DEF Alongside
    <3>2. CASE a = row
      BY <2>2, <2>3, <2>4, <3>2 DEF Alongside
    <3> QED
      BY <2>2, <3>1, <3>2
  <2> QED
    BY <2>1, <2>4 DEF Alongside, Imported
<1>5. ASSUME NEW r \in Requests, RecordAnnotationChange(r) PROVE Alongside'
  <2>1. /\ UNCHANGED <<annotations, overlaps>> /\ PostsKept /\ DOMAIN posts' = DOMAIN posts
        /\ \A p \in DOMAIN posts : p # req[r].post => posts'[p] = posts[p]
        /\ posts' = posts \/ posts'[req[r].post].outcome = "ok"
    BY <1>5, ChangeStep
  <2> QED
    BY <1>0, <2>1 DEF PostsKept
<1> QED
  BY <1>1, <1>2, <1>3, <1>4, <1>5, ImportSteps

(* Every step keeps MixedOnlyByOverlap.                                                       *)
LEMMA MixedStep ==
  ASSUME Base, RowsOfPosts, Alongside, MixedOnlyByOverlap, [Next]_vars
  PROVE  MixedOnlyByOverlap'
<1>0. ASSUME \A a \in annotations' : Imported(a) => a \in annotations, overlaps \subseteq overlaps'
      PROVE  MixedOnlyByOverlap'
  BY <1>0 DEF MixedOnlyByOverlap, Imported
<1>1. CASE Elsewhere
  BY <1>0, <1>1 DEF Elsewhere
<1>2. ASSUME NEW r \in Requests, NEW job \in queued, ImportSnapshot(r, job) PROVE MixedOnlyByOverlap'
  <2>1. UNCHANGED annotations /\ overlaps \subseteq overlaps'
    BY <1>2, StartStep
  <2> QED
    BY <1>0, <2>1
<1>3. ASSUME NEW r \in Requests, RefuseEntry(r) \/ ImportFails(r) PROVE MixedOnlyByOverlap'
  BY <1>0, <1>3, EndStep
<1>4. ASSUME NEW r \in Requests, CreateAnnotation(r) PROVE MixedOnlyByOverlap'
  <2>1. Importer(r) /\ UNCHANGED <<posts, overlaps>>
    BY <1>4, RowStep
  <2>2. PICK row : /\ annotations' = annotations \union {row} /\ Imported(row)
                   /\ row.ref = req[r].post /\ row.snapshot = posts[req[r].post].snapshot
    BY <1>4, RowStep
  <2>3. req[r].post \in DOMAIN posts /\ posts[req[r].post].outcome = "running"
    BY <2>1 DEF Base, Linked
  <2>4. ASSUME NEW a \in annotations, Imported(a), a.snapshot = row.snapshot, a.ref # row.ref
        PROVE  {a.ref, row.ref} \in overlaps
    BY <2>2, <2>3, <2>4 DEF Alongside
  <2> SUFFICES ASSUME NEW a \in annotations', NEW b \in annotations', Imported(a), Imported(b),
                      a.snapshot = b.snapshot, a.ref # b.ref
               PROVE  {a.ref, b.ref} \in overlaps
    BY <2>1 DEF MixedOnlyByOverlap, Imported
  <2>5. CASE a \in annotations /\ b \in annotations
    BY <2>5 DEF MixedOnlyByOverlap, Imported
  <2>6. CASE a \in annotations /\ b = row
    BY <2>4, <2>6
  <2>7. CASE a = row /\ b \in annotations
    <3>1. {b.ref, row.ref} \in overlaps
      BY <2>4, <2>7
    <3> QED
      BY <2>7, <3>1
  <2>8. CASE a = row /\ b = row
    BY <2>8
  <2> QED
    BY <2>2, <2>5, <2>6, <2>7, <2>8
<1>5. ASSUME NEW r \in Requests, RecordAnnotationChange(r) PROVE MixedOnlyByOverlap'
  BY <1>0, <1>5, ChangeStep
<1> QED
  BY <1>1, <1>2, <1>3, <1>4, <1>5, ImportSteps

(* Every step keeps AckedImportIsComplete.                                                    *)
LEMMA AckedStep ==
  ASSUME Base, RowsOfPosts, Inserted, AckedImportIsComplete, [Next]_vars
  PROVE  AckedImportIsComplete'
<1> DEFINE Complete(p) ==
      \A i \in DOMAIN posts[p].payload :
        \E a \in ListAnnotationsForSnapshot(posts[p].snapshot) :
          importedAnnotationKey(a.entry) = importedAnnotationKey(posts[p].payload[i])
<1>0. ASSUME NEW p \in DOMAIN posts, annotations \subseteq annotations',
             posts'[p].payload = posts[p].payload, posts'[p].snapshot = posts[p].snapshot,
             Complete(p)
      PROVE  Complete(p)'
  <2>1. ListAnnotationsForSnapshot(posts[p].snapshot) \subseteq ListAnnotationsForSnapshot(posts[p].snapshot)'
    BY <1>0 DEF ListAnnotationsForSnapshot
  <2> QED
    BY <1>0, <2>1 DEF importedAnnotationKey
<1>00. \A p \in DOMAIN posts : posts[p].outcome = "ok" => Complete(p)
  BY DEF AckedImportIsComplete
<1> SUFFICES ASSUME NEW p \in DOMAIN posts', posts'[p].outcome = "ok"
             PROVE  Complete(p)'
  BY DEF AckedImportIsComplete
<1> HIDE DEF Complete
<1>1. CASE Elsewhere
  BY <1>0, <1>00, <1>1 DEF Elsewhere
<1>2. ASSUME NEW r \in Requests, NEW job \in queued, ImportSnapshot(r, job) PROVE Complete(p)'
  <2> DEFINE n == Len(posts) + 1
             rows == ListAnnotationsForSnapshot(job.snapshot)
  <2>1. /\ UNCHANGED annotations
        /\ \A q \in DOMAIN posts : posts'[q] = posts[q]
        /\ posts'[n].snapshot = job.snapshot /\ posts'[n].payload = job.payload
        /\ posts'[n].outcome = "ok" => importEntriesMatchSnapshot(rows, job.payload)
    BY <1>2, StartStep
  <2>2. p \in DOMAIN posts \/ p = n
    <3>1. Len(posts) \in Nat /\ DOMAIN posts = 1..Len(posts) /\ DOMAIN posts' = 1..(Len(posts) + 1)
      BY <1>2, StartStep
    <3> QED
      BY <3>1
  <2>3. CASE p \in DOMAIN posts
    BY <1>0, <1>00, <2>1, <2>3
  <2>4. CASE p = n
    <3>1. importEntriesMatchSnapshot(rows, job.payload)
      BY <2>1, <2>4
    <3>2. \A i \in DOMAIN job.payload :
            \E a \in rows : importedAnnotationKey(a.entry) = importedAnnotationKey(job.payload[i])
      <4> HIDE DEF rows
      <4> QED
        BY <3>1 DEF importEntriesMatchSnapshot
    <3>3. posts'[p].snapshot = job.snapshot /\ posts'[p].payload = job.payload
      BY <2>1, <2>4
    <3>4. rows \subseteq ListAnnotationsForSnapshot(posts[p].snapshot)'
      BY <2>1, <3>3 DEF ListAnnotationsForSnapshot
    <3> HIDE DEF rows
    <3> QED
      BY <3>2, <3>3, <3>4 DEF Complete, importedAnnotationKey
  <2> QED
    BY <2>2, <2>3, <2>4
<1>3. ASSUME NEW r \in Requests, RefuseEntry(r) \/ ImportFails(r) PROVE Complete(p)'
  <2>1. /\ UNCHANGED annotations /\ DOMAIN posts' = DOMAIN posts
        /\ posts'[req[r].post].outcome \in {"refused", "failed"}
        /\ \A q \in DOMAIN posts : q # req[r].post => posts'[q] = posts[q]
    BY <1>3, EndStep
  <2> QED
    BY <1>0, <1>00, <2>1
<1>4. ASSUME NEW r \in Requests, CreateAnnotation(r) PROVE Complete(p)'
  <2>1. UNCHANGED posts /\ annotations \subseteq annotations'
    BY <1>4, RowStep
  <2> QED
    BY <1>0, <1>00, <2>1
<1>5. ASSUME NEW r \in Requests, RecordAnnotationChange(r) PROVE Complete(p)'
  <2>1. /\ UNCHANGED annotations /\ PostsKept /\ DOMAIN posts' = DOMAIN posts
        /\ \A q \in DOMAIN posts : q # req[r].post => posts'[q] = posts[q]
        /\ posts' = posts \/ req[r].at = Len(posts[req[r].post].payload)
        /\ req[r].pc = "change" /\ Importer(r)
    BY <1>5, ChangeStep
  <2>2. CASE p # req[r].post \/ posts' = posts
    BY <1>0, <1>00, <2>1, <2>2
  <2>3. CASE p = req[r].post /\ posts' # posts
    <3>1. req[r].at = Len(posts[p].payload)
      BY <2>1, <2>3
    <3>2. DOMAIN posts[p].payload = 1..Len(posts[p].payload) /\ posts[p].payload \in Seq(Entry)
      BY <2>1, <2>3, InsertTyped DEF Base
    <3>3. \A i \in DOMAIN posts[p].payload : IsInserted(p, i)
      <4>1. \A i \in DOMAIN posts[p].payload : i < req[r].at \/ i = req[r].at
        BY <3>1, <3>2, LenProperties
      <4> QED
        BY <2>1, <2>3, <4>1 DEF Inserted, InsertedBy
    <3>4. Complete(p)
      <4> SUFFICES ASSUME NEW i \in DOMAIN posts[p].payload
                   PROVE  \E a \in ListAnnotationsForSnapshot(posts[p].snapshot) :
                            importedAnnotationKey(a.entry) = importedAnnotationKey(posts[p].payload[i])
        BY DEF Complete
      <4>1. PICK a \in annotations : Imported(a) /\ a.ref = p /\ a.at = i
        BY <3>3 DEF IsInserted
      <4>2. a.snapshot = posts[p].snapshot /\ a.entry = posts[p].payload[i]
        BY <4>1 DEF RowsOfPosts
      <4> QED
        BY <4>1, <4>2 DEF ListAnnotationsForSnapshot
    <3> QED
      BY <1>0, <2>1, <3>4 DEF PostsKept
  <2> QED
    BY <2>2, <2>3
<1> QED
  BY <1>1, <1>2, <1>3, <1>4, <1>5, ImportSteps

(* Every step keeps ChangesTellOfRows.                                                        *)
LEMMA ChangesStep ==
  ASSUME Base, RowsOfPosts, Inserted, ChangesTellOfRows, [Next]_vars
  PROVE  ChangesTellOfRows'
<1> DEFINE HasRow(ch) ==
             \E a \in annotations :
               /\ a.source = "import"
               /\ a.snapshot = ch.to /\ a.entry = ch.entry /\ a.ref = ch.ref /\ a.at = ch.at
           Told(a) == \E ch \in changes : ch.to = a.snapshot /\ ch.ref = a.ref /\ ch.at = a.at
           Due(a) == \E r \in Requests : /\ req[r].pc = "change"
                                         /\ req[r].post = a.ref /\ req[r].at = a.at
<1>a. /\ \A ch \in changes : HasRow(ch)
      /\ \A a \in annotations : Imported(a) => Told(a) \/ Due(a) \/ posts[a.ref].outcome = "failed"
  BY DEF ChangesTellOfRows, Imported
<1>b. ASSUME \A ch \in changes' : HasRow(ch)',
             \A a \in annotations' : Imported(a) => Told(a)' \/ Due(a)' \/ posts'[a.ref].outcome = "failed"
      PROVE  ChangesTellOfRows'
  BY <1>b DEF ChangesTellOfRows, Imported
<1>c. ASSUME annotations \subseteq annotations' PROVE \A ch : HasRow(ch) => HasRow(ch)'
  BY <1>c
<1>d. ASSUME changes \subseteq changes' PROVE \A a : Told(a) => Told(a)'
  BY <1>d
<1>e. \A a \in annotations : Imported(a) => a.ref \in DOMAIN posts
  BY DEF RowsOfPosts
<1> HIDE DEF HasRow, Told
<1>1. CASE Elsewhere
  <2>1. \A a : Due(a) => Due(a)'
    BY <1>1 DEF Elsewhere, Importer
  <2> HIDE DEF Due
  <2> QED
    BY <1>1, <1>a, <1>b, <1>c, <1>d, <2>1 DEF Elsewhere
<1>2. ASSUME NEW r \in Requests, NEW job \in queued, ImportSnapshot(r, job) PROVE ChangesTellOfRows'
  <2>1. /\ UNCHANGED <<annotations, changes>>
        /\ \A p \in DOMAIN posts : posts'[p] = posts[p]
        /\ req[r] = Idle /\ \A t \in Requests \ {r} : req'[t] = req[t]
    BY <1>2, StartStep
  <2>2. \A a : Due(a) => Due(a)'
    BY <2>1 DEF Idle
  <2> HIDE DEF Due
  <2> QED
    BY <1>a, <1>b, <1>c, <1>d, <1>e, <2>1, <2>2
<1>3. ASSUME NEW r \in Requests, RefuseEntry(r) \/ ImportFails(r) PROVE ChangesTellOfRows'
  <2>1. /\ UNCHANGED <<annotations, changes>> /\ PostsKept
        /\ \A t \in Requests \ {r} : req'[t] = req[t]
        /\ ImportFails(r) => posts'[req[r].post].outcome = "failed"
    BY <1>3, EndStep
  <2>2. \A a : Due(a) => Due(a)' \/ posts'[a.ref].outcome = "failed"
    <3>1. req[r].pc = "change" => ImportFails(r)
      BY <1>3 DEF RefuseEntry
    <3> QED
      BY <2>1, <3>1
  <2>3. \A a \in annotations : Imported(a) =>
          (posts[a.ref].outcome = "failed" => posts'[a.ref].outcome = "failed")
    BY <1>e, <2>1 DEF PostsKept
  <2> HIDE DEF Due
  <2> QED
    BY <1>a, <1>b, <1>c, <1>d, <2>1, <2>2, <2>3
<1>4. ASSUME NEW r \in Requests, CreateAnnotation(r) PROVE ChangesTellOfRows'
  <2>1. /\ req[r].pc = "entry" /\ req'[r].pc = "change"
        /\ req'[r].post = req[r].post /\ req'[r].at = req[r].at
        /\ \A t \in Requests \ {r} : req'[t] = req[t]
        /\ UNCHANGED <<posts, changes>>
    BY <1>4, RowStep
  <2>2. PICK row : /\ annotations' = annotations \union {row} /\ Imported(row)
                   /\ row.ref = req[r].post /\ row.at = req[r].at
    BY <1>4, RowStep
  <2>3. \A a : Due(a) => Due(a)'
    BY <2>1
  <2>4. Due(row)'
    BY <2>1, <2>2
  <2> HIDE DEF Due
  <2> QED
    BY <1>a, <1>b, <1>c, <1>d, <2>1, <2>2, <2>3, <2>4
<1>5. ASSUME NEW r \in Requests, RecordAnnotationChange(r) PROVE ChangesTellOfRows'
  <2>1. /\ req[r].pc = "change" /\ Importer(r) /\ UNCHANGED annotations /\ PostsKept
        /\ \A t \in Requests \ {r} : req'[t] = req[t]
    BY <1>5, ChangeStep
  <2>2. PICK ch : /\ changes' = changes \union {ch}
                  /\ ch.ref = req[r].post /\ ch.at = req[r].at
                  /\ ch.to = posts[req[r].post].snapshot
                  /\ ch.entry = posts[req[r].post].payload[req[r].at]
    BY <1>5, ChangeStep
  <2>3. HasRow(ch)
    <3>1. req[r].at \in DOMAIN posts[req[r].post].payload
      BY <2>1 DEF Base, Linked
    <3>2. IsInserted(req[r].post, req[r].at)
      BY <2>1, <3>1 DEF Inserted, InsertedBy
    <3>3. PICK a \in annotations : Imported(a) /\ a.ref = req[r].post /\ a.at = req[r].at
      BY <3>2 DEF IsInserted
    <3>4. a.snapshot = posts[req[r].post].snapshot /\ a.entry = posts[req[r].post].payload[req[r].at]
      BY <3>3 DEF RowsOfPosts
    <3> QED
      BY <2>2, <3>3, <3>4 DEF HasRow, Imported
  <2>4. \A a \in annotations : Imported(a) /\ Due(a) => Due(a)' \/ Told(a)'
    <3> SUFFICES ASSUME NEW a \in annotations, Imported(a), Due(a), ~Due(a)' PROVE Told(a)'
      OBVIOUS
    <3>1. req[r].post = a.ref /\ req[r].at = a.at
      BY <2>1
    <3>2. a.snapshot = posts[a.ref].snapshot
      BY DEF RowsOfPosts
    <3> QED
      BY <2>2, <3>1, <3>2 DEF Told
  <2>5. \A a \in annotations : Imported(a) =>
          (posts[a.ref].outcome = "failed" => posts'[a.ref].outcome = "failed")
    BY <1>e, <2>1 DEF PostsKept
  <2> HIDE DEF Due
  <2> QED
    BY <1>a, <1>b, <1>c, <1>d, <2>1, <2>2, <2>3, <2>4, <2>5
<1> QED
  BY <1>1, <1>2, <1>3, <1>4, <1>5, ImportSteps

-----------------------------------------------------------------------------
(* Reviews.  Whoever holds a candidate's lock holds it alone and finds it undecided, and what *)
(* the audit log and the promoted rows name are candidates.                                   *)
Reviewer(r) == req[r].pc = "review"

IsPromoted(a) == a.source = "pseudo"

Reviewed ==
  /\ \A i \in DOMAIN audits : /\ audits[i].candidate \in DOMAIN candidates
                              /\ candidates[audits[i].candidate].status # "pending"
  /\ \A a \in annotations : IsPromoted(a) => a.ref \in DOMAIN candidates
  /\ \A r \in Requests : Reviewer(r) => candidates[req[r].candidate].status = "pending"
  /\ \A r, t \in Requests : Reviewer(r) /\ Reviewer(t) /\ req[r].candidate = req[t].candidate => r = t

(* A step that is not about candidates. *)
Unreviewed ==
  /\ UNCHANGED <<candidates, audits>>
  /\ annotations \subseteq annotations'
  /\ \A a \in annotations' : IsPromoted(a) => a \in annotations
  /\ \A r \in Requests : Reviewer(r)' => req'[r] = req[r]

(* A request that moves on, but not to a review, changes no review.                           *)
LEMMA GoesElsewhere ==
  ASSUME TypeOK, NEW r \in Requests, NEW next, Goto(r, next), next.pc # "review"
  PROVE  \A t \in Requests : Reviewer(t)' => req'[t] = req[t]
<1>1. DOMAIN req = Requests
  BY DEF TypeOK
<1>2. req'[r] = next /\ \A t \in Requests \ {r} : req'[t] = req[t]
  BY <1>1 DEF Goto
<1> TAKE t \in Requests
<1> QED
  BY <1>2 DEF Reviewer

(* The steps that touch candidates, their locks or the audit log.                             *)
LEMMA ReviewSteps ==
  ASSUME Base, [Next]_vars
  PROVE  \/ Unreviewed
         \/ \E s \in DOMAIN snapshots, batch \in Proposals : PersistCandidates(s, batch)
         \/ \E r \in Requests, c \in DOMAIN candidates, decision \in {"accepted", "rejected"} :
              LockCandidate(r, c, decision)
         \/ \E r \in Requests : CommitReview(r)
<1> USE DEF Base
<1>0. Idle.pc # "review"
  BY DEF Idle
<1>1. CASE UNCHANGED vars
  BY <1>1 DEF vars, Unreviewed
<1>2. ASSUME NEW d \in Datasets, NEW k \in Keys, UpsertScannedItems(d, k) PROVE Unreviewed
  BY <1>2 DEF UpsertScannedItems, Unreviewed
<1>3. ASSUME NEW s \in DOMAIN snapshots, NEW payload \in Payloads, QueueImport(s, payload) PROVE Unreviewed
  BY <1>3 DEF QueueImport, Unreviewed
<1>4. ASSUME NEW r \in Requests, NEW d \in Datasets, NEW based \in 0..Len(snapshots),
             CreateSnapshot(r, d, based) PROVE Unreviewed
  <2> DEFINE next == [pc |-> "create", dataset |-> d, based |-> based, version |-> NextVersion(d)]
  <2>1. Goto(r, next) /\ next.pc # "review"
    BY <1>4 DEF CreateSnapshot
  <2> HIDE DEF next
  <2>2. \A t \in Requests : Reviewer(t)' => req'[t] = req[t]
    BY <2>1, GoesElsewhere
  <2> QED
    BY <1>4, <2>2 DEF CreateSnapshot, Unreviewed
<1>5. ASSUME NEW r \in Requests, InsertSnapshot(r) \/ RollBack(r) PROVE Unreviewed
  <2>1. \A t \in Requests : Reviewer(t)' => req'[t] = req[t]
    BY <1>0, <1>5, GoesElsewhere DEF InsertSnapshot, RollBack, Return
  <2> QED
    BY <1>5, <2>1 DEF InsertSnapshot, RollBack, Unreviewed
<1>6. ASSUME NEW r \in Requests, NEW job \in queued, ImportSnapshot(r, job) PROVE Unreviewed
  <2>1. \A t \in Requests : Reviewer(t)' => req'[t] = req[t]
    BY <1>6, StartStep DEF Reviewer
  <2>2. UNCHANGED <<candidates, audits, annotations>>
    BY <1>6 DEF ImportSnapshot
  <2> QED
    BY <2>1, <2>2 DEF Unreviewed
<1>7. ASSUME NEW r \in Requests, RefuseEntry(r) \/ ImportFails(r) PROVE Unreviewed
  <2>1. \A t \in Requests : Reviewer(t)' => req'[t] = req[t]
    BY <1>0, <1>7, GoesElsewhere DEF RefuseEntry, ImportFails, Ends, Return
  <2>2. UNCHANGED <<candidates, audits, annotations>>
    BY <1>7 DEF RefuseEntry, ImportFails
  <2> QED
    BY <2>1, <2>2 DEF Unreviewed
<1>8. ASSUME NEW r \in Requests, CreateAnnotation(r) PROVE Unreviewed
  <2>1. \A t \in Requests : Reviewer(t)' => req'[t] = req[t]
    BY <1>8, RowStep DEF Reviewer
  <2>2. PICK row : annotations' = annotations \union {row} /\ Imported(row)
    BY <1>8, RowStep
  <2>3. UNCHANGED <<candidates, audits>>
    BY <1>8 DEF CreateAnnotation
  <2> QED
    BY <2>1, <2>2, <2>3 DEF Unreviewed, Imported, IsPromoted
<1>9. ASSUME NEW r \in Requests, RecordAnnotationChange(r) PROVE Unreviewed
  <2>1. \A t \in Requests : Reviewer(t)' => req'[t] = req[t]
    <3>1. ~Reviewer(r)'
      BY <1>9, ChangeStep, BaseStep, RequestTyped DEF Reviewer, Importer, RecordAnnotationChange, Ends,
         Return, Goto, Idle, TypeOK
    <3> QED
      BY <1>9, <3>1, ChangeStep
  <2>2. UNCHANGED <<candidates, audits, annotations>>
    BY <1>9 DEF RecordAnnotationChange
  <2> QED
    BY <2>1, <2>2 DEF Unreviewed
<1> QED
  BY <1>1, <1>2, <1>3, <1>4, <1>5, <1>6, <1>7, <1>8, <1>9
     DEF Next, DatahubStep, ReviewStep, RequestStep, ScanDataset, CompleteImportSnapshot,
         AcceptCandidate, RejectCandidate

(* Every step keeps DecidedOnce and what it rests on.                                         *)
LEMMA DecidedStep ==
  ASSUME Base, Reviewed, DecidedOnce, [Next]_vars
  PROVE  Reviewed' /\ DecidedOnce'
<1>1. CASE Unreviewed
  <2>1. Reviewed'
    BY <1>1 DEF Unreviewed, Reviewed, Reviewer, IsPromoted
  <2>2. DecidedOnce'
    BY <1>1 DEF Unreviewed, DecidedOnce, IsPromoted
  <2> QED
    BY <2>1, <2>2
<1>2. ASSUME NEW s \in DOMAIN snapshots, NEW batch \in Proposals, PersistCandidates(s, batch)
      PROVE  Reviewed' /\ DecidedOnce'
  <2>1. /\ \A c \in DOMAIN candidates : c \in DOMAIN candidates' /\ candidates'[c] = candidates[c]
        /\ \A c \in DOMAIN candidates' : c \notin DOMAIN candidates => candidates'[c].status = "pending"
    BY <1>2, PersistTyped DEF Base
  <2>2. UNCHANGED <<annotations, audits, req>>
    BY <1>2 DEF PersistCandidates
  <2>3. \A r \in Requests : Reviewer(r) => req[r].candidate \in DOMAIN candidates
    BY DEF Base, Held, Reviewer
  <2>4. Reviewed'
    BY <2>1, <2>2, <2>3 DEF Reviewed, Reviewer, IsPromoted
  <2>5. DecidedOnce'
    BY <2>1, <2>2 DEF DecidedOnce, Reviewed, IsPromoted
  <2> QED
    BY <2>4, <2>5
<1>3. ASSUME NEW r \in Requests, NEW c \in DOMAIN candidates, NEW decision \in {"accepted", "rejected"},
             LockCandidate(r, c, decision)
      PROVE  Reviewed' /\ DecidedOnce'
  <2> DEFINE next == [pc |-> "review", candidate |-> c, decision |-> decision]
  <2>1. next \in Request /\ next.candidate = c
    BY LenProperties DEF Request, Base, TypeOK
  <2>2. Goto(r, next) /\ candidates[c].status = "pending" /\ UNCHANGED <<candidates, audits, annotations>>
    BY <1>3 DEF LockCandidate, isQueuedCandidateStatus
  <2> HIDE DEF next
  <2>3. req'[r] = next /\ \A t \in Requests \ {r} : req'[t] = req[t]
    BY <2>1, <2>2, Moves DEF Base
  <2>4. \A t \in Requests \ {r} : Reviewer(t) => req[t].candidate # c
    BY <1>3 DEF LockCandidate, LockFree, Reviewing, Reviewer, Idle
  <2>5. Reviewed'
    BY <2>1, <2>2, <2>3, <2>4 DEF Reviewed, Reviewer, IsPromoted
  <2>6. DecidedOnce'
    BY <2>2 DEF DecidedOnce
  <2> QED
    BY <2>5, <2>6
<1>4. ASSUME NEW r \in Requests, CommitReview(r) PROVE Reviewed' /\ DecidedOnce'
  <2> DEFINE c == req[r].candidate
             decision == req[r].decision
             n == Len(audits) + 1
             row == Promoted(c)
  <2>1. /\ DOMAIN candidates' = DOMAIN candidates /\ c \in DOMAIN candidates
        /\ candidates'[c].status = decision
        /\ \A d \in DOMAIN candidates : d # c => candidates'[d] = candidates[d]
        /\ audits'[n].candidate = c /\ audits'[n].action = decision
        /\ \A i \in DOMAIN audits : audits'[i] = audits[i]
    <3>1. audits'[n] = [candidate |-> c, action |-> decision]
      BY <1>4, CommitTyped DEF Base
    <3>2. audits'[n].candidate = c /\ audits'[n].action = decision
      <4> HIDE DEF c, decision, n
      <4> QED
        BY <3>1
    <3>3. TypeOK /\ Held
      BY DEF Base
    <3> QED
      BY <1>4, <3>2, <3>3, CommitTyped, Zenon
  <2>2. DOMAIN audits' = DOMAIN audits \union {n} /\ n \notin DOMAIN audits
    <3>1. Len(audits') = Len(audits) + 1 /\ Len(audits) \in Nat
      BY <1>4, CommitTyped DEF Base
    <3>2. DOMAIN audits = 1..Len(audits) /\ DOMAIN audits' = 1..Len(audits')
      <4>1. audits' \in Seq([candidate: Nat, action: {"accepted", "rejected"}])
        BY <1>4, CommitTyped DEF Base
      <4> QED
        BY <4>1, LenProperties DEF Base, TypeOK
    <3> QED
      BY <3>1, <3>2
  <2>3. Reviewer(r) /\ decision \in {"accepted", "rejected"} /\ candidates[c].status = "pending"
    BY <1>4, RequestTyped DEF CommitReview, Base, Reviewer, Reviewed
  <2>4. /\ annotations' = annotations \union (IF decision = "accepted" THEN {row} ELSE {})
        /\ IsPromoted(row) /\ row.ref = c
    BY <1>4 DEF CommitReview, Promoted, IsPromoted
  <2>5. ~Reviewer(r)' /\ \A t \in Requests \ {r} : req'[t] = req[t]
    BY <1>4, Moves DEF CommitReview, Return, Base, Reviewer, Idle
  <2>6. /\ \A i \in DOMAIN audits : audits[i].candidate # c
        /\ \A a \in annotations : ~(IsPromoted(a) /\ a.ref = c)
    BY <2>1, <2>3 DEF Reviewed, DecidedOnce, IsPromoted
  <2> HIDE DEF c, decision, n, row
  <2>7. Reviewed'
    <3>1. \A i \in DOMAIN audits' : /\ audits'[i].candidate \in DOMAIN candidates'
                                    /\ candidates'[audits'[i].candidate].status # "pending"
      BY <2>1, <2>2, <2>3, <2>6 DEF Reviewed
    <3>2. \A a \in annotations' : IsPromoted(a) => a.ref \in DOMAIN candidates'
      BY <2>1, <2>4 DEF Reviewed
    <3>3. \A t \in Requests : Reviewer(t)' =>
            t # r /\ req'[t] = req[t] /\ Reviewer(t) /\ req[t].candidate # c
            /\ req[t].candidate \in DOMAIN candidates
      BY <2>3, <2>5 DEF Reviewed, Reviewer, c, Base, Held
    <3>4. \A t \in Requests : Reviewer(t)' => candidates'[req'[t].candidate].status = "pending"
      BY <2>1, <3>3 DEF Reviewed
    <3>5. \A t, u \in Requests : Reviewer(t)' /\ Reviewer(u)' /\ req'[t].candidate = req'[u].candidate => t = u
      BY <3>3 DEF Reviewed
    <3> QED
      BY <3>1, <3>2, <3>4, <3>5 DEF Reviewed, IsPromoted
  <2>8. DecidedOnce'
    <3> SUFFICES ASSUME NEW d \in DOMAIN candidates
                 PROVE  /\ \A i, j \in DOMAIN audits' :
                             audits'[i].candidate = d /\ audits'[j].candidate = d => i = j
                        /\ candidates'[d].status # "pending" <=>
                             \E i \in DOMAIN audits' :
                               audits'[i].candidate = d /\ audits'[i].action = candidates'[d].status
                        /\ candidates'[d].status = "accepted" <=>
                             \E a \in annotations' : IsPromoted(a) /\ a.ref = d
                        /\ \A a, b \in annotations' :
                             IsPromoted(a) /\ IsPromoted(b) /\ a.ref = d /\ b.ref = d => a = b
      BY <2>1 DEF DecidedOnce, IsPromoted
    <3>1. CASE d = c
      <4>1. \A i, j \in DOMAIN audits' : audits'[i].candidate = d /\ audits'[j].candidate = d => i = j
        BY <2>1, <2>2, <2>6, <3>1
      <4>2. candidates'[d].status # "pending" <=>
              \E i \in DOMAIN audits' :
                audits'[i].candidate = d /\ audits'[i].action = candidates'[d].status
        BY <2>1, <2>2, <2>3, <3>1
      <4>3. candidates'[d].status = "accepted" <=> \E a \in annotations' : IsPromoted(a) /\ a.ref = d
        BY <2>1, <2>3, <2>4, <2>6, <3>1
      <4>4. \A a, b \in annotations' : IsPromoted(a) /\ IsPromoted(b) /\ a.ref = d /\ b.ref = d => a = b
        BY <2>4, <2>6, <3>1
      <4> QED
        BY <4>1, <4>2, <4>3, <4>4
    <3>2. CASE d # c
      <4>1. \A i, j \in DOMAIN audits' : audits'[i].candidate = d /\ audits'[j].candidate = d => i = j
        BY <2>1, <2>2, <3>2 DEF DecidedOnce
      <4>2. candidates'[d].status # "pending" <=>
              \E i \in DOMAIN audits' :
                audits'[i].candidate = d /\ audits'[i].action = candidates'[d].status
        BY <2>1, <2>2, <3>2 DEF DecidedOnce
      <4>3. candidates'[d].status = "accepted" <=> \E a \in annotations' : IsPromoted(a) /\ a.ref = d
        BY <2>1, <2>4, <3>2 DEF DecidedOnce, IsPromoted
      <4>4. \A a, b \in annotations' : IsPromoted(a) /\ IsPromoted(b) /\ a.ref = d /\ b.ref = d => a = b
        BY <2>4, <3>2 DEF DecidedOnce, IsPromoted
      <4> QED
        BY <4>1, <4>2, <4>3, <4>4
    <3> QED
      BY <3>1, <3>2
  <2> QED
    BY <2>7, <2>8
<1> QED
  BY <1>1, <1>2, <1>3, <1>4, ReviewSteps

-----------------------------------------------------------------------------
(* Versions.  The versions of a dataset's snapshots leave no gap, and a request that has      *)
(* counted them asks for one of them or for the next.                                         *)
Dense ==
  \A d \in Datasets : \A v \in 1..Cardinality(SnapshotsOf(d)) :
    \E i \in SnapshotsOf(d) : snapshots[i].version = v

Counted ==
  \A r \in Requests : req[r].pc = "create" => req[r].version \in 1..NextVersion(req[r].dataset)

(* The snapshots of a dataset can be counted.                                                 *)
LEMMA SnapshotsFinite ==
  ASSUME TypeOK, NEW d
  PROVE  /\ IsFiniteSet(SnapshotsOf(d)) /\ Cardinality(SnapshotsOf(d)) \in Nat
         /\ DOMAIN snapshots = 1..Len(snapshots) /\ Len(snapshots) \in Nat
<1>1. DOMAIN snapshots = 1..Len(snapshots) /\ Len(snapshots) \in Nat
  BY LenProperties DEF TypeOK
<1>2. IsFiniteSet(1..Len(snapshots))
  BY <1>1, FS_Interval
<1>3. SnapshotsOf(d) \in SUBSET (1..Len(snapshots))
  BY <1>1 DEF SnapshotsOf
<1>4. IsFiniteSet(SnapshotsOf(d))
  BY <1>2, <1>3, FS_Subset
<1> QED
  BY <1>1, <1>4, FS_CardinalityType

(* While no snapshot is created, what was counted stays within the count.                     *)
LEMMA Counts ==
  ASSUME TypeOK, Counted, UNCHANGED snapshots,
         \A r \in Requests : req'[r].pc = "create" => req'[r] = req[r]
  PROVE  Counted'
BY DEF Counted, NextVersion, SnapshotsOf

(* Every step keeps VersionsFollowIds and what it rests on.                                   *)
LEMMA VersionsStep ==
  ASSUME Base, Dense, Counted, VersionsFollowIds, [Next]_vars
  PROVE  Dense' /\ Counted' /\ VersionsFollowIds'
<1> USE DEF Base
<1>0. ASSUME UNCHANGED snapshots PROVE Dense' /\ VersionsFollowIds'
  BY <1>0 DEF Dense, VersionsFollowIds, SnapshotsOf
<1>1. ASSUME NEW r \in Requests, NEW d \in Datasets, NEW based \in 0..Len(snapshots),
             CreateSnapshot(r, d, based)
      PROVE  Counted' /\ UNCHANGED snapshots
  <2> DEFINE next == [pc |-> "create", dataset |-> d, based |-> based, version |-> NextVersion(d)]
  <2>1. NextVersion(d) \in Nat \ {0}
    BY SnapshotsFinite DEF NextVersion
  <2>2. next \in Request /\ next.dataset = d /\ next.version = NextVersion(d)
    <3>1. based \in Nat
      BY SnapshotsFinite
    <3> QED
      BY <2>1, <3>1 DEF Request
  <2>3. Goto(r, next) /\ UNCHANGED snapshots
    BY <1>1 DEF CreateSnapshot
  <2> HIDE DEF next
  <2>4. req'[r] = next /\ \A t \in Requests \ {r} : req'[t] = req[t]
    BY <2>2, <2>3, Moves
  <2>5. \A e : NextVersion(e)' = NextVersion(e)
    BY <2>3 DEF NextVersion, SnapshotsOf
  <2>6. \A t \in Requests : req'[t].pc = "create" => req'[t].version \in 1..NextVersion(req'[t].dataset)
    BY <2>1, <2>2, <2>4 DEF Counted
  <2>7. Counted'
    BY <2>3, <2>6 DEF Counted, NextVersion, SnapshotsOf
  <2> QED
    BY <2>3, <2>7
<1>2. ASSUME NEW r \in Requests, InsertSnapshot(r) PROVE Dense' /\ Counted' /\ VersionsFollowIds'
  <2>1. PICK d \in Datasets, v \in Nat, based \in Nat :
          /\ req[r].pc = "create" /\ req[r].dataset = d /\ req[r].version = v /\ req[r].based = based
    BY <1>2, RequestTyped DEF InsertSnapshot
  <2> DEFINE new == [dataset |-> d, version |-> v, based |-> based]
             n == Len(snapshots) + 1
  <2>2. \A t \in Requests : req'[t].pc = "create" => req'[t] = req[t]
    <3>1. req'[r] = Idle /\ \A t \in Requests \ {r} : req'[t] = req[t]
      BY <1>2, Moves DEF InsertSnapshot, Return
    <3> QED
      BY <3>1 DEF Idle
  <2>3. CASE ~VersionFree(d, v)
    <3>1. UNCHANGED snapshots
      BY <1>2, <2>1, <2>3 DEF InsertSnapshot
    <3> QED
      BY <1>0, <2>2, <3>1, Counts
  <2>4. CASE VersionFree(d, v)
    <3>1. snapshots' = Append(snapshots, new)
      BY <1>2, <2>1, <2>4 DEF InsertSnapshot
    <3>2. new \in Snapshot /\ new.dataset = d /\ new.version = v
      BY <2>1 DEF Snapshot
    <3> HIDE DEF new
    <3>3. /\ Len(snapshots) \in Nat /\ DOMAIN snapshots = 1..Len(snapshots)
          /\ DOMAIN snapshots' = 1..n /\ snapshots'[n] = new
          /\ \A i \in 1..Len(snapshots) : snapshots'[i] = snapshots[i]
      <4>1. snapshots \in Seq(Snapshot)
        BY DEF TypeOK
      <4> QED
        BY <3>1, <3>2, <4>1
    <3>4. /\ SnapshotsOf(d)' = SnapshotsOf(d) \union {n} /\ n \notin SnapshotsOf(d)
          /\ \A e : e # d => SnapshotsOf(e)' = SnapshotsOf(e)
          /\ \A e : SnapshotsOf(e) \subseteq DOMAIN snapshots
      <4>1. \A i \in DOMAIN snapshots' : i = n \/ i \in DOMAIN snapshots
        BY <3>3
      <4>2. n \notin DOMAIN snapshots /\ n \in DOMAIN snapshots' /\ DOMAIN snapshots \subseteq DOMAIN snapshots'
        BY <3>3
      <4> HIDE DEF n
      <4> QED
        BY <3>2, <3>3, <4>1, <4>2 DEF SnapshotsOf
    <3>5. Cardinality(SnapshotsOf(d))' = Cardinality(SnapshotsOf(d)) + 1
      BY <3>4, SnapshotsFinite, FS_AddElement
    <3>6. v = Cardinality(SnapshotsOf(d)) + 1
      <4>1. v \in 1..(Cardinality(SnapshotsOf(d)) + 1)
        BY <2>1 DEF Counted, NextVersion
      <4>2. v \notin 1..Cardinality(SnapshotsOf(d))
        BY <2>1, <2>4 DEF VersionFree, Dense
      <4> QED
        BY <4>1, <4>2, SnapshotsFinite
    <3>7. Dense'
      <4> SUFFICES ASSUME NEW e \in Datasets, NEW w \in 1..Cardinality(SnapshotsOf(e)')
                   PROVE  \E i \in SnapshotsOf(e)' : snapshots'[i].version = w
        BY DEF Dense
      <4>1. CASE w \in 1..Cardinality(SnapshotsOf(e))
        <5>1. PICK i \in SnapshotsOf(e) : snapshots[i].version = w
          BY <4>1 DEF Dense
        <5> QED
          BY <3>3, <3>4, <5>1
      <4>2. CASE w \notin 1..Cardinality(SnapshotsOf(e))
        <5>1. e = d
          BY <3>4, <4>2
        <5>2. w = v
          BY <3>5, <3>6, <4>2, <5>1, SnapshotsFinite
        <5> QED
          BY <3>2, <3>3, <3>4, <5>1, <5>2
      <4> QED
        BY <4>1, <4>2
    <3>8. Counted'
      <4>1. \A e : NextVersion(e) \in Nat /\ NextVersion(e)' \in {NextVersion(e), NextVersion(e) + 1}
        <5>1. \A e : Cardinality(SnapshotsOf(e)) \in Nat
          BY SnapshotsFinite
        <5>2. \A e : Cardinality(SnapshotsOf(e)') \in {Cardinality(SnapshotsOf(e)), Cardinality(SnapshotsOf(e)) + 1}
          BY <3>4, <3>5
        <5> QED
          BY <5>1, <5>2 DEF NextVersion
      <4>2. \A e : 1..NextVersion(e) \subseteq 1..(NextVersion(e)')
        <5> TAKE e
        <5> HIDE DEF n
        <5>1. NextVersion(e) \in Nat /\ NextVersion(e)' \in {NextVersion(e), NextVersion(e) + 1}
          BY <4>1
        <5> QED
          BY <5>1
      <4>3. \A t \in Requests : req'[t].pc = "create" => req'[t].version \in 1..NextVersion(req'[t].dataset)
        BY <2>2 DEF Counted
      <4> QED
        BY <4>2, <4>3 DEF Counted, NextVersion, SnapshotsOf
    <3>9. VersionsFollowIds'
      <4> SUFFICES ASSUME NEW i \in 1..n
                   PROVE  snapshots'[i].version =
                            Cardinality({j \in 1..i : snapshots'[j].dataset = snapshots'[i].dataset})
        BY <3>3 DEF VersionsFollowIds
      <4>1. CASE i = n
        <5>1. {j \in 1..i : snapshots'[j].dataset = snapshots'[i].dataset} = SnapshotsOf(d)'
          BY <3>2, <3>3, <4>1 DEF SnapshotsOf
        <5> QED
          BY <3>2, <3>3, <3>5, <3>6, <4>1, <5>1
      <4>2. CASE i # n
        <5>1. i \in 1..Len(snapshots) /\ \A j \in 1..i : j \in 1..Len(snapshots)
          BY <3>3, <4>2
        <5>2. {j \in 1..i : snapshots'[j].dataset = snapshots'[i].dataset}
                = {j \in 1..i : snapshots[j].dataset = snapshots[i].dataset}
          BY <3>3, <5>1
        <5> QED
          BY <3>3, <5>1, <5>2 DEF VersionsFollowIds
      <4> QED
        BY <4>1, <4>2
    <3> QED
      BY <3>7, <3>8, <3>9
  <2> QED
    BY <2>3, <2>4
<1>3. ASSUME UNCHANGED snapshots, \A r \in Requests : req'[r].pc = "create" => req'[r] = req[r]
      PROVE  Dense' /\ Counted' /\ VersionsFollowIds'
  BY <1>0, <1>3, Counts
<1>4. CASE UNCHANGED vars
  BY <1>3, <1>4 DEF vars
<1>5. ASSUME NEW d \in Datasets, NEW k \in Keys, UpsertScannedItems(d, k)
      PROVE  Dense' /\ Counted' /\ VersionsFollowIds'
  BY <1>3, <1>5 DEF UpsertScannedItems
<1>6. ASSUME NEW s \in DOMAIN snapshots, NEW payload \in Payloads, QueueImport(s, payload)
      PROVE  Dense' /\ Counted' /\ VersionsFollowIds'
  BY <1>3, <1>6 DEF QueueImport
<1>7. ASSUME NEW r \in Requests, NEW job \in queued, ImportSnapshot(r, job)
      PROVE  Dense' /\ Counted' /\ VersionsFollowIds'
  <2>1. UNCHANGED snapshots
    BY <1>7 DEF ImportSnapshot
  <2>2. /\ \A t \in Requests \ {r} : req'[t] = req[t]
        /\ req'[r] = [pc |-> "entry", post |-> Len(posts) + 1, at |-> 1] \/ UNCHANGED req
    BY <1>7, StartStep
  <2> QED
    BY <1>3, <2>1, <2>2
<1>8. ASSUME NEW r \in Requests, RefuseEntry(r) \/ ImportFails(r) \/ CommitReview(r) \/ RollBack(r)
      PROVE  Dense' /\ Counted' /\ VersionsFollowIds'
  <2>1. Return(r) /\ UNCHANGED snapshots
    BY <1>8 DEF RefuseEntry, ImportFails, CommitReview, RollBack, Ends
  <2>2. req'[r] = Idle /\ \A t \in Requests \ {r} : req'[t] = req[t]
    BY <2>1, Moves DEF Return
  <2> QED
    BY <1>3, <2>1, <2>2 DEF Idle
<1>9. ASSUME NEW r \in Requests, CreateAnnotation(r) PROVE Dense' /\ Counted' /\ VersionsFollowIds'
  <2>1. UNCHANGED snapshots
    BY <1>9 DEF CreateAnnotation
  <2> QED
    BY <1>3, <1>9, <2>1, RowStep
<1>10. ASSUME NEW r \in Requests, RecordAnnotationChange(r) PROVE Dense' /\ Counted' /\ VersionsFollowIds'
  <2>1. UNCHANGED snapshots
    BY <1>10 DEF RecordAnnotationChange
  <2>2. req'[r].pc # "create"
    BY <1>10, ChangeStep, RequestTyped DEF RecordAnnotationChange, Ends, Return, Goto, Idle, TypeOK
  <2> QED
    BY <1>3, <1>10, <2>1, <2>2, ChangeStep
<1>11. ASSUME NEW s \in DOMAIN snapshots, NEW batch \in Proposals, PersistCandidates(s, batch)
       PROVE  Dense' /\ Counted' /\ VersionsFollowIds'
  BY <1>3, <1>11 DEF PersistCandidates
<1>12. ASSUME NEW r \in Requests, NEW c \in DOMAIN candidates, NEW decision \in {"accepted", "rejected"},
              LockCandidate(r, c, decision)
       PROVE  Dense' /\ Counted' /\ VersionsFollowIds'
  <2> DEFINE next == [pc |-> "review", candidate |-> c, decision |-> decision]
  <2>1. next \in Request /\ next.pc = "review"
    BY LenProperties DEF Request, TypeOK
  <2>2. Goto(r, next) /\ UNCHANGED snapshots
    BY <1>12 DEF LockCandidate
  <2> HIDE DEF next
  <2>3. req'[r] = next /\ \A t \in Requests \ {r} : req'[t] = req[t]
    BY <2>1, <2>2, Moves
  <2> QED
    BY <1>3, <2>1, <2>2, <2>3
<1> QED
  BY <1>0, <1>1, <1>2, <1>4, <1>5, <1>6, <1>7, <1>8, <1>9, <1>10, <1>11, <1>12
     DEF Next, DatahubStep, ReviewStep, RequestStep, ScanDataset, CompleteImportSnapshot,
         AcceptCandidate, RejectCandidate

-----------------------------------------------------------------------------
(* Conflicts.  A delivery has one row for an entry it has passed and none for the others, no  *)
(* two of its rows look the same, and if it has rows and ended well it has them all.          *)
Ahead ==
  \A r \in Requests : Importer(r) =>
    \A a \in annotations : Imported(a) /\ a.ref = req[r].post =>
      a.at < req[r].at \/ (a.at = req[r].at /\ req[r].pc = "change")

RowsOnce ==
  \A a, b \in annotations : Imported(a) /\ Imported(b) /\ a.ref = b.ref /\ a.at = b.at => a = b

RowsDiffer ==
  \A a \in annotations : Imported(a) =>
    \A i \in 1..(a.at - 1) :
      importedAnnotationKey(posts[a.ref].payload[i]) # importedAnnotationKey(posts[a.ref].payload[a.at])

RowsAreAll ==
  \A a \in annotations : Imported(a) =>
    /\ posts[a.ref].outcome \in {"running", "ok", "refused", "failed"}
    /\ posts[a.ref].outcome = "ok" => \A i \in DOMAIN posts[a.ref].payload : IsInserted(a.ref, i)

(* Every step keeps: a delivery has no rows for what is ahead of it.                          *)
LEMMA AheadStep ==
  ASSUME Base, RowsOfPosts, Ahead, [Next]_vars
  PROVE  Ahead'
<1>0. ASSUME NEW t \in Requests, Importer(t), req'[t] = req[t], NEW a \in annotations, Imported(a), a.ref = req[t].post
      PROVE  a.at < req'[t].at \/ (a.at = req'[t].at /\ req'[t].pc = "change")
  BY <1>0 DEF Ahead
<1>1. CASE Elsewhere
  BY <1>0, <1>1 DEF Elsewhere, Ahead, Imported
<1>2. ASSUME NEW r \in Requests, NEW job \in queued, ImportSnapshot(r, job) PROVE Ahead'
  <2>1. /\ UNCHANGED annotations
        /\ Len(posts) \in Nat /\ DOMAIN posts = 1..Len(posts)
        /\ \A t \in Requests \ {r} : req'[t] = req[t]
        /\ req'[r] = req[r] \/ req'[r] = [pc |-> "entry", post |-> Len(posts) + 1, at |-> 1]
    BY <1>2, StartStep
  <2> SUFFICES ASSUME NEW t \in Requests, Importer(t)', NEW a \in annotations, Imported(a), a.ref = req'[t].post
               PROVE  a.at < req'[t].at \/ (a.at = req'[t].at /\ req'[t].pc = "change")
    BY <2>1 DEF Ahead, Imported
  <2>2. CASE req'[t] = req[t]
    BY <1>0, <2>2 DEF Importer
  <2>3. CASE req'[t].post = Len(posts) + 1
    <3>1. a.ref \in DOMAIN posts
      BY DEF RowsOfPosts
    <3> QED
      BY <2>1, <2>3, <3>1
  <2> QED
    BY <2>1, <2>2, <2>3
<1>3. ASSUME NEW r \in Requests, RefuseEntry(r) \/ ImportFails(r) PROVE Ahead'
  <2>1. /\ ~Importer(r)' /\ UNCHANGED annotations
        /\ \A t \in Requests \ {r} : req'[t] = req[t]
    BY <1>3, EndStep
  <2> SUFFICES ASSUME NEW t \in Requests, Importer(t)', NEW a \in annotations, Imported(a), a.ref = req'[t].post
               PROVE  a.at < req'[t].at \/ (a.at = req'[t].at /\ req'[t].pc = "change")
    BY <2>1 DEF Ahead, Imported
  <2>2. req'[t] = req[t] /\ Importer(t)
    BY <2>1 DEF Importer
  <2> QED
    BY <1>0, <2>2
<1>4. ASSUME NEW r \in Requests, CreateAnnotation(r) PROVE Ahead'
  <2>1. /\ Importer(r) /\ req[r].pc = "entry" /\ req'[r].pc = "change"
        /\ req'[r].post = req[r].post /\ req'[r].at = req[r].at
        /\ \A t \in Requests \ {r} : req'[t] = req[t]
    BY <1>4, RowStep
  <2>2. PICK row : /\ annotations' = annotations \union {row} /\ Imported(row)
                   /\ row.ref = req[r].post /\ row.at = req[r].at
    BY <1>4, RowStep
  <2> SUFFICES ASSUME NEW t \in Requests, Importer(t)', NEW a \in annotations', Imported(a), a.ref = req'[t].post
               PROVE  a.at < req'[t].at \/ (a.at = req'[t].at /\ req'[t].pc = "change")
    BY DEF Ahead, Imported
  <2>3. CASE t = r
    <3>1. CASE a \in annotations
      BY <2>1, <2>3, <3>1 DEF Ahead
    <3>2. CASE a = row
      BY <2>1, <2>2, <2>3, <3>2
    <3> QED
      BY <2>2, <3>1, <3>2
  <2>4. CASE t # r
    <3>1. req'[t] = req[t] /\ Importer(t)
      BY <2>1, <2>4 DEF Importer
    <3>2. req[t].post # req[r].post
      BY <2>1, <2>4, <3>1 DEF Base, Linked
    <3>3. a \in annotations
      BY <2>2, <3>1, <3>2
    <3> QED
      BY <1>0, <3>1, <3>3
  <2> QED
    BY <2>3, <2>4
<1>5. ASSUME NEW r \in Requests, RecordAnnotationChange(r) PROVE Ahead'
  <2>1. /\ req[r].pc = "change" /\ Importer(r) /\ UNCHANGED annotations
        /\ \A t \in Requests \ {r} : req'[t] = req[t]
        /\ \/ /\ req'[r].pc = "entry"
              /\ req'[r].post = req[r].post /\ req'[r].at = req[r].at + 1
           \/ ~Importer(r)'
    BY <1>5, ChangeStep
  <2> SUFFICES ASSUME NEW t \in Requests, Importer(t)', NEW a \in annotations, Imported(a), a.ref = req'[t].post
               PROVE  a.at < req'[t].at \/ (a.at = req'[t].at /\ req'[t].pc = "change")
    BY <2>1 DEF Ahead, Imported
  <2>2. CASE t # r
    BY <1>0, <2>1, <2>2 DEF Importer
  <2>3. CASE t = r
    <3>1. req[r].at \in Nat /\ a.at \in Nat
      <4>1. a.at \in Nat
        BY DEF Base, TypeOK, Row
      <4> QED
        BY <2>1, <4>1, InsertTyped DEF Base
    <3>2. a.at < req[r].at \/ a.at = req[r].at
      BY <2>1, <2>3 DEF Ahead
    <3> QED
      BY <2>1, <2>3, <3>1, <3>2
  <2> QED
    BY <2>2, <2>3
<1> QED
  BY <1>1, <1>2, <1>3, <1>4, <1>5, ImportSteps

(* Every step keeps: a delivery has one row for an entry, and its rows look different.        *)
LEMMA RowsOnceStep ==
  ASSUME Base, RowsOfPosts, Ahead, RowsOnce, RowsDiffer, [Next]_vars
  PROVE  RowsOnce' /\ RowsDiffer'
<1>0. ASSUME \A a \in annotations' : Imported(a) => a \in annotations,
             \A p \in DOMAIN posts : posts'[p].payload = posts[p].payload
      PROVE  RowsOnce' /\ RowsDiffer'
  <2>1. RowsOnce'
    BY <1>0 DEF RowsOnce, Imported
  <2>2. RowsDiffer'
    BY <1>0 DEF RowsDiffer, RowsOfPosts, Imported, importedAnnotationKey
  <2> QED
    BY <2>1, <2>2
<1>1. CASE Elsewhere
  BY <1>0, <1>1 DEF Elsewhere
<1>2. ASSUME NEW r \in Requests, NEW job \in queued, ImportSnapshot(r, job) PROVE RowsOnce' /\ RowsDiffer'
  <2>1. UNCHANGED annotations /\ \A p \in DOMAIN posts : posts'[p] = posts[p]
    BY <1>2, StartStep
  <2> QED
    BY <1>0, <2>1
<1>3. ASSUME NEW r \in Requests, RefuseEntry(r) \/ ImportFails(r) PROVE RowsOnce' /\ RowsDiffer'
  <2>1. UNCHANGED annotations /\ PostsKept
    BY <1>3, EndStep
  <2> QED
    BY <1>0, <2>1 DEF PostsKept
<1>4. ASSUME NEW r \in Requests, CreateAnnotation(r) PROVE RowsOnce' /\ RowsDiffer'
  <2>1. Importer(r) /\ req[r].pc = "entry" /\ UNCHANGED posts
    BY <1>4, RowStep
  <2>2. PICK row : /\ annotations' = annotations \union {row} /\ Imported(row)
                   /\ row.ref = req[r].post /\ row.at = req[r].at
    BY <1>4, RowStep
  <2>3. req[r].at \in Nat
    BY <2>1, InsertTyped DEF Base
  <2>4. \A a \in annotations : Imported(a) /\ a.ref = row.ref => a.at # row.at
    BY <2>1, <2>2, <2>3 DEF Ahead
  <2>5. RowsOnce'
    BY <2>2, <2>4 DEF RowsOnce, Imported
  <2>6. \A i \in 1..(row.at - 1) :
          importedAnnotationKey(posts[row.ref].payload[i]) # importedAnnotationKey(posts[row.ref].payload[row.at])
    BY <1>4, <2>2 DEF CreateAnnotation, Refused, CurrentEntry
  <2>7. RowsDiffer'
    BY <2>1, <2>2, <2>6 DEF RowsDiffer, Imported, importedAnnotationKey
  <2> QED
    BY <2>5, <2>7
<1>5. ASSUME NEW r \in Requests, RecordAnnotationChange(r) PROVE RowsOnce' /\ RowsDiffer'
  <2>1. UNCHANGED annotations /\ PostsKept
    BY <1>5, ChangeStep
  <2> QED
    BY <1>0, <2>1 DEF PostsKept
<1> QED
  BY <1>1, <1>2, <1>3, <1>4, <1>5, ImportSteps

(* Every step keeps: a delivery that has rows and ended well has all of them.                 *)
LEMMA RowsAreAllStep ==
  ASSUME Base, RowsOfPosts, Inserted, RowsAreAll, [Next]_vars
  PROVE  RowsAreAll'
<1> DEFINE All(p) == /\ posts[p].outcome \in {"running", "ok", "refused", "failed"}
                     /\ posts[p].outcome = "ok" => \A i \in DOMAIN posts[p].payload : IsInserted(p, i)
<1>0. ASSUME NEW p \in DOMAIN posts, posts'[p] = posts[p], annotations \subseteq annotations', All(p)
      PROVE  All(p)'
  <2>1. \A i : IsInserted(p, i) => IsInserted(p, i)'
    BY <1>0 DEF IsInserted, Imported
  <2> QED
    BY <1>0, <2>1
<1>00. \A a \in annotations : Imported(a) => a.ref \in DOMAIN posts /\ All(a.ref)
  BY DEF RowsAreAll, RowsOfPosts
<1> SUFFICES ASSUME NEW a \in annotations', Imported(a) PROVE All(a.ref)'
  BY DEF RowsAreAll, Imported
<1> HIDE DEF All
<1>1. CASE Elsewhere
  BY <1>0, <1>00, <1>1 DEF Elsewhere
<1>2. ASSUME NEW r \in Requests, NEW job \in queued, ImportSnapshot(r, job) PROVE All(a.ref)'
  <2>1. UNCHANGED annotations /\ \A p \in DOMAIN posts : posts'[p] = posts[p]
    BY <1>2, StartStep
  <2> QED
    BY <1>0, <1>00, <2>1
<1>3. ASSUME NEW r \in Requests, RefuseEntry(r) \/ ImportFails(r) PROVE All(a.ref)'
  <2>1. /\ UNCHANGED annotations /\ posts'[req[r].post].outcome \in {"refused", "failed"}
        /\ \A p \in DOMAIN posts : p # req[r].post => posts'[p] = posts[p]
    BY <1>3, EndStep
  <2>2. CASE a.ref = req[r].post
    BY <2>1, <2>2 DEF All
  <2>3. CASE a.ref # req[r].post
    BY <1>0, <1>00, <2>1, <2>3
  <2> QED
    BY <2>2, <2>3
<1>4. ASSUME NEW r \in Requests, CreateAnnotation(r) PROVE All(a.ref)'
  <2>1. Importer(r) /\ UNCHANGED posts
    BY <1>4, RowStep
  <2>2. PICK row : /\ annotations' = annotations \union {row} /\ Imported(row)
                   /\ row.ref = req[r].post /\ row.at = req[r].at
    BY <1>4, RowStep
  <2>3. posts[req[r].post].outcome = "running"
    BY <2>1 DEF Base, Linked
  <2>4. CASE a \in annotations
    BY <1>0, <1>00, <2>1, <2>2, <2>4
  <2>5. CASE a = row
    BY <2>1, <2>2, <2>3, <2>5 DEF All
  <2> QED
    BY <2>2, <2>4, <2>5
<1>5. ASSUME NEW r \in Requests, RecordAnnotationChange(r) PROVE All(a.ref)'
  <2>1. /\ UNCHANGED annotations /\ PostsKept /\ Importer(r) /\ req[r].pc = "change"
        /\ \A p \in DOMAIN posts : p # req[r].post => posts'[p] = posts[p]
        /\ \/ posts' = posts
           \/ /\ posts'[req[r].post].outcome = "ok"
              /\ req[r].at = Len(posts[req[r].post].payload)
    BY <1>5, ChangeStep
  <2>2. CASE a.ref # req[r].post \/ posts' = posts
    BY <1>0, <1>00, <2>1, <2>2
  <2>3. CASE a.ref = req[r].post /\ posts' # posts
    <3> DEFINE p == req[r].post
    <3>1. /\ p \in DOMAIN posts /\ DOMAIN posts[p].payload = 1..Len(posts[p].payload)
          /\ posts[p].payload \in Seq(Entry)
      BY <2>1, InsertTyped DEF Base, Linked
    <3>2. \A i \in DOMAIN posts[p].payload : i < req[r].at \/ i = req[r].at
      BY <2>1, <2>3, <3>1, LenProperties
    <3>3. \A i \in DOMAIN posts[p].payload : IsInserted(p, i)
      BY <2>1, <3>2 DEF Inserted, InsertedBy
    <3>4. posts'[p].payload = posts[p].payload /\ posts'[p].outcome = "ok"
      BY <2>1, <2>3, <3>1 DEF PostsKept
    <3> QED
      BY <2>1, <2>3, <3>3, <3>4 DEF All, IsInserted, Imported
  <2> QED
    BY <2>2, <2>3
<1> QED
  BY <1>1, <1>2, <1>3, <1>4, <1>5, ImportSteps

(* A payload whose keys are those of a delivery with rows for all its entries, all of them    *)
(* different, matches the snapshot that has these rows and no others.                         *)
LEMMA ReplayMatches ==
  ASSUME Base, RowsOfPosts, RowsOnce, RowsDiffer, NEW q \in DOMAIN posts, NEW payload \in Seq(Entry),
         NEW rows \in SUBSET annotations, \A a \in rows : Imported(a) /\ a.ref = q,
         \A i \in DOMAIN posts[q].payload : \E a \in rows : a.at = i,
         KeysOf(posts[q].payload) = KeysOf(payload), Len(posts[q].payload) = Len(payload)
  PROVE  importEntriesMatchSnapshot(rows, payload)
<1> DEFINE w == posts[q].payload
           D == DOMAIN w
           E == DOMAIN payload
           K == KeysOf(payload)
           g == [i \in D |-> importedAnnotationKey(w[i])]
           h == [i \in E |-> importedAnnotationKey(payload[i])]
           f == [i \in E |-> CHOOSE a \in rows : importedAnnotationKey(a.entry) = importedAnnotationKey(payload[i])]
<1>1. w \in Seq(Entry)
  <2>1. posts[q] \in Post
    BY LenProperties DEF Base, TypeOK
  <2>2. posts[q].payload \in Payloads
    BY <2>1 DEF Post
  <2> QED
    BY <2>2, SnapshotContentAssumption
<1>2. /\ D = 1..Len(w) /\ E = 1..Len(payload) /\ Len(w) \in Nat /\ Len(payload) \in Nat /\ Len(w) = Len(payload)
  BY <1>1, LenProperties
<1>3. D = E /\ IsFiniteSet(D)
  <2>1. \A n \in Nat : IsFiniteSet(1..n)
    BY FS_Interval
  <2> QED
    BY <1>2, <2>1
<1>4. \A a \in rows : a.at \in D /\ a.entry = w[a.at]
  BY DEF RowsOfPosts
<1>5. \A i, j \in D : importedAnnotationKey(w[i]) = importedAnnotationKey(w[j]) => i = j
  <2>1. ASSUME NEW i \in D, NEW j \in D, i < j
        PROVE  importedAnnotationKey(w[i]) # importedAnnotationKey(w[j])
    <3>1. PICK a \in rows : a.at = j
      OBVIOUS
    <3>2. i \in 1..(a.at - 1)
      BY <1>2, <2>1, <3>1
    <3> QED
      BY <3>1, <3>2 DEF RowsDiffer
  <2> SUFFICES ASSUME NEW i \in D, NEW j \in D, i # j
               PROVE  importedAnnotationKey(w[i]) # importedAnnotationKey(w[j])
    OBVIOUS
  <2>2. i < j \/ j < i
    BY <1>2
  <2> HIDE DEF D, w
  <2> QED
    BY <2>1, <2>2
<1>6. \A a, b \in rows : importedAnnotationKey(a.entry) = importedAnnotationKey(b.entry) => a = b
  <2> SUFFICES ASSUME NEW a \in rows, NEW b \in rows,
                      importedAnnotationKey(a.entry) = importedAnnotationKey(b.entry)
               PROVE  a = b
    OBVIOUS
  <2>1. a.at = b.at
    BY <1>4, <1>5
  <2> QED
    BY <2>1 DEF RowsOnce
<1>7. g \in Surjection(D, K) /\ h \in Surjection(E, K)
  <2>1. K = {importedAnnotationKey(w[i]) : i \in D} /\ K = {importedAnnotationKey(payload[i]) : i \in E}
    BY DEF KeysOf
  <2>2. /\ g \in [D -> K] /\ \A k \in K : \E i \in D : g[i] = k
        /\ h \in [E -> K] /\ \A k \in K : \E i \in E : h[i] = k
    <3> HIDE DEF K, D, E, w
    <3> QED
      BY <2>1
  <2> HIDE DEF g, h, D, E, K
  <2> QED
    BY <2>2, Fun_IsSurj
<1>8. g \in Injection(D, K)
  <2>1. g \in [D -> K] /\ \A i, j \in D : g[i] = g[j] => i = j
    <3>1. g \in [D -> K]
      <4> HIDE DEF g, D, K
      <4> QED
        BY <1>7, Fun_SurjectionProperties
    <3> QED
      BY <1>5, <3>1
  <2> HIDE DEF g, D, K
  <2> QED
    BY <2>1, Fun_IsInj
<1>9. \A i, j \in E : h[i] = h[j] => i = j
  <2> HIDE DEF g, h, D, E, K
  <2>1. Cardinality(K) = Cardinality(D)
    BY <1>3, <1>7, <1>8, FS_Surjection
  <2>2. Cardinality(E) = Cardinality(K) /\ IsFiniteSet(E)
    BY <1>3, <2>1
  <2>3. h \in Injection(E, K)
    BY <1>7, <2>2, FS_SurjSameCardinalityImpliesInj
  <2> QED
    BY <2>3, Fun_InjectionProperties
<1>10. \A i \in E : \E a \in rows : importedAnnotationKey(a.entry) = importedAnnotationKey(payload[i])
  <2> SUFFICES ASSUME NEW i \in E PROVE \E a \in rows : importedAnnotationKey(a.entry) = importedAnnotationKey(payload[i])
    OBVIOUS
  <2>1. importedAnnotationKey(payload[i]) \in KeysOf(w)
    BY DEF KeysOf
  <2>2. PICK j \in D : importedAnnotationKey(w[j]) = importedAnnotationKey(payload[i])
    BY <2>1 DEF KeysOf
  <2>3. PICK a \in rows : a.at = j
    OBVIOUS
  <2> QED
    BY <1>4, <2>2, <2>3
<1>11. f \in [E -> rows] /\ \A i \in E : importedAnnotationKey(f[i].entry) = importedAnnotationKey(payload[i])
  BY <1>10
<1>12. \A i, j \in E : f[i] = f[j] => i = j
  <2> SUFFICES ASSUME NEW i \in E, NEW j \in E, f[i] = f[j] PROVE i = j
    OBVIOUS
  <2>1. importedAnnotationKey(payload[i]) = importedAnnotationKey(payload[j])
    <3> HIDE DEF f
    <3> QED
      BY <1>11
  <2>2. h[i] = h[j]
    BY <2>1
  <2> HIDE DEF h, f, E
  <2> QED
    BY <1>9, <2>2
<1>13. \A a \in rows : \E i \in E : f[i] = a
  <2> SUFFICES ASSUME NEW a \in rows PROVE \E i \in E : f[i] = a
    OBVIOUS
  <2>1. importedAnnotationKey(a.entry) \in KeysOf(w)
    BY <1>4 DEF KeysOf
  <2>2. importedAnnotationKey(a.entry) \in KeysOf(payload)
    BY <2>1
  <2>4. PICK i \in E : importedAnnotationKey(payload[i]) = importedAnnotationKey(a.entry)
    BY <2>2 DEF KeysOf
  <2> HIDE DEF f
  <2>3. f[i] \in rows /\ importedAnnotationKey(f[i].entry) = importedAnnotationKey(a.entry)
    BY <1>11, <2>4
  <2> QED
    BY <1>6, <2>3
<1> HIDE DEF f
<1> QED
  BY <1>11, <1>12, <1>13 DEF importEntriesMatchSnapshot

(* A delivery that finds rows which are not its entries, and nobody importing, has a reason.  *)
LEMMA MismatchHasCause ==
  ASSUME Base, RowsOfPosts, RowsOnce, RowsDiffer, RowsAreAll, MixedOnlyByOverlap,
         NEW s, NEW payload \in Seq(Entry), Importing(s) = {}, ListAnnotationsForSnapshot(s) # {},
         ~importEntriesMatchSnapshot(ListAnnotationsForSnapshot(s), payload)
  PROVE  \/ \E q \in DOMAIN posts :
              /\ posts[q].snapshot = s
              /\ \/ KeysOf(posts[q].payload) # KeysOf(payload)
                 \/ Len(posts[q].payload) # Len(payload)
                 \/ posts[q].outcome \in {"failed", "refused"}
                 \/ \E o \in overlaps : q \in o
         \/ \E a \in annotations : a.source = "pseudo" /\ a.snapshot = s
<1> DEFINE rows == ListAnnotationsForSnapshot(s)
<1> SUFFICES ASSUME \A q \in DOMAIN posts : posts[q].snapshot = s =>
                      /\ KeysOf(posts[q].payload) = KeysOf(payload)
                      /\ Len(posts[q].payload) = Len(payload)
                      /\ posts[q].outcome \notin {"failed", "refused"}
                      /\ \A o \in overlaps : q \notin o,
                    \A a \in annotations : a.snapshot = s => a.source # "pseudo"
             PROVE  FALSE
  OBVIOUS
<1>1. rows \in SUBSET annotations /\ \A a \in rows : a.snapshot = s
  BY DEF ListAnnotationsForSnapshot
<1>2. \A a \in rows : Imported(a)
  BY <1>1 DEF Base, TypeOK, Row, Imported
<1>3. PICK b : b \in rows
  OBVIOUS
<1> DEFINE q == b.ref
<1>4. q \in DOMAIN posts /\ posts[q].snapshot = s
  BY <1>1, <1>2, <1>3 DEF RowsOfPosts
<1>5. posts[q].outcome = "ok"
  <2>1. posts[q].outcome \in {"running", "ok", "refused", "failed"}
    BY <1>1, <1>2, <1>3 DEF RowsAreAll
  <2>2. posts[q].outcome # "running"
    BY <1>4 DEF Importing
  <2> QED
    BY <1>4, <2>1, <2>2
<1>6. \A a \in rows : a.ref = q
  <2> SUFFICES ASSUME NEW a \in rows, a.ref # q PROVE FALSE
    OBVIOUS
  <2>1. {a.ref, q} \in overlaps
    BY <1>1, <1>2, <1>3 DEF MixedOnlyByOverlap, Imported
  <2> QED
    BY <1>4, <2>1
<1>7. \A i \in DOMAIN posts[q].payload : \E a \in rows : a.at = i
  <2> SUFFICES ASSUME NEW i \in DOMAIN posts[q].payload PROVE \E a \in rows : a.at = i
    OBVIOUS
  <2>1. PICK a \in annotations : Imported(a) /\ a.ref = q /\ a.at = i
    BY <1>1, <1>2, <1>3, <1>5 DEF RowsAreAll, IsInserted
  <2>2. a.snapshot = s
    BY <1>4, <2>1 DEF RowsOfPosts
  <2> QED
    BY <2>1, <2>2 DEF ListAnnotationsForSnapshot
<1> HIDE DEF rows, q
<1>8. importEntriesMatchSnapshot(rows, payload)
  BY <1>1, <1>2, <1>4, <1>6, <1>7, ReplayMatches
<1> QED
  BY <1>8 DEF rows

(* Every step keeps ConflictHasCause.                                                         *)
LEMMA CauseStep ==
  ASSUME Base, RowsOfPosts, RowsOnce, RowsDiffer, RowsAreAll, MixedOnlyByOverlap, ConflictHasCause, [Next]_vars
  PROVE  ConflictHasCause'
<1> DEFINE Cause(p) ==
      \/ \E q \in 1..(p - 1) :
           /\ posts[q].snapshot = posts[p].snapshot
           /\ \/ KeysOf(posts[q].payload) # KeysOf(posts[p].payload)
              \/ Len(posts[q].payload) # Len(posts[p].payload)
              \/ posts[q].outcome \in {"failed", "refused"}
              \/ \E o \in overlaps : q \in o
      \/ \E a \in annotations : a.source = "pseudo" /\ a.snapshot = posts[p].snapshot
<1>0. Len(posts) \in Nat /\ DOMAIN posts = 1..Len(posts)
  BY LenProperties DEF Base, TypeOK
<1>1. ASSUME NEW p \in DOMAIN posts, Cause(p), PostsKept, annotations \subseteq annotations', overlaps \subseteq overlaps'
      PROVE  Cause(p)'
  <2>1. posts'[p].snapshot = posts[p].snapshot /\ posts'[p].payload = posts[p].payload
    BY <1>1 DEF PostsKept
  <2>2. CASE \E a \in annotations : a.source = "pseudo" /\ a.snapshot = posts[p].snapshot
    BY <1>1, <2>1, <2>2
  <2>3. ASSUME NEW q \in 1..(p - 1), posts[q].snapshot = posts[p].snapshot,
               \/ KeysOf(posts[q].payload) # KeysOf(posts[p].payload)
               \/ Len(posts[q].payload) # Len(posts[p].payload)
               \/ posts[q].outcome \in {"failed", "refused"}
               \/ \E o \in overlaps : q \in o
        PROVE  Cause(p)'
    <3>1. q \in DOMAIN posts
      BY <1>0
    <3>2. /\ posts'[q].snapshot = posts[q].snapshot /\ posts'[q].payload = posts[q].payload
          /\ posts[q].outcome \in {"failed", "refused"} => posts'[q].outcome = posts[q].outcome
      BY <1>1, <3>1 DEF PostsKept
    <3> QED
      BY <1>1, <2>1, <2>3, <3>2
  <2> QED
    BY <1>1, <2>2, <2>3
<1>2. \A p \in DOMAIN posts : posts[p].outcome = "conflict" => Cause(p)
  BY DEF ConflictHasCause
<1> SUFFICES ASSUME NEW p \in DOMAIN posts', posts'[p].outcome = "conflict"
             PROVE  Cause(p)'
  BY DEF ConflictHasCause
<1>3. ASSUME PostsKept, DOMAIN posts' = DOMAIN posts, annotations \subseteq annotations', overlaps \subseteq overlaps',
             posts[p].outcome = "conflict"
      PROVE  Cause(p)'
  <2> HIDE DEF Cause
  <2> QED
    BY <1>1, <1>2, <1>3
<1>4. CASE Elsewhere
  <2>1. PostsKept
    BY <1>0, <1>4 DEF Elsewhere, PostsKept
  <2> QED
    BY <1>3, <1>4, <2>1 DEF Elsewhere
<1>5. ASSUME NEW r \in Requests, NEW job \in queued, ImportSnapshot(r, job) PROVE Cause(p)'
  <2> DEFINE n == Len(posts) + 1
  <2>1. /\ UNCHANGED annotations /\ DOMAIN posts' = 1..(Len(posts) + 1)
        /\ \A q \in DOMAIN posts : posts'[q] = posts[q]
        /\ posts'[n].snapshot = job.snapshot /\ posts'[n].payload = job.payload
        /\ overlaps \subseteq overlaps'
    BY <1>5, StartStep
  <2>2. PostsKept /\ job.payload \in Seq(Entry)
    BY <1>5, ImportTyped DEF Base
  <2>3. CASE p \in DOMAIN posts
    <3>1. posts[p].outcome = "conflict"
      BY <2>1, <2>3
    <3> HIDE DEF Cause
    <3> QED
      BY <1>1, <1>2, <2>1, <2>2, <2>3, <3>1
  <2>4. CASE p = n
    <3>1. posts' = Append(posts, [snapshot |-> job.snapshot, payload |-> job.payload,
             outcome |-> IF Answer(job.snapshot, job.payload) = "conflict" /\ Importing(job.snapshot) # {}
                         THEN "overtaken" ELSE Answer(job.snapshot, job.payload)])
      BY <1>5 DEF ImportSnapshot
    <3>2. Answer(job.snapshot, job.payload) = "conflict" /\ Importing(job.snapshot) = {}
      <4> DEFINE o == IF Answer(job.snapshot, job.payload) = "conflict" /\ Importing(job.snapshot) # {}
                      THEN "overtaken" ELSE Answer(job.snapshot, job.payload)
                 new == [snapshot |-> job.snapshot, payload |-> job.payload, outcome |-> o]
      <4>1. new.outcome = o
        OBVIOUS
      <4>2. posts' = Append(posts, new)
        BY <3>1
      <4> HIDE DEF new
      <4>3. posts'[n] = new
        BY <1>0, <4>2 DEF Base, TypeOK
      <4>4. o = "conflict"
        BY <2>4, <4>1, <4>3
      <4> QED
        BY <4>4
    <3>3. /\ ListAnnotationsForSnapshot(job.snapshot) # {}
          /\ ~importEntriesMatchSnapshot(ListAnnotationsForSnapshot(job.snapshot), job.payload)
      BY <3>2 DEF Answer
    <3>4. \/ \E q \in DOMAIN posts :
               /\ posts[q].snapshot = job.snapshot
               /\ \/ KeysOf(posts[q].payload) # KeysOf(job.payload)
                  \/ Len(posts[q].payload) # Len(job.payload)
                  \/ posts[q].outcome \in {"failed", "refused"}
                  \/ \E o \in overlaps : q \in o
          \/ \E a \in annotations : a.source = "pseudo" /\ a.snapshot = job.snapshot
      BY <2>2, <3>2, <3>3, MismatchHasCause
    <3>5. posts'[p].snapshot = job.snapshot /\ posts'[p].payload = job.payload
      BY <2>1, <2>4
    <3>6. CASE \E a \in annotations : a.source = "pseudo" /\ a.snapshot = job.snapshot
      BY <2>1, <3>5, <3>6
    <3>7. ASSUME NEW q \in DOMAIN posts, posts[q].snapshot = job.snapshot,
                 \/ KeysOf(posts[q].payload) # KeysOf(job.payload)
                 \/ Len(posts[q].payload) # Len(job.payload)
                 \/ posts[q].outcome \in {"failed", "refused"}
                 \/ \E o \in overlaps : q \in o
          PROVE  Cause(p)'
      <4>1. q \in 1..(p - 1) /\ posts'[q] = posts[q]
        BY <1>0, <2>1, <2>4
      <4> QED
        BY <2>1, <3>5, <3>7, <4>1
    <3> QED
      BY <3>4, <3>6, <3>7
  <2> QED
    BY <1>0, <2>1, <2>3, <2>4
<1> HIDE DEF Cause
<1>6. ASSUME NEW r \in Requests, RefuseEntry(r) \/ ImportFails(r) PROVE Cause(p)'
  <2>1. /\ UNCHANGED <<annotations, overlaps>> /\ PostsKept /\ DOMAIN posts' = DOMAIN posts
        /\ posts'[req[r].post].outcome \in {"refused", "failed"}
        /\ \A q \in DOMAIN posts : q # req[r].post => posts'[q] = posts[q]
    BY <1>6, EndStep
  <2>2. posts[p].outcome = "conflict"
    BY <2>1
  <2> QED
    BY <1>3, <2>1, <2>2
<1>7. ASSUME NEW r \in Requests, CreateAnnotation(r) PROVE Cause(p)'
  <2>1. UNCHANGED <<posts, overlaps>> /\ annotations \subseteq annotations'
    BY <1>7, RowStep
  <2>2. PostsKept
    BY <1>0, <2>1 DEF PostsKept
  <2> QED
    BY <1>3, <2>1, <2>2
<1>8. ASSUME NEW r \in Requests, RecordAnnotationChange(r) PROVE Cause(p)'
  <2>1. /\ UNCHANGED <<annotations, overlaps>> /\ PostsKept /\ DOMAIN posts' = DOMAIN posts
        /\ posts' = posts \/ posts'[req[r].post].outcome = "ok"
        /\ \A q \in DOMAIN posts : q # req[r].post => posts'[q] = posts[q]
    BY <1>8, ChangeStep
  <2>2. posts[p].outcome = "conflict"
    BY <2>1
  <2> QED
    BY <1>3, <2>1, <2>2
<1> QED
  BY <1>4, <1>5, <1>6, <1>7, <1>8, ImportSteps

-----------------------------------------------------------------------------
(* The invariant that is inductive, and what follows from it. *)
IInv ==
  /\ Base
  /\ RowsOfPosts /\ Inserted /\ Alongside
  /\ AckedImportIsComplete /\ ChangesTellOfRows /\ MixedOnlyByOverlap
  /\ Ahead /\ RowsOnce /\ RowsDiffer /\ RowsAreAll /\ ConflictHasCause
  /\ Reviewed /\ DecidedOnce
  /\ Dense /\ Counted /\ VersionsFollowIds

(* The invariant holds in the first state.                                                    *)
LEMMA IInvInitially == Init => IInv
<1> SUFFICES ASSUME Init PROVE IInv
  OBVIOUS
<1> USE DEF Init
<1>1. \A r \in Requests : req[r] = Idle /\ req[r].pc = "idle"
  BY DEF Idle
<1>2. /\ snapshots \in Seq(Snapshot) /\ candidates \in Seq(Candidate) /\ posts \in Seq(Post)
      /\ audits \in Seq([candidate: Nat, action: {"accepted", "rejected"}])
      /\ DOMAIN snapshots = {} /\ DOMAIN candidates = {} /\ DOMAIN posts = {} /\ DOMAIN audits = {}
  OBVIOUS
<1>3. Base
  <2>1. TypeOK
    BY <1>2 DEF TypeOK
  <2> QED
    BY <1>1, <1>2, <2>1 DEF Base, Placed, Linked, Held, Importer
<1>4. RowsOfPosts /\ Inserted /\ Alongside
  BY <1>1, <1>2 DEF RowsOfPosts, Inserted, Alongside, Importer
<1>5. AckedImportIsComplete /\ ChangesTellOfRows /\ MixedOnlyByOverlap
  BY <1>2 DEF AckedImportIsComplete, ChangesTellOfRows, MixedOnlyByOverlap
<1>6. Reviewed /\ DecidedOnce
  BY <1>1, <1>2 DEF Reviewed, DecidedOnce, Reviewer
<1>8. Ahead /\ RowsOnce /\ RowsDiffer /\ RowsAreAll /\ ConflictHasCause
  BY <1>1, <1>2 DEF Ahead, RowsOnce, RowsDiffer, RowsAreAll, ConflictHasCause
<1>7. Dense /\ Counted /\ VersionsFollowIds
  <2>1. \A d : SnapshotsOf(d) = {}
    BY <1>2 DEF SnapshotsOf
  <2>2. Cardinality({}) = 0
    BY FS_EmptySet
  <2>3. Dense
    <3>1. \A d : Cardinality(SnapshotsOf(d)) = 0
      BY <2>1, <2>2, Zenon
    <3>2. \A v \in 1..0 : FALSE
      OBVIOUS
    <3> QED
      BY <3>1, <3>2, Zenon DEF Dense
  <2>4. Counted
    BY <1>1 DEF Counted
  <2>5. VersionsFollowIds
    BY <1>2 DEF VersionsFollowIds
  <2> QED
    BY <2>3, <2>4, <2>5
<1> QED
  BY <1>3, <1>4, <1>5, <1>6, <1>7, <1>8 DEF IInv

(* The invariant is inductive.                                                                *)
LEMMA IInvStep == IInv /\ [Next]_vars => IInv'
BY BaseStep, RowsOfPostsStep, InsertedStep, AlongsideStep, MixedStep, AckedStep, ChangesStep,
   AheadStep, RowsOnceStep, RowsAreAllStep, CauseStep, DecidedStep, VersionsStep DEF IInv

(* Every table and request of the data hub and the review keeps its type, whatever the        *)
(* handlers do at the same time.                                                              *)
THEOREM TypeCorrect == Spec => []TypeOK
<1>1. IInv => TypeOK
  BY DEF IInv, Base
<1> QED
  BY <1>1, IInvInitially, IInvStep, PTL DEF Spec

(* CreateSnapshot: count and insert are two statements, and versions are 1, 2, 3, ... in the  *)
(* order of the ids all the same, for any number of datasets and concurrent requests.         *)
THEOREM VersionsFollowIdsHolds == Spec => []VersionsFollowIds
<1>1. IInv => VersionsFollowIds
  BY DEF IInv
<1> QED
  BY <1>1, IInvInitially, IInvStep, PTL DEF Spec

(* ImportSnapshot: a delivery that was answered with success has every entry in its snapshot, *)
(* for any payloads, deliveries and failures.                                                 *)
THEOREM AckedImportIsCompleteHolds == Spec => []AckedImportIsComplete
<1>1. IInv => AckedImportIsComplete
  BY DEF IInv
<1> QED
  BY <1>1, IInvInitially, IInvStep, PTL DEF Spec

(* ImportSnapshot: every change is about a row, and a row without a change is one of a        *)
(* delivery that is about to record it or was cut short.                                      *)
THEOREM ChangesTellOfRowsHolds == Spec => []ChangesTellOfRows
<1>1. IInv => ChangesTellOfRows
  BY DEF IInv
<1> QED
  BY <1>1, IInvInitially, IInvStep, PTL DEF Spec

(* ImportSnapshot: rows of two deliveries meet in one snapshot only when both listed it as    *)
(* empty.                                                                                     *)
THEOREM MixedOnlyByOverlapHolds == Spec => []MixedOnlyByOverlap
<1>1. IInv => MixedOnlyByOverlap
  BY DEF IInv
<1> QED
  BY <1>1, IInvInitially, IInvStep, PTL DEF Spec

(* transitionCandidate: a candidate is decided once, audited once, and promoted exactly when  *)
(* it was accepted, for any number of reviewers.                                              *)
THEOREM DecidedOnceHolds == Spec => []DecidedOnce
<1>1. IInv => DecidedOnce
  BY DEF IInv
<1> QED
  BY <1>1, IInvInitially, IInvStep, PTL DEF Spec

(* ImportSnapshot: a delivery that meets no other one is told of a conflict only for a cause: *)
(* an earlier one carried other entries, ended half way or overlapped with a third, or a      *)
(* candidate was accepted.  A replay of a completed import is never one, for any payloads.    *)
THEOREM ConflictHasCauseHolds == Spec => []ConflictHasCause
<1>1. IInv => ConflictHasCause
  BY DEF IInv
<1> QED
  BY <1>1, IInvInitially, IInvStep, PTL DEF Spec

-----------------------------------------------------------------------------
(***************************************************************************)
(* SnapshotDiff. The rows of a snapshot are the sequence of its            *)
(* annotations by rank; the overlaps are fractions, compared crosswise;    *)
(* each loop takes its boxes out of what is left, so that a box is told of *)
(* once; and the weighted score is a fold whose recursive function is      *)
(* shown to exist by descending through strict subsets.                    *)
(***************************************************************************)

(* A set of natural numbers has a least one, which Min gives. *)
LEMMA LeastIsLeast ==
  ASSUME NEW S \in SUBSET Nat, S # {}
  PROVE  Min(S) \in S /\ \A n \in S : Min(S) <= n
<1>1. IsWellFoundedOn(OpToRel(<, Nat), Nat)
  BY NatLessThanWellFounded
<1>2. PICK x \in S : \A y \in S : ~ (<<y, x>> \in OpToRel(<, Nat))
  BY <1>1, WFMin
<1>3. \A y \in S : x <= y
  <2> SUFFICES ASSUME NEW y \in S, y < x PROVE FALSE
    OBVIOUS
  <2>1. <<y, x>> \in Nat \X Nat
    OBVIOUS
  <2>2. <<y, x>> \in OpToRel(<, Nat)
    BY <2>1 DEF OpToRel
  <2> QED
    BY <1>2, <2>2
<1> QED
  BY <1>3 DEF Min

-----------------------------------------------------------------------------
(* Overlaps are fractions, which are compared crosswise. *)
Fraction == Int \X (Nat \ {0})

NotLess(p, q) == ~LessThan(p, q)

(* Comparing fractions is a total order. *)
LEMMA FractionOrder ==
  ASSUME NEW p \in Fraction, NEW q \in Fraction, NEW r \in Fraction
  PROVE  /\ LessThan(p, q) \/ LessThan(q, p) \/ (NotLess(p, q) /\ NotLess(q, p))
         /\ LessThan(p, q) => NotLess(q, p)
         /\ NotLess(p, p)
         /\ NotLess(q, p) /\ LessThan(q, r) => LessThan(p, r)
         /\ NotLess(q, p) /\ NotLess(r, q) => NotLess(r, p)
<1>1. PICK a \in Int, b \in Nat \ {0} : p = <<a, b>>
  BY DEF Fraction
<1>2. PICK c \in Int, d \in Nat \ {0} : q = <<c, d>>
  BY DEF Fraction
<1>3. PICK e \in Int, f \in Nat \ {0} : r = <<e, f>>
  BY DEF Fraction
<1>4. /\ LessThan(p, q) <=> a * d < c * b
      /\ LessThan(q, p) <=> c * b < a * d
      /\ LessThan(q, r) <=> c * f < e * d
      /\ LessThan(r, q) <=> e * d < c * f
      /\ LessThan(p, r) <=> a * f < e * b
      /\ LessThan(r, p) <=> e * b < a * f
      /\ LessThan(p, p) <=> a * b < a * b
  BY <1>1, <1>2, <1>3 DEF LessThan
<1>5. a * d \in Int /\ c * b \in Int /\ c * f \in Int /\ e * d \in Int /\ a * f \in Int /\ e * b \in Int /\ a * b \in Int
  OBVIOUS
<1>6. ASSUME a * d <= c * b, c * f <= e * d PROVE a * f <= e * b
  <2>1. (a * d) * f <= (c * b) * f
    BY <1>5, <1>6
  <2>2. (c * f) * b <= (e * d) * b
    BY <1>5, <1>6
  <2>3. (a * f) * d <= (e * b) * d
    BY <2>1, <2>2
  <2> QED
    BY <1>5, <2>3
<1>7. ASSUME a * d <= c * b, c * f < e * d PROVE a * f < e * b
  <2>1. (a * d) * f <= (c * b) * f
    BY <1>5, <1>7
  <2>2. (c * f) * b < (e * d) * b
    BY <1>5, <1>7
  <2>3. (a * f) * d < (e * b) * d
    BY <2>1, <2>2
  <2> QED
    BY <1>5, <2>3
<1> QED
  BY <1>4, <1>5, <1>6, <1>7 DEF NotLess

(* Two products of positive numbers are equal only if no factor is smaller. *)
LEMMA EqualProducts ==
  ASSUME NEW x \in Nat \ {0}, NEW y \in Nat \ {0}, NEW u \in Nat \ {0}, NEW v \in Nat \ {0},
         x <= u, y <= v, x * y = u * v
  PROVE  x = u /\ y = v
<1>1. ASSUME x < u PROVE FALSE
  <2>1. x * y < u * y /\ u * y <= u * v
    BY <1>1
  <2> QED
    BY <2>1
<1>2. ASSUME y < v PROVE FALSE
  <2>1. x * y <= u * y /\ u * y < u * v
    BY <1>2
  <2> QED
    BY <2>1
<1> QED
  BY <1>1, <1>2

(* bboxIOU gives a fraction; it is not negative, and less than 1 unless the boxes are equal. *)
LEMMA IOUTyped ==
  ASSUME NEW a, NEW b, IsBox(a), IsBox(b)
  PROVE  /\ bboxIOU(a, b) \in Fraction /\ bboxIOU(a, b)[1] >= 0
         /\ bboxIOU(a, b)[1] > 0 /\ ~sameBBox(a, b) => bboxIOU(a, b)[1] < bboxIOU(a, b)[2]
         /\ bboxIOU(a, b)[1] <= bboxIOU(a, b)[2]
<1> DEFINE o == Overlap(a.x, a.w, b.x, b.w)
           p == Overlap(a.y, a.h, b.y, b.h)
           inter == o * p
           denom == a.w * a.h + b.w * b.h - inter
<1>0. a.x \in Int /\ a.y \in Int /\ a.w \in Int /\ a.h \in Int /\ b.x \in Int /\ b.y \in Int /\ b.w \in Int /\ b.h \in Int
  BY DEF IsBox
<1>1. /\ o \in Nat /\ (o # 0 => o <= a.w /\ o <= b.w) /\ (o # 0 /\ o = a.w /\ o = b.w => a.x = b.x)
      /\ p \in Nat /\ (p # 0 => p <= a.h /\ p <= b.h) /\ (p # 0 /\ p = a.h /\ p = b.h => a.y = b.y)
  <2>2. /\ o \in Nat /\ (o # 0 => o <= a.w /\ o <= b.w) /\ (o # 0 /\ o = a.w /\ o = b.w => a.x = b.x)
    BY <1>0 DEF Overlap, Greater, Lesser
  <2>3. /\ p \in Nat /\ (p # 0 => p <= a.h /\ p <= b.h) /\ (p # 0 /\ p = a.h /\ p = b.h => a.y = b.y)
    BY <1>0 DEF Overlap, Greater, Lesser
  <2> QED
    BY <2>2, <2>3
<1>2. bboxIOU(a, b) = IF inter = 0 \/ denom <= 0 THEN <<0, 1>> ELSE <<inter, denom>>
  BY DEF bboxIOU
<1> HIDE DEF o, p
<1>3. inter \in Nat /\ denom \in Int
  BY <1>0, <1>1
<1>4. CASE inter = 0 \/ denom <= 0
  BY <1>2, <1>4 DEF Fraction
<1>5. CASE ~(inter = 0 \/ denom <= 0)
  <2>1. o # 0 /\ p # 0
    BY <1>1, <1>5
  <2>2. inter <= a.w * a.h /\ inter <= b.w * b.h
    <3>1. o * p <= a.w * p /\ a.w * p <= a.w * a.h
      BY <1>0, <1>1, <2>1
    <3>2. o * p <= b.w * p /\ b.w * p <= b.w * b.h
      BY <1>0, <1>1, <2>1
    <3> QED
      BY <1>0, <1>1, <3>1, <3>2
  <2>3. inter <= denom
    BY <1>0, <1>3, <2>2
  <2>4. ASSUME inter = denom PROVE sameBBox(a, b)
    <3>1. inter = a.w * a.h /\ inter = b.w * b.h
      BY <1>0, <1>3, <2>2, <2>4
    <3>2. a.w \in Nat \ {0} /\ a.h \in Nat \ {0} /\ b.w \in Nat \ {0} /\ b.h \in Nat \ {0} /\ o \in Nat \ {0} /\ p \in Nat \ {0}
      BY <1>0, <1>1, <2>1
    <3>3. o = a.w /\ p = a.h
      <4>1. o <= a.w /\ p <= a.h /\ o * p = a.w * a.h
        BY <1>1, <2>1, <3>1
      <4> QED
        BY <3>2, <4>1, EqualProducts
    <3>4. o = b.w /\ p = b.h
      <4>1. o <= b.w /\ p <= b.h /\ o * p = b.w * b.h
        BY <1>1, <2>1, <3>1
      <4> QED
        BY <3>2, <4>1, EqualProducts
    <3> QED
      BY <1>1, <2>1, <3>3, <3>4 DEF sameBBox
  <2>5. bboxIOU(a, b) = <<inter, denom>>
    BY <1>2, <1>5
  <2> HIDE DEF inter, denom
  <2>6. bboxIOU(a, b)[1] = inter /\ bboxIOU(a, b)[2] = denom
    BY <2>5
  <2>7. denom \in Nat \ {0} /\ inter \in Int
    BY <1>3, <1>5
  <2>8. bboxIOU(a, b) \in Fraction
    BY <2>5, <2>7 DEF Fraction
  <2> QED
    BY <1>3, <2>3, <2>4, <2>6, <2>7, <2>8
<1> QED
  BY <1>4, <1>5

(* Among finitely many fractions there is a greatest. *)
LEMMA GreatestExists ==
  ASSUME NEW S, IsFiniteSet(S), S # {}, NEW q \in [S -> Fraction]
  PROVE  \E i \in S : \A j \in S : NotLess(q[i], q[j])
<1> DEFINE HasGreatest(T) == \E i \in T : \A j \in T : NotLess(q[i], q[j])
           Bad == {T \in FiniteSubsetsOf(S) : T # {} /\ ~HasGreatest(T)}
<1> SUFFICES ASSUME ~HasGreatest(S) PROVE FALSE
  OBVIOUS
<1>1. Bad # {} /\ Bad \subseteq FiniteSubsetsOf(S)
  <2>1. S \in FiniteSubsetsOf(S)
    BY DEF FiniteSubsetsOf
  <2> QED
    BY <2>1
<1>2. PICK T \in Bad : \A U \in Bad : ~(<<U, T>> \in StrictSubsetOrdering(S))
  <2> HIDE DEF Bad
  <2> QED
    BY <1>1, WFMin, FS_StrictSubsetOrderingWellFounded
<1>3. T \in FiniteSubsetsOf(S) /\ T # {} /\ ~HasGreatest(T) /\ T \subseteq S
  BY <1>2 DEF FiniteSubsetsOf
<1>4. PICK x : x \in T
  BY <1>3
<1> DEFINE U == T \ {x}
<1>5. U \in FiniteSubsetsOf(S)
  BY <1>3, FS_RemoveElement DEF FiniteSubsetsOf
<1>6. <<U, T>> \in StrictSubsetOrdering(S)
  BY <1>3, <1>4, <1>5 DEF StrictSubsetOrdering, FiniteSubsetsOf
<1>7. CASE U = {}
  <2>1. T = {x}
    BY <1>4, <1>7
  <2>2. q[x] \in Fraction
    BY <1>3, <1>4
  <2> QED
    BY <1>3, <2>1, <2>2, FractionOrder
<1>8. CASE U # {}
  <2>1. HasGreatest(U)
    BY <1>2, <1>5, <1>6, <1>8
  <2>2. PICK i \in U : \A j \in U : NotLess(q[i], q[j])
    BY <2>1
  <2>3. i \in T /\ q[i] \in Fraction /\ q[x] \in Fraction /\ \A j \in T : q[j] \in Fraction
    BY <1>3, <1>4
  <2>4. CASE NotLess(q[i], q[x])
    BY <1>3, <2>2, <2>3, <2>4
  <2>5. CASE ~NotLess(q[i], q[x])
    <3>1. NotLess(q[x], q[i])
      BY <2>3, <2>5, FractionOrder DEF NotLess
    <3>2. \A j \in U : NotLess(q[x], q[j])
      BY <2>2, <2>3, <3>1, FractionOrder
    <3>3. NotLess(q[x], q[x])
      BY <2>3, FractionOrder
    <3> QED
      BY <1>3, <1>4, <3>2, <3>3
  <2> QED
    BY <2>4, <2>5
<1> QED
  BY <1>7, <1>8

-----------------------------------------------------------------------------
(* Rank numbers the places of a set from 1, without gaps. *)
LEMMA RankIsBijection ==
  ASSUME NEW P \in SUBSET Nat, IsFiniteSet(P)
  PROVE  /\ [i \in P |-> Rank(i, P)] \in Bijection(P, 1..Cardinality(P))
         /\ Cardinality(P) \in Nat
<1> DEFINE UpTo(i) == {j \in P : j <= i}
           rank == [i \in P |-> Rank(i, P)]
<1>1. Cardinality(P) \in Nat
  BY FS_CardinalityType
<1>2. \A i \in P : IsFiniteSet(UpTo(i)) /\ Cardinality(UpTo(i)) \in 1..Cardinality(P)
  <2> SUFFICES ASSUME NEW i \in P PROVE IsFiniteSet(UpTo(i)) /\ Cardinality(UpTo(i)) \in 1..Cardinality(P)
    OBVIOUS
  <2>1. UpTo(i) \in SUBSET P /\ i \in UpTo(i)
    OBVIOUS
  <2>2. IsFiniteSet(UpTo(i)) /\ Cardinality(UpTo(i)) <= Cardinality(P)
    BY <2>1, FS_Subset
  <2>3. Cardinality(UpTo(i)) \in Nat /\ Cardinality(UpTo(i)) # 0
    <3> HIDE DEF UpTo
    <3> QED
      BY <2>1, <2>2, FS_CardinalityType, FS_EmptySet
  <2> QED
    BY <1>1, <2>2, <2>3
<1>3. \A i, k \in P : i < k => Cardinality(UpTo(i)) < Cardinality(UpTo(k))
  <2> SUFFICES ASSUME NEW i \in P, NEW k \in P, i < k PROVE Cardinality(UpTo(i)) < Cardinality(UpTo(k))
    OBVIOUS
  <2>1. UpTo(i) \in SUBSET UpTo(k) /\ k \in UpTo(k) /\ k \notin UpTo(i)
    <3>1. i \in Nat /\ k \in Nat /\ k <= k /\ ~(k <= i)
      OBVIOUS
    <3>2. \A j \in P : j <= i => j <= k
      OBVIOUS
    <3> QED
      BY <3>1, <3>2
  <2>2. Cardinality(UpTo(i)) <= Cardinality(UpTo(k)) /\ Cardinality(UpTo(i)) # Cardinality(UpTo(k))
    <3> HIDE DEF UpTo
    <3> QED
      BY <1>2, <2>1, FS_Subset
  <2> QED
    BY <1>1, <1>2, <2>2
<1>4. rank \in [P -> 1..Cardinality(P)] /\ \A i \in P : rank[i] = Cardinality(UpTo(i))
  BY <1>2 DEF Rank
<1>5. \A i, k \in P : rank[i] = rank[k] => i = k
  <2> SUFFICES ASSUME NEW i \in P, NEW k \in P, i # k PROVE rank[i] # rank[k]
    OBVIOUS
  <2>1. i < k \/ k < i
    OBVIOUS
  <2>2. Cardinality(UpTo(i)) \in Nat /\ Cardinality(UpTo(k)) \in Nat
    BY <1>1, <1>2
  <2> HIDE DEF UpTo, rank
  <2> QED
    BY <1>3, <1>4, <2>1, <2>2
<1> HIDE DEF rank
<1>6. rank \in Injection(P, 1..Cardinality(P))
  BY <1>4, <1>5, Fun_IsInj
<1>7. IsFiniteSet(1..Cardinality(P)) /\ Cardinality(1..Cardinality(P)) = Cardinality(P)
  BY <1>1, FS_Interval
<1>8. rank \in Surjection(P, 1..Cardinality(P))
  BY <1>6, <1>7, FS_Injection
<1>9. rank \in Bijection(P, 1..Cardinality(P))
  BY <1>6, <1>8, Fun_IsBij
<1> QED
  BY <1>1, <1>9 DEF rank

(* The place whose rank is k. *)
PlaceAt(P) == [k \in 1..Cardinality(P) |-> CHOOSE i \in P : Rank(i, P) = k]

(* RowsAt lists the rows of the places, each once. *)
LEMMA RowsAtPlaces ==
  ASSUME NEW rows, rows \in Seq(Range(rows)), NEW P \in SUBSET DOMAIN rows
  PROVE  /\ IsFiniteSet(P) /\ Cardinality(P) \in Nat
         /\ PlaceAt(P) \in Bijection(1..Cardinality(P), P)
         /\ RowsAt(rows, P) \in Seq(Range(rows))
         /\ Len(RowsAt(rows, P)) = Cardinality(P)
         /\ DOMAIN RowsAt(rows, P) = 1..Cardinality(P)
         /\ \A k \in 1..Cardinality(P) : PlaceAt(P)[k] \in P /\ RowsAt(rows, P)[k] = rows[PlaceAt(P)[k]]
<1>1. P \in SUBSET Nat /\ IsFiniteSet(P)
  <2>1. DOMAIN rows = 1..Len(rows) /\ Len(rows) \in Nat
    OBVIOUS
  <2>2. IsFiniteSet(1..Len(rows))
    BY <2>1, FS_Interval
  <2> QED
    BY <2>1, <2>2, FS_Subset
<1> DEFINE rank == [i \in P |-> Rank(i, P)]
<1>2. rank \in Bijection(P, 1..Cardinality(P)) /\ Cardinality(P) \in Nat
  BY <1>1, RankIsBijection
<1>3. /\ \A i, k \in P : rank[i] = rank[k] => i = k
      /\ \A k \in 1..Cardinality(P) : \E i \in P : rank[i] = k
      /\ rank \in [P -> 1..Cardinality(P)]
  <2> DEFINE N == 1..Cardinality(P)
  <2>1. rank \in Bijection(P, N)
    BY <1>2
  <2> HIDE DEF rank, N
  <2>2. rank \in [P -> N] /\ (\A i, k \in P : rank[i] = rank[k] => i = k) /\ \A k \in N : \E i \in P : rank[i] = k
    BY <2>1, Fun_BijectionProperties
  <2> QED
    BY <2>2 DEF N
<1>4. \A k \in 1..Cardinality(P) : PlaceAt(P)[k] \in P /\ Rank(PlaceAt(P)[k], P) = k
  BY <1>3 DEF PlaceAt
<1>5. PlaceAt(P) \in [1..Cardinality(P) -> P]
  BY <1>4 DEF PlaceAt
<1>6. \A i \in P : Rank(i, P) \in 1..Cardinality(P) /\ PlaceAt(P)[Rank(i, P)] = i
  BY <1>3, <1>4
<1>7. PlaceAt(P) \in Bijection(1..Cardinality(P), P)
  <2>1. \A k, m \in 1..Cardinality(P) : PlaceAt(P)[k] = PlaceAt(P)[m] => k = m
    BY <1>4
  <2>2. \A i \in P : \E k \in 1..Cardinality(P) : PlaceAt(P)[k] = i
    BY <1>6
  <2> QED
    BY <1>5, <2>1, <2>2, Fun_IsBij
<1>8. RowsAt(rows, P) = [k \in 1..Cardinality(P) |-> rows[PlaceAt(P)[k]]]
  BY DEF RowsAt, PlaceAt
<1>9. \A k \in 1..Cardinality(P) : rows[PlaceAt(P)[k]] \in Range(rows)
  BY <1>4 DEF Range
<1>10. RowsAt(rows, P) \in Seq(Range(rows)) /\ Len(RowsAt(rows, P)) = Cardinality(P)
  BY <1>2, <1>8, <1>9, IsASeq, LenProperties
<1> QED
  BY <1>1, <1>2, <1>4, <1>7, <1>8, <1>10

(* So what is read of a table of boxes is a list of boxes. *)
LEMMA RowsAtAreBoxes ==
  ASSUME NEW rows, IsListOfBoxes(rows), NEW P \in SUBSET DOMAIN rows
  PROVE  IsListOfBoxes(RowsAt(rows, P))
<1> DEFINE l == RowsAt(rows, P)
<1>1. rows \in Seq(Range(rows))
  BY DEF IsListOfBoxes
<1>2. l \in Seq(Range(rows)) /\ DOMAIN l = 1..Len(l) /\ Len(l) \in Nat
  BY <1>1, RowsAtPlaces
<1>3. Range(l) \subseteq Range(rows)
  <2> HIDE DEF l
  <2> QED
    BY <1>2 DEF Range
<1>4. l \in Seq(Range(l))
  <2> HIDE DEF l
  <2>1. l = [k \in 1..Len(l) |-> l[k]] /\ \A k \in 1..Len(l) : l[k] \in Range(l)
    BY <1>2 DEF Range
  <2> QED
    BY <1>2, <2>1, IsASeq
<1> QED
  BY <1>3, <1>4 DEF IsListOfBoxes

-----------------------------------------------------------------------------
DiffTyped ==
  /\ diffPc \in {"idle", "second", "failed", "exact", "updates", "done"}
  /\ IsListOfBoxes(before) /\ IsListOfBoxes(after)
  /\ threshold \in Fraction /\ (diffPc \notin {"idle", "failed"} => threshold[1] > 0)
  /\ exact \subseteq (DOMAIN before) \X (DOMAIN after)
  /\ updates \subseteq (DOMAIN before) \X (DOMAIN after)
  /\ removes \subseteq DOMAIN before
  /\ adds \subseteq DOMAIN after

PairedOnce ==
  /\ \A p, q \in Pairs : p[1] = q[1] \/ p[2] = q[2] => p = q
  /\ \A p \in Pairs : p[1] \notin removes
  /\ exact \intersect updates = {}

Phases ==
  /\ diffPc \in {"idle", "second", "failed"} => exact = {}
  /\ diffPc \in {"idle", "second", "failed", "exact"} => updates = {} /\ removes = {}
  /\ diffPc # "done" => adds = {}
  /\ diffPc = "done" => BoxesLeft = {} /\ adds = Free

PairsAreAlike ==
  /\ \A p \in Pairs : SameGroup(before[p[1]], after[p[2]])
  /\ \A p \in exact : sameBBox(before[p[1]], after[p[2]])

NoEqualLeft ==
  diffPc \in {"updates", "done"} =>
    \A b \in DOMAIN before, a \in DOMAIN after :
      /\ \A p \in exact : p[1] # b /\ p[2] # a
      /\ SameGroup(before[b], after[a])
      => ~sameBBox(before[b], after[a])

RemovedInv ==
  \A b \in removes, a \in Free :
    SameGroup(before[b], after[a]) => LessThan(bboxIOU(before[b], after[a]), threshold)

DiffInv == DiffTyped /\ PairedOnce /\ Phases /\ PairsAreAlike /\ NoEqualLeft /\ RemovedInv

(* There are n numbers from 1 to n. *)
LEMMA CountOfPlaces ==
  ASSUME NEW n \in Nat
  PROVE  IsFiniteSet(1..n) /\ Cardinality(1..n) = n
<1>1. 1 \in Int /\ n \in Int
  OBVIOUS
<1>2. IsFiniteSet(1..n) /\ Cardinality(1..n) = IF 1 > n THEN 0 ELSE n - 1 + 1
  BY <1>1, FS_Interval
<1> QED
  BY <1>2

(* The places of a list are the numbers from 1 to its length. *)
LEMMA ListFacts ==
  ASSUME NEW l, IsListOfBoxes(l)
  PROVE  /\ Len(l) \in Nat /\ DOMAIN l = 1..Len(l) /\ DOMAIN l \subseteq Nat
         /\ IsFiniteSet(DOMAIN l) /\ Cardinality(DOMAIN l) = Len(l)
         /\ \A i \in DOMAIN l : IsBox(l[i])
<1>1. Len(l) \in Nat /\ DOMAIN l = 1..Len(l)
  BY DEF IsListOfBoxes
<1>2. \A i \in DOMAIN l : l[i] \in Range(l)
  BY DEF Range
<1>3. \A i \in DOMAIN l : IsBox(l[i])
  BY <1>2 DEF IsListOfBoxes, IsBox
<1>4. IsFiniteSet(1..Len(l)) /\ Cardinality(1..Len(l)) = Len(l)
  BY <1>1, CountOfPlaces
<1> QED
  BY <1>1, <1>3, <1>4

(* A threshold that is missing gets its default, which is positive. *)
LEMMA ThresholdTyped ==
  ASSUME NEW t \in Thresholds
  PROVE  DefaultThreshold(t) \in Fraction /\ DefaultThreshold(t)[1] > 0
<1>1. t \in Int \X Int /\ t[2] > 0
  BY SnapshotDiffAssumption
<1>2. PICK m \in Int, n \in Int : t = <<m, n>>
  BY <1>1
<1> QED
  BY <1>1, <1>2 DEF DefaultThreshold, Fraction

(* With nothing paired the invariant is about the two lists and the threshold. *)
LEMMA NothingPaired ==
  ASSUME diffPc' \in {"second", "exact", "failed"}, IsListOfBoxes(before'), IsListOfBoxes(after'),
         threshold' \in Fraction, diffPc' # "failed" => threshold'[1] > 0,
         exact' = {}, updates' = {}, removes' = {}, adds' = {}
  PROVE  DiffInv'
<1>1. DiffTyped'
  BY DEF DiffTyped
<1>2. PairedOnce' /\ Phases' /\ PairsAreAlike' /\ NoEqualLeft' /\ RemovedInv'
  BY DEF PairedOnce, Phases, PairsAreAlike, NoEqualLeft, RemovedInv, Pairs
<1> QED
  BY <1>1, <1>2 DEF DiffInv

(* The rows of the table, which is read while it grows. *)
TableInv ==
  /\ table \in Seq(Rows) /\ seen \in Nat /\ seen <= Len(table)
  /\ IsListOfBoxes(table)

(* The rows a snapshot has for the diff. *)
PlacesAt(rows, snapshot) == {i \in DOMAIN rows : EffectiveAt(rows[i], snapshot) /\ Verified(rows[i])}

(* A table is a list of boxes. *)
LEMMA TablesAreBoxes ==
  ASSUME NEW rows \in Seq(Rows)
  PROVE  IsListOfBoxes(rows) /\ \A snapshot : IsListOfBoxes(ListEffectiveAnnotations(rows, snapshot))
<1>1. \A r \in Rows : IsBox(r)
  BY SnapshotDiffAssumption
<1>2. DOMAIN rows = 1..Len(rows) /\ Len(rows) \in Nat /\ \A i \in DOMAIN rows : rows[i] \in Rows
  BY ElementOfSeq, LenProperties
<1>3. rows = [i \in 1..Len(rows) |-> rows[i]] /\ \A i \in 1..Len(rows) : rows[i] \in Range(rows)
  BY <1>2 DEF Range
<1>4. rows \in Seq(Range(rows)) /\ Range(rows) \subseteq Rows
  BY <1>2, <1>3, IsASeq DEF Range
<1>5. IsListOfBoxes(rows)
  BY <1>1, <1>4 DEF IsListOfBoxes
<1>6. \A snapshot : PlacesAt(rows, snapshot) \in SUBSET DOMAIN rows
  BY DEF PlacesAt
<1> QED
  BY <1>5, <1>6, RowsAtAreBoxes DEF ListEffectiveAnnotations, PlacesAt

(* The queries leave two lists of boxes, and the table stays one. *)
LEMMA QueriesKeep ==
  ASSUME DiffInv, TableInv, DiffIdle, NEW t \in Thresholds,
         \/ \E b, a \in Lists : DiffSnapshots(b, a, t)
         \/ \E rows \in Tables, from, to \in {r.snapshot : r \in Rows} : DiffBySnapshotIDs(rows, from, to, t)
  PROVE  DiffInv' /\ TableInv'
<1>0. DiffTyped /\ Phases /\ table \in Seq(Rows) /\ seen \in Nat /\ seen <= Len(table)
  BY DEF DiffInv, TableInv
<1>1. DefaultThreshold(t) \in Fraction /\ DefaultThreshold(t)[1] > 0
  BY ThresholdTyped
<1>2. ASSUME NEW b \in Lists, NEW a \in Lists, DiffSnapshots(b, a, t)
      PROVE  DiffInv' /\ TableInv'
  <2>1. /\ diffPc' = "exact" /\ before' = b /\ after' = a /\ threshold' = DefaultThreshold(t)
        /\ exact' = {} /\ updates' = {} /\ removes' = {} /\ adds' = {} /\ table' = table /\ seen' = seen
    BY <1>2 DEF DiffSnapshots, DiffIdle
  <2>2. IsListOfBoxes(b) /\ IsListOfBoxes(a)
    BY SnapshotDiffAssumption
  <2> QED
    BY <1>1, <2>1, <2>2, NothingPaired DEF TableInv
<1>3. ASSUME NEW rows \in Tables, NEW from, NEW to, DiffBySnapshotIDs(rows, from, to, t)
      PROVE  DiffInv' /\ TableInv'
  <2>1. /\ diffPc' = "second" /\ before' = ListEffectiveAnnotations(rows, from) /\ after' = <<>>
        /\ threshold' = DefaultThreshold(t) /\ exact' = {} /\ updates' = {} /\ removes' = {} /\ adds' = {}
        /\ table' = rows /\ seen' = Len(rows)
    BY <1>3 DEF DiffBySnapshotIDs, DiffIdle
  <2>2. rows \in Seq(Rows)
    BY SnapshotDiffAssumption
  <2>3. IsListOfBoxes(rows) /\ IsListOfBoxes(ListEffectiveAnnotations(rows, from))
    BY <2>2, TablesAreBoxes
  <2>4. IsListOfBoxes(after)
    BY <1>0 DEF DiffTyped
  <2>5. after = <<>>
    BY <1>3 DEF DiffIdle
  <2>6. DiffInv'
    BY <1>1, <2>1, <2>3, <2>4, <2>5, NothingPaired
  <2>7. TableInv'
    BY <2>1, <2>2, <2>3, LenProperties DEF TableInv
  <2> QED
    BY <2>6, <2>7
<1> QED
  BY <1>2, <1>3

(* So do the second query, a row that is added before it, and a query that fails. *)
LEMMA QueryStepsKeep ==
  ASSUME DiffInv, TableInv, RowIsAdded \/ ListAfter \/ ListFails
  PROVE  DiffInv' /\ TableInv'
<1>0. DiffTyped /\ Phases /\ table \in Seq(Rows) /\ seen \in Nat /\ seen <= Len(table)
  BY DEF DiffInv, TableInv
<1>4. CASE RowIsAdded
  <2>1. PICK r \in Rows : table' = Append(table, r)
    BY <1>4 DEF RowIsAdded
  <2>2. /\ diffPc = "second" /\ diffPc' = diffPc /\ before' = before /\ after' = after /\ threshold' = threshold
        /\ exact' = exact /\ updates' = updates /\ removes' = removes /\ adds' = adds /\ seen' = seen
    BY <1>4 DEF RowIsAdded
  <2>3. table' \in Seq(Rows) /\ Len(table') = Len(table) + 1 /\ Len(table) \in Nat
    BY <1>0, <2>1, AppendProperties, LenProperties
  <2>4. TableInv'
    BY <1>0, <2>2, <2>3, TablesAreBoxes DEF TableInv
  <2>5. DiffInv'
    BY <1>0, <2>2, NothingPaired DEF DiffTyped, Phases
  <2> QED
    BY <2>4, <2>5
<1>5. CASE ListAfter
  <2>1. PICK s \in asked : after' = ListEffectiveAnnotations(table, s[2])
    BY <1>5 DEF ListAfter
  <2>2. /\ diffPc = "second" /\ diffPc' = "exact" /\ before' = before /\ threshold' = threshold
        /\ exact' = exact /\ updates' = updates /\ removes' = removes /\ adds' = adds /\ seen' = seen
        /\ table' = table
    BY <1>5 DEF ListAfter
  <2>3. IsListOfBoxes(after')
    BY <1>0, <2>1, TablesAreBoxes
  <2>4. DiffInv'
    BY <1>0, <2>2, <2>3, NothingPaired DEF DiffTyped, Phases
  <2> QED
    BY <2>2, <2>4 DEF TableInv
<1>6. CASE ListFails
  <2>1. /\ diffPc \in {"idle", "second"} /\ diffPc' = "failed" /\ before' = before /\ after' = after
        /\ threshold' = threshold /\ exact' = exact /\ updates' = updates /\ removes' = removes
        /\ adds' = adds /\ seen' = seen /\ table' = table
    BY <1>6 DEF ListFails
  <2>2. DiffInv'
    BY <1>0, <2>1, NothingPaired DEF DiffTyped, Phases
  <2> QED
    BY <2>1, <2>2 DEF TableInv
<1> QED
  BY <1>4, <1>5, <1>6

(* PairEqualBoxes: a pair joins a box that is left and one that is free. *)
LEMMA PairKeeps ==
  ASSUME DiffInv, PairEqualBoxes
  PROVE  DiffInv'
<1> DEFINE left == {b \in BoxesLeft : claimExactMatch(b) # {}}
<1>0. DiffTyped /\ PairedOnce /\ Phases /\ PairsAreAlike /\ NoEqualLeft /\ RemovedInv
  BY DEF DiffInv
<1>1. /\ diffPc = "exact" /\ updates = {} /\ removes = {} /\ adds = {}
      /\ UNCHANGED <<before, after, threshold, asked, table, seen, updates, removes, adds>>
  BY <1>0 DEF PairEqualBoxes, Phases
<1>2. Pairs = exact /\ Pairs' = exact' /\ removes' = {} /\ updates' = {} /\ adds' = {}
  BY <1>1 DEF Pairs
<1>3. DOMAIN before \subseteq Nat /\ DOMAIN after \subseteq Nat
  BY <1>0, ListFacts DEF DiffTyped
<1>4. CASE left # {}
  <2> DEFINE b == Min(left)
             a == Min(claimExactMatch(b))
  <2>1. exact' = exact \union {<<b, a>>} /\ diffPc' = "exact"
    BY <1>1, <1>4 DEF PairEqualBoxes
  <2>2. left \in SUBSET Nat
    BY <1>3 DEF BoxesLeft
  <2>3. b \in left
    BY <1>4, <2>2, LeastIsLeast
  <2>4. b \in BoxesLeft /\ claimExactMatch(b) # {}
    BY <2>3
  <2>5. claimExactMatch(b) \in SUBSET Nat
    BY <1>3 DEF claimExactMatch, FreeIn, Free
  <2>6. a \in claimExactMatch(b)
    BY <2>4, <2>5, LeastIsLeast
  <2> HIDE DEF a, b, left
  <2>7. /\ b \in DOMAIN before /\ a \in DOMAIN after
        /\ SameGroup(before[b], after[a]) /\ sameBBox(before[b], after[a])
        /\ \A p \in exact : p[1] # b /\ p[2] # a
    BY <1>2, <2>4, <2>6 DEF BoxesLeft, claimExactMatch, FreeIn, Free, SameGroup, sameBBox
  <2>8. DiffTyped'
    BY <1>0, <1>1, <2>1, <2>7 DEF DiffTyped
  <2>9. PairedOnce'
    BY <1>0, <1>2, <2>1, <2>7 DEF PairedOnce
  <2>10. Phases' /\ NoEqualLeft' /\ RemovedInv'
    BY <1>2, <2>1 DEF Phases, NoEqualLeft, RemovedInv
  <2>11. PairsAreAlike'
    BY <1>0, <1>1, <1>2, <2>1, <2>7 DEF PairsAreAlike
  <2> QED
    BY <2>8, <2>9, <2>10, <2>11 DEF DiffInv
<1>5. CASE left = {}
  <2>1. exact' = exact /\ diffPc' = "updates"
    BY <1>1, <1>5 DEF PairEqualBoxes
  <2>2. DiffTyped'
    BY <1>0, <1>1, <2>1 DEF DiffTyped
  <2>3. PairedOnce' /\ Phases' /\ PairsAreAlike' /\ RemovedInv'
    BY <1>0, <1>1, <1>2, <2>1 DEF PairedOnce, Phases, PairsAreAlike, RemovedInv
  <2>4. ASSUME NEW b \in DOMAIN before, NEW a \in DOMAIN after,
               \A p \in exact : p[1] # b /\ p[2] # a, SameGroup(before[b], after[a])
        PROVE  ~sameBBox(before[b], after[a])
    <3>1. b \in BoxesLeft /\ a \in FreeIn(b)
      BY <1>1, <1>2, <2>4 DEF BoxesLeft, FreeIn, Free, SameGroup
    <3>2. claimExactMatch(b) = {}
      BY <1>5, <3>1
    <3> QED
      BY <3>1, <3>2 DEF claimExactMatch, sameBBox
  <2>5. NoEqualLeft'
    BY <1>1, <2>1, <2>4 DEF NoEqualLeft
  <2> QED
    BY <2>2, <2>3, <2>5 DEF DiffInv
<1> QED
  BY <1>4, <1>5

(* The overlaps with the boxes of a set that are in the other list. *)
LEMMA BestIsBest ==
  ASSUME DiffTyped, diffPc = "updates", NEW b \in DOMAIN before, NEW S \in SUBSET DOMAIN after,
         \/ BestOf(b, S) = {}
         \/ ~AtLeast(bboxIOU(before[b], after[Min(BestOf(b, S))]), threshold)
  PROVE  \A a \in S : LessThan(bboxIOU(before[b], after[a]), threshold)
<1> SUFFICES ASSUME NEW a \in S PROVE LessThan(bboxIOU(before[b], after[a]), threshold)
  OBVIOUS
<1> DEFINE q == [i \in S |-> bboxIOU(before[b], after[i])]
<1>1. /\ IsFiniteSet(DOMAIN after) /\ DOMAIN after \subseteq Nat
      /\ IsBox(before[b]) /\ \A i \in S : IsBox(after[i])
  BY ListFacts DEF DiffTyped
<1>2. \A i \in S : bboxIOU(before[b], after[i]) \in Fraction /\ bboxIOU(before[b], after[i])[1] >= 0
  BY <1>1, IOUTyped
<1>3. q \in [S -> Fraction] /\ (\A i \in S : q[i] = bboxIOU(before[b], after[i]) /\ q[i] \in Fraction /\ q[i][1] >= 0)
  BY <1>2
<1>4. IsFiniteSet(S) /\ S \in SUBSET Nat
  BY <1>1, FS_Subset
<1>5. threshold \in Fraction /\ threshold[1] > 0
  BY DEF DiffTyped
<1>6. BestOf(b, S) = {i \in S : q[i][1] > 0 /\ \A j \in S : NotLess(q[i], q[j])}
  BY <1>3 DEF BestOf, NotLess
<1> HIDE DEF q
<1>7. PICK i \in S : \A j \in S : NotLess(q[i], q[j])
  BY <1>3, <1>4, GreatestExists
<1>8. CASE q[i][1] > 0
  <2>1. BestOf(b, S) # {} /\ BestOf(b, S) \in SUBSET Nat
    BY <1>4, <1>6, <1>7, <1>8
  <2> DEFINE m == Min(BestOf(b, S))
  <2>2. m \in BestOf(b, S)
    BY <2>1, LeastIsLeast
  <2>3. LessThan(bboxIOU(before[b], after[m]), threshold)
    BY <2>1 DEF AtLeast
  <2> HIDE DEF m
  <2>4. m \in S /\ NotLess(q[m], q[a]) /\ LessThan(q[m], threshold)
    BY <1>3, <1>6, <2>2, <2>3
  <2>5. q[m] \in Fraction /\ q[a] \in Fraction
    BY <1>3, <2>4
  <2>6. LessThan(q[a], threshold)
    BY <1>5, <2>4, <2>5, FractionOrder
  <2> QED
    BY <1>3, <2>6
<1>9. CASE ~(q[i][1] > 0)
  <2>1. q[i] \in Fraction /\ q[a] \in Fraction /\ q[i][1] = 0
    BY <1>3, <1>9 DEF Fraction
  <2>2. LessThan(q[i], threshold)
    BY <1>5, <2>1 DEF LessThan, Fraction
  <2>3. LessThan(q[a], threshold)
    BY <1>5, <1>7, <2>1, <2>2, FractionOrder
  <2> QED
    BY <1>3, <2>3
<1> QED
  BY <1>8, <1>9

(* ClassifyBox: the box is paired with one that is free, or removed. *)
LEMMA ClassifyKeeps ==
  ASSUME DiffInv, ClassifyBox
  PROVE  DiffInv'
<1> DEFINE b == Min(BoxesLeft)
           best == BestOf(b, FreeIn(b))
<1>0. DiffTyped /\ PairedOnce /\ Phases /\ PairsAreAlike /\ NoEqualLeft /\ RemovedInv
  BY DEF DiffInv
<1>1. /\ diffPc = "updates" /\ BoxesLeft # {}
      /\ UNCHANGED <<diffPc, before, after, threshold, asked, table, seen, exact, adds>>
  BY DEF ClassifyBox
<1>2. DOMAIN before \subseteq Nat /\ DOMAIN after \subseteq Nat
  BY <1>0, ListFacts DEF DiffTyped
<1>3. b \in BoxesLeft
  BY <1>1, <1>2, LeastIsLeast DEF BoxesLeft
<1>4. /\ b \in DOMAIN before /\ b \notin removes
      /\ \A p \in Pairs : p[1] # b
  BY <1>3 DEF BoxesLeft
<1>5. FreeIn(b) \in SUBSET DOMAIN after
  BY DEF FreeIn, Free
<1>6. NoEqualLeft'
  BY <1>0, <1>1 DEF NoEqualLeft
<1>7. CASE best # {} /\ AtLeast(bboxIOU(before[b], after[Min(best)]), threshold)
  <2> DEFINE a == Min(best)
  <2>1. updates' = updates \union {<<b, a>>} /\ removes' = removes
    BY <1>7 DEF ClassifyBox
  <2>2. best \in SUBSET Nat
    BY <1>2, <1>5 DEF BestOf
  <2>3. a \in best
    BY <1>7, <2>2, LeastIsLeast
  <2> HIDE DEF a
  <2>4. a \in FreeIn(b)
    BY <2>3 DEF BestOf
  <2> HIDE DEF b, best
  <2>5. /\ a \in DOMAIN after /\ SameGroup(before[b], after[a])
        /\ \A p \in Pairs : p[2] # a
    BY <2>4 DEF FreeIn, Free, SameGroup
  <2>6. Pairs' = Pairs \union {<<b, a>>}
    BY <1>1, <2>1 DEF Pairs
  <2>7. DiffTyped'
    BY <1>0, <1>1, <1>4, <2>1, <2>5 DEF DiffTyped
  <2>8. PairedOnce'
    <3>1. <<b, a>> \notin exact
      BY <1>4 DEF Pairs
    <3>2. exact' \intersect updates' = {}
      BY <1>0, <1>1, <2>1, <3>1 DEF PairedOnce
    <3>3. \A p, q \in Pairs' : p[1] = q[1] \/ p[2] = q[2] => p = q
      BY <1>0, <1>4, <2>5, <2>6 DEF PairedOnce
    <3>4. \A p \in Pairs' : p[1] \notin removes'
      BY <1>0, <1>4, <2>1, <2>6 DEF PairedOnce
    <3> QED
      BY <3>2, <3>3, <3>4 DEF PairedOnce
  <2>9. Phases'
    BY <1>0, <1>1 DEF Phases
  <2>10. PairsAreAlike'
    BY <1>0, <1>1, <2>5, <2>6 DEF PairsAreAlike
  <2>11. Free' \subseteq Free
    BY <1>1, <2>6 DEF Free
  <2>12. RemovedInv'
    BY <1>0, <1>1, <2>1, <2>11 DEF RemovedInv
  <2> QED
    BY <1>6, <2>7, <2>8, <2>9, <2>10, <2>12 DEF DiffInv
<1>8. CASE ~(best # {} /\ AtLeast(bboxIOU(before[b], after[Min(best)]), threshold))
  <2>1. removes' = removes \union {b} /\ updates' = updates
    BY <1>8 DEF ClassifyBox
  <2>2. \A a \in FreeIn(b) : LessThan(bboxIOU(before[b], after[a]), threshold)
    <3> HIDE DEF b
    <3> QED
      BY <1>0, <1>1, <1>4, <1>5, <1>8, BestIsBest
  <2> HIDE DEF b, best
  <2>3. Pairs' = Pairs /\ Free' = Free
    BY <1>1, <2>1 DEF Pairs, Free
  <2>4. DiffTyped'
    BY <1>0, <1>1, <1>4, <2>1 DEF DiffTyped
  <2>5. PairedOnce'
    BY <1>0, <1>1, <1>4, <2>1, <2>3 DEF PairedOnce
  <2>6. Phases' /\ PairsAreAlike'
    BY <1>0, <1>1, <2>3 DEF Phases, PairsAreAlike
  <2>7. RemovedInv'
    <3> SUFFICES ASSUME NEW c \in removes \union {b}, NEW a \in Free, SameGroup(before[c], after[a])
                 PROVE  LessThan(bboxIOU(before[c], after[a]), threshold)
      BY <1>1, <2>1, <2>3 DEF RemovedInv
    <3>1. CASE c \in removes
      BY <1>0, <3>1 DEF RemovedInv
    <3>2. CASE c = b
      <4>1. a \in FreeIn(b)
        BY <3>2 DEF FreeIn, SameGroup
      <4> QED
        BY <2>2, <3>2, <4>1
    <3> QED
      BY <3>1, <3>2
  <2> QED
    BY <1>6, <2>4, <2>5, <2>6, <2>7 DEF DiffInv
<1> QED
  BY <1>7, <1>8

(* AddRest: what is free is added. *)
LEMMA AddRestKeeps ==
  ASSUME DiffInv, AddRest
  PROVE  DiffInv'
<1>0. DiffTyped /\ PairedOnce /\ Phases /\ PairsAreAlike /\ NoEqualLeft /\ RemovedInv
  BY DEF DiffInv
<1>1. /\ diffPc = "updates" /\ diffPc' = "done" /\ BoxesLeft = {} /\ adds' = Free
      /\ before' = before /\ after' = after /\ threshold' = threshold
      /\ exact' = exact /\ updates' = updates /\ removes' = removes
  BY DEF AddRest
<1>2. Pairs' = Pairs /\ Free' = Free /\ BoxesLeft' = BoxesLeft
  BY <1>1 DEF Pairs, Free, BoxesLeft
<1>3. Free \subseteq DOMAIN after
  BY DEF Free
<1>4. DiffTyped'
  BY <1>0, <1>1, <1>3 DEF DiffTyped
<1>5. PairedOnce' /\ Phases' /\ PairsAreAlike' /\ NoEqualLeft' /\ RemovedInv'
  BY <1>0, <1>1, <1>2 DEF PairedOnce, Phases, PairsAreAlike, NoEqualLeft, RemovedInv
<1> QED
  BY <1>4, <1>5 DEF DiffInv

(* The invariant of the diff. *)
THEOREM DiffInvariance == DiffSpec => [](DiffInv /\ TableInv)
<1>1. DiffIdle => DiffInv /\ TableInv
  <2> SUFFICES ASSUME DiffIdle PROVE DiffInv /\ TableInv
    OBVIOUS
  <2>1. IsListOfBoxes(<<>>)
    BY DEF IsListOfBoxes, Range
  <2>2. DiffTyped
    BY <2>1 DEF DiffTyped, DiffIdle, Fraction
  <2>3. DiffInv
    BY <2>2 DEF DiffInv, DiffIdle, PairedOnce, Phases, PairsAreAlike, NoEqualLeft, RemovedInv, Pairs
  <2>4. TableInv
    BY <2>1 DEF TableInv, DiffIdle
  <2> QED
    BY <2>3, <2>4
<1>2. DiffInv /\ TableInv /\ [DiffNext]_diffVars => (DiffInv /\ TableInv)'
  <2> SUFFICES ASSUME DiffInv, TableInv, [DiffNext]_diffVars PROVE DiffInv' /\ TableInv'
    OBVIOUS
  <2>1. ASSUME NEW t \in Thresholds, DiffIdle,
               \/ \E b, a \in Lists : DiffSnapshots(b, a, t)
               \/ \E rows \in Tables, from, to \in {r.snapshot : r \in Rows} : DiffBySnapshotIDs(rows, from, to, t)
        PROVE  DiffInv' /\ TableInv'
    BY <2>1, QueriesKeep
  <2>2. CASE RowIsAdded \/ ListAfter \/ ListFails
    BY <2>2, QueryStepsKeep
  <2>3. CASE UNCHANGED diffVars
    <3>1. /\ diffPc' = diffPc /\ before' = before /\ after' = after /\ threshold' = threshold
          /\ exact' = exact /\ updates' = updates /\ removes' = removes /\ adds' = adds
          /\ table' = table /\ seen' = seen
      BY <2>3 DEF diffVars
    <3> QED
      BY <3>1 DEF DiffInv, DiffTyped, PairedOnce, Phases, PairsAreAlike, NoEqualLeft, RemovedInv, Pairs, Free,
                  BoxesLeft, TableInv
  <2>4. CASE PairEqualBoxes \/ ClassifyBox \/ AddRest
    <3>1. table' = table /\ seen' = seen
      BY <2>4 DEF PairEqualBoxes, ClassifyBox, AddRest
    <3> QED
      BY <2>4, <3>1, PairKeeps, ClassifyKeeps, AddRestKeeps DEF TableInv
  <2> QED
    BY <2>1, <2>2, <2>3, <2>4 DEF DiffNext
<1> QED
  BY <1>1, <1>2, PTL DEF DiffSpec

-----------------------------------------------------------------------------
(* Sets that a function pairs off have the same size. *)
LEMMA PairedSetsAreEqual ==
  ASSUME NEW S, NEW T, IsFiniteSet(S), NEW R \in SUBSET (S \X T),
         \A p, q \in R : p[1] = q[1] \/ p[2] = q[2] => p = q,
         \A s \in S : \E p \in R : p[1] = s,
         \A t \in T : \E p \in R : p[2] = t
  PROVE  IsFiniteSet(T) /\ Cardinality(S) = Cardinality(T)
<1> DEFINE f == [s \in S |-> CHOOSE t \in T : <<s, t>> \in R]
<1>1. \A p \in R : p[1] \in S /\ p[2] \in T /\ p = <<p[1], p[2]>>
  OBVIOUS
<1>2. \A s \in S : \E t \in T : <<s, t>> \in R
  BY <1>1
<1>3. f \in [S -> T] /\ \A s \in S : <<s, f[s]>> \in R
  BY <1>2
<1> HIDE DEF f
<1>4. \A s, u \in S : f[s] = f[u] => s = u
  <2> SUFFICES ASSUME NEW s \in S, NEW u \in S, f[s] = f[u] PROVE s = u
    OBVIOUS
  <2>1. <<s, f[s]>> \in R /\ <<u, f[u]>> \in R
    BY <1>3
  <2>2. <<s, f[s]>>[2] = <<u, f[u]>>[2]
    OBVIOUS
  <2>3. <<s, f[s]>> = <<u, f[u]>>
    BY <2>1, <2>2
  <2> QED
    BY <2>3
<1>5. \A t \in T : \E s \in S : f[s] = t
  <2> SUFFICES ASSUME NEW t \in T PROVE \E s \in S : f[s] = t
    OBVIOUS
  <2>1. PICK p \in R : p[2] = t
    OBVIOUS
  <2>2. p[1] \in S /\ p = <<p[1], t>> /\ <<p[1], f[p[1]]>> \in R
    BY <1>1, <1>3, <2>1
  <2>3. p = <<p[1], f[p[1]]>>
    BY <2>2
  <2> QED
    BY <2>2, <2>3
<1>6. f \in Bijection(S, T)
  BY <1>3, <1>4, <1>5, Fun_IsBij
<1> QED
  BY <1>6, FS_Bijection DEF ExistsBijection

(* What is left of a finite set. *)
LEMMA RestIsCounted ==
  ASSUME NEW D, IsFiniteSet(D), NEW R \in SUBSET D
  PROVE  /\ IsFiniteSet(D \ R) /\ IsFiniteSet(R)
         /\ Cardinality(D \ R) = Cardinality(D) - Cardinality(R)
         /\ Cardinality(R) \in Nat /\ Cardinality(D) \in Nat /\ Cardinality(D \ R) \in Nat
<1>1. D \intersect R = R
  OBVIOUS
<1>2. IsFiniteSet(D \ R) /\ Cardinality(D \ R) = Cardinality(D) - Cardinality(D \intersect R)
  BY FS_Difference
<1>3. IsFiniteSet(R)
  BY FS_Subset
<1> QED
  BY <1>1, <1>2, <1>3, FS_CardinalityType

(* A box is in one pair, or it was removed or added. *)
LEMMA BoxesCounted ==
  ASSUME DiffInv, diffPc = "done"
  PROVE  EveryBoxCounted
<1>0. DiffTyped /\ PairedOnce /\ Phases
  BY DEF DiffInv
<1>1. /\ Pairs \in SUBSET ((DOMAIN before) \X (DOMAIN after))
      /\ removes \in SUBSET DOMAIN before /\ adds \in SUBSET DOMAIN after
      /\ IsListOfBoxes(before) /\ IsListOfBoxes(after)
  BY <1>0 DEF DiffTyped, Pairs
<1>2. \A p, q \in Pairs : p[1] = q[1] \/ p[2] = q[2] => p = q
  BY <1>0 DEF PairedOnce
<1>3. \A b \in DOMAIN before : b \in removes <=> ~\E p \in Pairs : p[1] = b
  BY <1>0 DEF PairedOnce, Phases, BoxesLeft
<1>4. \A a \in DOMAIN after : a \in adds <=> ~\E p \in Pairs : p[2] = a
  BY <1>0 DEF Phases, Free
<1>5. ASSUME NEW b \in DOMAIN before
      PROVE  Cardinality({p \in Pairs : p[1] = b}) = IF b \in removes THEN 0 ELSE 1
  <2>1. CASE b \in removes
    <3>1. {p \in Pairs : p[1] = b} = {}
      BY <1>3, <2>1
    <3> QED
      BY <2>1, <3>1, FS_EmptySet
  <2>2. CASE b \notin removes
    <3>1. PICK p \in Pairs : p[1] = b
      BY <1>3, <2>2
    <3>2. {q \in Pairs : q[1] = b} = {p}
      BY <1>2, <3>1
    <3> QED
      BY <2>2, <3>2, FS_Singleton
  <2> QED
    BY <2>1, <2>2
<1>6. ASSUME NEW a \in DOMAIN after
      PROVE  Cardinality({p \in Pairs : p[2] = a}) = IF a \in adds THEN 0 ELSE 1
  <2>1. CASE a \in adds
    <3>1. {p \in Pairs : p[2] = a} = {}
      BY <1>4, <2>1
    <3> QED
      BY <2>1, <3>1, FS_EmptySet
  <2>2. CASE a \notin adds
    <3>1. PICK p \in Pairs : p[2] = a
      BY <1>4, <2>2
    <3>2. {q \in Pairs : q[2] = a} = {p}
      BY <1>2, <3>1
    <3> QED
      BY <2>2, <3>2, FS_Singleton
  <2> QED
    BY <2>1, <2>2
<1>7. Cardinality(adds) - Cardinality(removes) = Len(after) - Len(before)
  <2> DEFINE S == (DOMAIN before) \ removes
             T == (DOMAIN after) \ adds
  <2>1. /\ IsFiniteSet(DOMAIN before) /\ Cardinality(DOMAIN before) = Len(before) /\ Len(before) \in Nat
        /\ IsFiniteSet(DOMAIN after) /\ Cardinality(DOMAIN after) = Len(after) /\ Len(after) \in Nat
    BY <1>1, ListFacts
  <2>2. /\ IsFiniteSet(S) /\ Cardinality(S) = Len(before) - Cardinality(removes)
        /\ IsFiniteSet(T) /\ Cardinality(T) = Len(after) - Cardinality(adds)
    BY <1>1, <2>1, RestIsCounted
  <2>3. Cardinality(removes) \in Nat /\ Cardinality(adds) \in Nat
    BY <1>1, <2>1, RestIsCounted
  <2>4. /\ Pairs \in SUBSET (S \X T)
        /\ \A b \in S : \E p \in Pairs : p[1] = b
        /\ \A a \in T : \E p \in Pairs : p[2] = a
    BY <1>1, <1>3, <1>4
  <2> HIDE DEF S, T
  <2>5. Cardinality(S) = Cardinality(T)
    BY <1>2, <2>2, <2>4, PairedSetsAreEqual
  <2> QED
    BY <2>1, <2>2, <2>3, <2>5
<1> QED
  BY <1>5, <1>6, <1>7 DEF EveryBoxCounted

(* A removed and an added box are neither equal nor overlap enough. *)
LEMMA NothingIsLeft ==
  ASSUME DiffInv, diffPc = "done"
  PROVE  NothingLeftToPair
<1>0. DiffTyped /\ PairedOnce /\ Phases /\ NoEqualLeft /\ RemovedInv
  BY DEF DiffInv
<1> SUFFICES ASSUME NEW b \in removes, NEW a \in adds, SameGroup(before[b], after[a])
             PROVE  ~sameBBox(before[b], after[a]) /\ LessThan(bboxIOU(before[b], after[a]), threshold)
  BY DEF NothingLeftToPair
<1>1. b \in DOMAIN before /\ a \in DOMAIN after /\ a \in Free /\ \A p \in exact : p[1] # b /\ p[2] # a
  BY <1>0 DEF DiffTyped, PairedOnce, Phases, Free, Pairs
<1> QED
  BY <1>0, <1>1 DEF NoEqualLeft, RemovedInv

-----------------------------------------------------------------------------
Picked(s) == CHOOSE p \in s : TRUE

OverlapOf(p) == bboxIOU(before[p[1]], after[p[2]])

(* weightedSimilarity adds the overlaps of the updates one by one. *)
IsSum(g, T) ==
  g = [s \in SUBSET T |->
         IF s = {} THEN <<exactMatches, 1>> ELSE Plus(OverlapOf(Picked(s)), g[s \ {Picked(s)}])]

(* What a sum is at the empty set, and at another one. *)
LEMMA SumAt ==
  ASSUME NEW T, NEW g, IsSum(g, T)
  PROVE  /\ g[{}] = <<exactMatches, 1>>
         /\ \A s \in SUBSET T : s # {} => /\ Picked(s) \in s
                                          /\ s \ {Picked(s)} \in SUBSET T
                                          /\ s \ {Picked(s)} # s
                                          /\ g[s] = Plus(OverlapOf(Picked(s)), g[s \ {Picked(s)}])
<1>1. \A s \in SUBSET T : s # {} => Picked(s) \in s
  BY DEF Picked
<1>2. \A s \in SUBSET T : s # {} => s \ {Picked(s)} \in SUBSET T /\ s \ {Picked(s)} # s
  BY <1>1
<1>3. g[{}] = <<exactMatches, 1>>
  BY DEF IsSum
<1>4. \A s \in SUBSET T : s # {} => g[s] = Plus(OverlapOf(Picked(s)), g[s \ {Picked(s)}])
  BY DEF IsSum
<1> QED
  BY <1>1, <1>2, <1>3, <1>4

(* Two sums agree where both are defined. *)
LEMMA SumIsUnique ==
  ASSUME NEW T, NEW U, NEW g, NEW h, IsSum(g, T), IsSum(h, U),
         NEW s \in SUBSET T, s \in SUBSET U, IsFiniteSet(s)
  PROVE  g[s] = h[s]
<1> DEFINE Bad == {r \in FiniteSubsetsOf(s) : g[r] # h[r]}
<1> SUFFICES ASSUME g[s] # h[s] PROVE FALSE
  OBVIOUS
<1>1. Bad # {} /\ Bad \subseteq FiniteSubsetsOf(s)
  <2>1. s \in FiniteSubsetsOf(s)
    BY DEF FiniteSubsetsOf
  <2> QED
    BY <2>1
<1>2. PICK r \in Bad : \A q \in Bad : ~(<<q, r>> \in StrictSubsetOrdering(s))
  <2> HIDE DEF Bad
  <2> QED
    BY <1>1, WFMin, FS_StrictSubsetOrderingWellFounded
<1>3. r \in FiniteSubsetsOf(s) /\ r \in SUBSET s /\ r \in SUBSET T /\ r \in SUBSET U /\ IsFiniteSet(r) /\ g[r] # h[r]
  BY <1>2 DEF FiniteSubsetsOf
<1>4. r # {}
  BY <1>3, SumAt
<1> DEFINE q == r \ {Picked(r)}
<1>5. q # r /\ g[r] = Plus(OverlapOf(Picked(r)), g[q]) /\ h[r] = Plus(OverlapOf(Picked(r)), h[q])
  BY <1>3, <1>4, SumAt
<1>6. q \in FiniteSubsetsOf(s)
  BY <1>3, FS_RemoveElement DEF FiniteSubsetsOf
<1>7. <<q, r>> \in StrictSubsetOrdering(s)
  BY <1>3, <1>5, <1>6 DEF StrictSubsetOrdering, FiniteSubsetsOf
<1>8. g[q] = h[q]
  BY <1>2, <1>6, <1>7
<1> QED
  BY <1>3, <1>5, <1>8

(* A finite set has a sum. *)
LEMMA SumExists ==
  ASSUME NEW U, IsFiniteSet(U)
  PROVE  \E g : IsSum(g, U)
<1> DEFINE Bad == {T \in FiniteSubsetsOf(U) : ~\E g : IsSum(g, T)}
<1> SUFFICES ASSUME ~\E g : IsSum(g, U) PROVE FALSE
  OBVIOUS
<1>1. Bad # {} /\ Bad \subseteq FiniteSubsetsOf(U)
  <2>1. U \in FiniteSubsetsOf(U)
    BY DEF FiniteSubsetsOf
  <2> QED
    BY <2>1
<1>2. PICK T \in Bad : \A S \in Bad : ~(<<S, T>> \in StrictSubsetOrdering(U))
  <2> HIDE DEF Bad
  <2> QED
    BY <1>1, WFMin, FS_StrictSubsetOrderingWellFounded
<1>3. T \in SUBSET U /\ IsFiniteSet(T) /\ ~\E g : IsSum(g, T)
  BY <1>2 DEF FiniteSubsetsOf
<1> DEFINE F(r) == CHOOSE g : IsSum(g, r)
           G == [s \in SUBSET T |-> IF s = {} THEN <<exactMatches, 1>>
                                    ELSE Plus(OverlapOf(Picked(s)), F(s \ {Picked(s)})[s \ {Picked(s)}])]
<1>4. ASSUME NEW r \in SUBSET T, r # T PROVE IsSum(F(r), r) /\ IsFiniteSet(r)
  <2>1. IsFiniteSet(r)
    BY <1>3, FS_Subset
  <2>2. r \in FiniteSubsetsOf(U) /\ <<r, T>> \in StrictSubsetOrdering(U)
    BY <1>3, <1>4, <2>1 DEF FiniteSubsetsOf, StrictSubsetOrdering
  <2>3. \E g : IsSum(g, r)
    BY <1>2, <2>2
  <2> HIDE DEF IsSum
  <2> QED
    BY <2>1, <2>3
<1>5. ASSUME NEW s \in SUBSET T, s # {}
      PROVE  G[s \ {Picked(s)}] = F(s \ {Picked(s)})[s \ {Picked(s)}]
  <2> DEFINE r == s \ {Picked(s)}
             q == r \ {Picked(r)}
  <2>1. Picked(s) \in s
    BY <1>5 DEF Picked
  <2>2. r \in SUBSET T /\ r # T
    BY <2>1
  <2>3. IsSum(F(r), r) /\ IsFiniteSet(r)
    BY <1>4, <2>2
  <2>4. CASE r = {}
    <3>1. G[r] = <<exactMatches, 1>>
      BY <2>4
    <3>2. F(r)[{}] = <<exactMatches, 1>>
      BY <2>3, SumAt
    <3> QED
      BY <2>4, <3>1, <3>2
  <2>5. CASE r # {}
    <3>1. G[r] = Plus(OverlapOf(Picked(r)), F(q)[q])
      BY <2>2, <2>5
    <3>2. r \in SUBSET r /\ q \in SUBSET r /\ q # r /\ F(r)[r] = Plus(OverlapOf(Picked(r)), F(r)[q])
      <4> HIDE DEF F, r
      <4>1. r \in SUBSET r
        OBVIOUS
      <4> QED
        BY <2>3, <2>5, <4>1, SumAt
    <3>3. q \in SUBSET T /\ q # T
      BY <2>2, <3>2
    <3>4. IsSum(F(q), q) /\ IsFiniteSet(q)
      BY <1>4, <3>3
    <3>5. F(r)[q] = F(q)[q]
      <4> HIDE DEF F, r, q
      <4> QED
        BY <2>3, <3>2, <3>4, SumIsUnique
    <3> QED
      BY <3>1, <3>2, <3>5
  <2> QED
    BY <2>4, <2>5
<1>6. IsSum(G, T)
  <2>1. G = [s \in SUBSET T |-> IF s = {} THEN <<exactMatches, 1>>
                                ELSE Plus(OverlapOf(Picked(s)), G[s \ {Picked(s)}])]
    <3> HIDE DEF F
    <3> QED
      BY <1>5
  <2> HIDE DEF G
  <2> QED
    BY <2>1 DEF IsSum
<1> QED
  BY <1>3, <1>6

(* weightedSimilarity is the sum over the updates. *)
LEMMA SimilarityIsSum ==
  ASSUME IsFiniteSet(updates)
  PROVE  \E g : IsSum(g, updates) /\ weightedSimilarity = g[updates]
<1>1. weightedSimilarity = (CHOOSE g : IsSum(g, updates))[updates]
  BY DEF weightedSimilarity, MapThenFoldSet, IsSum, Picked, OverlapOf
<1>2. \E g : IsSum(g, updates)
  BY SumExists
<1> QED
  BY <1>1, <1>2

(* Adding a fraction below 1 adds less than 1. *)
LEMMA PlusBound ==
  ASSUME NEW p \in Fraction, NEW q \in Fraction, NEW c \in Int, p[1] < p[2], q[1] <= c * q[2]
  PROVE  Plus(p, q) \in Fraction /\ Plus(p, q)[1] < (c + 1) * Plus(p, q)[2]
<1>1. PICK a \in Int, b \in Nat \ {0} : p = <<a, b>>
  BY DEF Fraction
<1>2. PICK m \in Int, n \in Nat \ {0} : q = <<m, n>>
  BY DEF Fraction
<1>3. a < b /\ m <= c * n
  BY <1>1, <1>2
<1>4. Plus(p, q) = <<a * n + m * b, b * n>>
  BY <1>1, <1>2 DEF Plus
<1>5. a * n \in Int /\ m * b \in Int /\ b * n \in Nat \ {0} /\ c * n \in Int
  OBVIOUS
<1>6. a * n < b * n
  BY <1>3
<1>7. m * b <= (c * n) * b
  BY <1>3, <1>5
<1>8. (c * n) * b = c * (b * n) /\ (c + 1) * (b * n) = c * (b * n) + b * n
  OBVIOUS
<1>9. a * n + m * b < (c + 1) * (b * n)
  BY <1>5, <1>6, <1>7, <1>8
<1> QED
  BY <1>4, <1>5, <1>9 DEF Fraction

(* The sum stays below the number of exact matches and of what was added. *)
LEMMA SumBound ==
  ASSUME NEW U, IsFiniteSet(U), exactMatches \in Int, NEW g, IsSum(g, U),
         \A p \in U : OverlapOf(p) \in Fraction /\ OverlapOf(p)[1] < OverlapOf(p)[2]
  PROVE  /\ g[U] \in Fraction
         /\ g[U][1] <= (exactMatches + Cardinality(U)) * g[U][2]
         /\ U # {} => g[U][1] < (exactMatches + Cardinality(U)) * g[U][2]
<1> DEFINE Bounded(s) == /\ g[s] \in Fraction
                         /\ g[s][1] <= (exactMatches + Cardinality(s)) * g[s][2]
                         /\ s # {} => g[s][1] < (exactMatches + Cardinality(s)) * g[s][2]
           Bad == {s \in FiniteSubsetsOf(U) : ~Bounded(s)}
<1> SUFFICES ASSUME ~Bounded(U) PROVE FALSE
  OBVIOUS
<1>1. Bad # {} /\ Bad \subseteq FiniteSubsetsOf(U)
  <2>1. U \in FiniteSubsetsOf(U)
    BY DEF FiniteSubsetsOf
  <2> HIDE DEF Bounded
  <2> QED
    BY <2>1
<1>2. PICK s \in Bad : \A r \in Bad : ~(<<r, s>> \in StrictSubsetOrdering(U))
  <2> HIDE DEF Bad
  <2> QED
    BY <1>1, WFMin, FS_StrictSubsetOrderingWellFounded
<1>3. s \in SUBSET U /\ IsFiniteSet(s) /\ ~Bounded(s)
  <2> HIDE DEF Bounded
  <2> QED
    BY <1>2 DEF FiniteSubsetsOf
<1>4. CASE s = {}
  <2>1. g[s] = <<exactMatches, 1>> /\ Cardinality(s) = 0
    BY <1>4, SumAt, FS_EmptySet
  <2>2. Bounded(s)
    BY <1>4, <2>1 DEF Fraction
  <2> QED
    BY <1>3, <2>2
<1>5. CASE s # {}
  <2> DEFINE r == s \ {Picked(s)}
             n == Cardinality(r)
             c == exactMatches + n
  <2>1. Picked(s) \in s /\ r \in SUBSET U /\ r # s /\ g[s] = Plus(OverlapOf(Picked(s)), g[r])
    BY <1>3, <1>5, SumAt
  <2>2. IsFiniteSet(r) /\ Cardinality(r) = Cardinality(s) - 1 /\ Cardinality(r) \in Nat /\ Cardinality(s) \in Nat
    BY <1>3, <2>1, FS_RemoveElement, FS_CardinalityType
  <2>3. r \in FiniteSubsetsOf(U) /\ <<r, s>> \in StrictSubsetOrdering(U)
    BY <1>3, <2>1, <2>2 DEF FiniteSubsetsOf, StrictSubsetOrdering
  <2>4. Bounded(r)
    <3> HIDE DEF Bounded, r
    <3> QED
      BY <1>2, <2>3
  <2>5. g[r] \in Fraction /\ g[r][1] <= c * g[r][2] /\ c \in Int
    BY <2>2, <2>4
  <2>6. OverlapOf(Picked(s)) \in Fraction /\ OverlapOf(Picked(s))[1] < OverlapOf(Picked(s))[2]
    BY <1>3, <2>1
  <2>7. c + 1 = exactMatches + Cardinality(s)
    BY <2>2
  <2> HIDE DEF c, n, r
  <2>8. g[s] \in Fraction /\ g[s][1] < (c + 1) * g[s][2]
    BY <2>1, <2>5, <2>6, PlusBound
  <2>9. g[s][1] \in Int /\ g[s][2] \in Int
    BY <2>8 DEF Fraction
  <2>10. (c + 1) * g[s][2] \in Int
    BY <2>5, <2>9
  <2>11. Bounded(s)
    BY <2>7, <2>8, <2>9, <2>10
  <2> QED
    BY <1>3, <2>11
<1> QED
  BY <1>4, <1>5

(* The score is 1 only if nothing was added, removed or updated. *)
LEMMA ScoreIsFaithful ==
  ASSUME DiffInv, diffPc = "done"
  PROVE  ScoreOneOnlyForEqual
<1>0. DiffTyped /\ PairedOnce /\ PairsAreAlike /\ NoEqualLeft
  BY DEF DiffInv
<1> DEFINE na == Cardinality(adds)
           nr == Cardinality(removes)
           nu == Cardinality(updates)
           w == weightedSimilarity
<1>1. /\ IsFiniteSet(DOMAIN before) /\ IsFiniteSet(DOMAIN after) /\ Len(before) \in Nat /\ Len(after) \in Nat
      /\ \A i \in DOMAIN before : IsBox(before[i])
      /\ \A i \in DOMAIN after : IsBox(after[i])
  BY <1>0, ListFacts DEF DiffTyped
<1>2. IsFiniteSet(adds) /\ IsFiniteSet(removes) /\ IsFiniteSet(updates)
  <2>1. IsFiniteSet((DOMAIN before) \X (DOMAIN after))
    BY <1>1, FS_Product
  <2> QED
    BY <1>0, <1>1, <2>1, FS_Subset DEF DiffTyped
<1>3. /\ na \in Nat /\ nr \in Nat /\ nu \in Nat
      /\ (na = 0 <=> adds = {}) /\ (nr = 0 <=> removes = {}) /\ (nu = 0 <=> updates = {})
  BY <1>2, FS_CardinalityType, FS_EmptySet
<1>4. Baseline \in Nat \ {0}
  BY <1>1 DEF Baseline, Greater
<1>5. exactMatches = Baseline - na - nr - nu
  BY DEF exactMatches
<1> HIDE DEF na, nr, nu, w
<1>6. exactMatches \in Int
  BY <1>3, <1>4, <1>5
<1>7. \A p \in updates : OverlapOf(p) \in Fraction /\ OverlapOf(p)[1] < OverlapOf(p)[2]
  <2> SUFFICES ASSUME NEW p \in updates PROVE OverlapOf(p) \in Fraction /\ OverlapOf(p)[1] < OverlapOf(p)[2]
    OBVIOUS
  <2>1. p[1] \in DOMAIN before /\ p[2] \in DOMAIN after
    BY <1>0 DEF DiffTyped
  <2>2. \A q \in exact : q[1] # p[1] /\ q[2] # p[2]
    BY <1>0 DEF PairedOnce, Pairs
  <2>3. ~sameBBox(before[p[1]], after[p[2]])
    BY <1>0, <2>1, <2>2 DEF NoEqualLeft, PairsAreAlike, Pairs
  <2> DEFINE x == before[p[1]]
             y == after[p[2]]
             v == bboxIOU(x, y)
  <2>4. IsBox(x) /\ IsBox(y)
    BY <1>1, <2>1
  <2>5. v \in Fraction /\ v[1] >= 0 /\ (v[1] > 0 => v[1] < v[2])
    <3> HIDE DEF x, y
    <3> QED
      BY <2>3, <2>4, IOUTyped DEF x, y
  <2>6. v[1] < v[2]
    <3> HIDE DEF v
    <3> QED
      BY <2>5 DEF Fraction
  <2> QED
    BY <2>5, <2>6 DEF OverlapOf
<1>8. PICK g : IsSum(g, updates) /\ w = g[updates]
  BY <1>2, SimilarityIsSum DEF w
<1>9. /\ w \in Fraction /\ w[1] <= (exactMatches + nu) * w[2]
      /\ updates # {} => w[1] < (exactMatches + nu) * w[2]
  BY <1>2, <1>6, <1>7, <1>8, SumBound DEF nu
<1>10. PICK m \in Int, n \in Nat \ {0} : w = <<m, n>>
  BY <1>9 DEF Fraction
<1>11. /\ m <= (Baseline - na - nr) * n
       /\ updates # {} => m < (Baseline - na - nr) * n
  <2>1. exactMatches + nu = Baseline - na - nr
    BY <1>3, <1>4, <1>5
  <2> QED
    BY <1>9, <1>10, <2>1
<1>12. compatibilityScore = clamp01(<<m, n * Baseline>>)
  BY <1>10 DEF compatibilityScore, w
<1>13. n * Baseline \in Nat \ {0}
  BY <1>4
<1>14. (compatibilityScore[1] = compatibilityScore[2]) <=> m >= n * Baseline
  <2> DEFINE d == n * Baseline
  <2>1. compatibilityScore = IF m < 0 THEN <<0, 1>> ELSE IF m > d THEN <<1, 1>> ELSE <<m, d>>
    BY <1>12 DEF clamp01
  <2>2. d \in Nat \ {0}
    BY <1>13
  <2> HIDE DEF d
  <2>3. (compatibilityScore[1] = compatibilityScore[2]) <=> m >= d
    BY <2>1, <2>2
  <2> QED
    BY <2>3 DEF d
<1>15. ASSUME m >= n * Baseline PROVE adds = {} /\ removes = {} /\ updates = {}
  <2>1. (Baseline - na - nr) * n = n * Baseline - (na + nr) * n
    BY <1>3, <1>4
  <2>2. (na + nr) * n \in Nat
    BY <1>3
  <2>3. (na + nr) * n = 0 /\ ~(m < (Baseline - na - nr) * n)
    BY <1>11, <1>13, <1>15, <2>1, <2>2
  <2>4. na + nr = 0
    BY <1>3, <2>3
  <2> QED
    BY <1>3, <1>11, <2>3, <2>4
<1>16. ASSUME adds = {}, removes = {}, updates = {} PROVE m >= n * Baseline
  <2>1. w = <<exactMatches, 1>> /\ exactMatches = Baseline
    BY <1>3, <1>4, <1>5, <1>8, <1>16, SumAt
  <2> QED
    BY <1>4, <1>10, <2>1
<1> QED
  BY <1>14, <1>15, <1>16 DEF ScoreOneOnlyForEqual

(* DiffSnapshots: the boxes are told of once, the pairing is complete, and *)
(* the score is 1 for equal lists only.                                    *)
THEOREM DiffFaithful == DiffSpec => []DiffIsFaithful
<1>1. DiffInv => DiffIsFaithful
  BY BoxesCounted, NothingIsLeft, ScoreIsFaithful DEF DiffIsFaithful
<1> QED
  BY <1>1, DiffInvariance, PTL

-----------------------------------------------------------------------------
(* A set of two parts and of what another set is mapped to one to one.     *)
IsOfParts(D, X, Y, U, f) ==
  /\ X \in SUBSET D /\ Y \in SUBSET D /\ X \intersect Y = {}
  /\ f \in [U -> D] /\ \A u, w \in U : f[u] = f[w] => u = w
  /\ \A u \in U : f[u] \notin X /\ f[u] \notin Y
  /\ \A d \in D : d \in X \/ d \in Y \/ \E u \in U : f[u] = d

(* If it is finite, it has as many elements as the three together.         *)
LEMMA ThreeParts ==
  ASSUME NEW D, NEW X, NEW Y, NEW U, NEW f, IsFiniteSet(D), IsOfParts(D, X, Y, U, f)
  PROVE  /\ Cardinality(X) \in Nat /\ Cardinality(Y) \in Nat /\ Cardinality(U) \in Nat
         /\ Cardinality(D) = Cardinality(X) + Cardinality(U) + Cardinality(Y)
<1> DEFINE Z == (D \ X) \ Y
<1> USE DEF IsOfParts
<1>1. /\ IsFiniteSet(D \ X) /\ Cardinality(D \ X) = Cardinality(D) - Cardinality(X)
      /\ Cardinality(X) \in Nat /\ Cardinality(D) \in Nat
  BY RestIsCounted
<1>2. Y \in SUBSET (D \ X)
  OBVIOUS
<1>3. IsFiniteSet(Z) /\ Cardinality(Z) = Cardinality(D \ X) - Cardinality(Y) /\ Cardinality(Y) \in Nat
  BY <1>1, <1>2, RestIsCounted
<1>4. Z = {d \in D : d \notin X /\ d \notin Y}
  OBVIOUS
<1> HIDE DEF Z
<1>5. f \in [U -> Z] /\ \A d \in Z : \E u \in U : f[u] = d
  BY <1>4
<1>6. f \in Bijection(U, Z)
  BY <1>5, Fun_IsBij
<1>7. ExistsBijection(Z, U)
  BY <1>6, Fun_ExistsBijSymmetric DEF ExistsBijection
<1>8. IsFiniteSet(U) /\ Cardinality(U) = Cardinality(Z)
  BY <1>3, <1>7, FS_Bijection
<1>9. Cardinality(U) \in Nat
  BY <1>8, FS_CardinalityType
<1> QED
  BY <1>1, <1>3, <1>8, <1>9

(* Box by box, the diff tells of the difference of its two lists. *)
LEMMA ToldIsDifference ==
  ASSUME DiffInv, diffPc = "done", NEW box
  PROVE  /\ ToldMore(box) - ToldLess(box) = Count(after, box) - Count(before, box)
         /\ Count(after, box) \in Nat /\ Count(before, box) \in Nat
<1>0. DiffTyped /\ PairedOnce /\ Phases /\ PairsAreAlike
  BY DEF DiffInv
<1>1. /\ exact \in SUBSET ((DOMAIN before) \X (DOMAIN after))
      /\ updates \in SUBSET ((DOMAIN before) \X (DOMAIN after))
      /\ removes \in SUBSET DOMAIN before /\ adds \in SUBSET DOMAIN after
      /\ IsFiniteSet(DOMAIN before) /\ IsFiniteSet(DOMAIN after)
  BY <1>0, ListFacts DEF DiffTyped
<1>2. /\ \A p, q \in exact \union updates : p[1] = q[1] \/ p[2] = q[2] => p = q
      /\ exact \intersect updates = {}
      /\ \A p \in exact \union updates : p[1] \notin removes /\ p[2] \notin adds
      /\ \A b \in DOMAIN before : b \in removes \/ \E p \in exact \union updates : p[1] = b
      /\ \A a \in DOMAIN after : a \in adds \/ \E p \in exact \union updates : p[2] = a
  BY <1>0 DEF PairedOnce, Phases, BoxesLeft, Free, Pairs
<1> DEFINE AV == {a \in DOMAIN after : Alike(after[a], box)}
           BV == {b \in DOMAIN before : Alike(before[b], box)}
           AX == {a \in adds : Alike(after[a], box)}
           BX == {b \in removes : Alike(before[b], box)}
           AE == {a \in AV : \E p \in exact : p[2] = a}
           BE == {b \in BV : \E p \in exact : p[1] = b}
           AU == {p \in updates : Alike(after[p[2]], box)}
           BU == {p \in updates : Alike(before[p[1]], box)}
<1>3. IsFiniteSet(AV) /\ IsFiniteSet(BV) /\ IsFiniteSet(BE)
  <2>1. AV \in SUBSET DOMAIN after /\ BV \in SUBSET DOMAIN before /\ BE \in SUBSET DOMAIN before
    OBVIOUS
  <2> HIDE DEF AV, BV, BE
  <2> QED
    BY <1>1, <2>1, FS_Subset
<1>4. /\ Cardinality(AX) \in Nat /\ Cardinality(AU) \in Nat /\ Cardinality(AE) \in Nat
      /\ Cardinality(AV) = Cardinality(AX) + Cardinality(AU) + Cardinality(AE)
  <2> DEFINE f == [p \in AU |-> p[2]]
  <2>1. AX \in SUBSET AV /\ AE \in SUBSET AV /\ AX \intersect AE = {}
    BY <1>1, <1>2
  <2>2. f \in [AU -> AV] /\ \A p \in AU : f[p] = p[2]
    BY <1>1
  <2>3. \A p, q \in AU : f[p] = f[q] => p = q
    BY <1>2
  <2>4. \A p \in AU : f[p] \notin AX /\ f[p] \notin AE
    <3> SUFFICES ASSUME NEW p \in AU PROVE p[2] \notin AX /\ p[2] \notin AE
      BY <2>2
    <3>1. p \in updates
      OBVIOUS
    <3>2. \A q \in exact : q[2] # p[2]
      BY <1>2, <3>1
    <3> QED
      BY <1>2, <3>1, <3>2
  <2>5. \A a \in AV : a \in AX \/ a \in AE \/ \E p \in AU : f[p] = a
    <3> SUFFICES ASSUME NEW a \in AV, a \notin AX, a \notin AE PROVE \E p \in AU : p[2] = a
      BY <2>2
    <3>1. PICK p \in exact \union updates : p[2] = a
      BY <1>2
    <3> QED
      BY <3>1
  <2> HIDE DEF AV, AX, AE, AU, BV, BX, BE, BU, f
  <2>6. IsOfParts(AV, AX, AE, AU, f)
    BY <2>1, <2>2, <2>3, <2>4, <2>5 DEF IsOfParts
  <2> QED
    BY <1>3, <2>6, ThreeParts
<1>5. /\ Cardinality(BX) \in Nat /\ Cardinality(BU) \in Nat /\ Cardinality(BE) \in Nat
      /\ Cardinality(BV) = Cardinality(BX) + Cardinality(BU) + Cardinality(BE)
  <2> DEFINE f == [p \in BU |-> p[1]]
  <2>1. BX \in SUBSET BV /\ BE \in SUBSET BV /\ BX \intersect BE = {}
    BY <1>1, <1>2
  <2>2. f \in [BU -> BV] /\ \A p \in BU : f[p] = p[1]
    BY <1>1
  <2>3. \A p, q \in BU : f[p] = f[q] => p = q
    BY <1>2
  <2>4. \A p \in BU : f[p] \notin BX /\ f[p] \notin BE
    <3> SUFFICES ASSUME NEW p \in BU PROVE p[1] \notin BX /\ p[1] \notin BE
      BY <2>2
    <3>1. p \in updates
      OBVIOUS
    <3>2. \A q \in exact : q[1] # p[1]
      BY <1>2, <3>1
    <3> QED
      BY <1>2, <3>1, <3>2
  <2>5. \A b \in BV : b \in BX \/ b \in BE \/ \E p \in BU : f[p] = b
    <3> SUFFICES ASSUME NEW b \in BV, b \notin BX, b \notin BE PROVE \E p \in BU : p[1] = b
      BY <2>2
    <3>1. PICK p \in exact \union updates : p[1] = b
      BY <1>2
    <3> QED
      BY <3>1
  <2> HIDE DEF AV, AX, AE, AU, BV, BX, BE, BU, f
  <2>6. IsOfParts(BV, BX, BE, BU, f)
    BY <2>1, <2>2, <2>3, <2>4, <2>5 DEF IsOfParts
  <2> QED
    BY <1>3, <2>6, ThreeParts
<1>6. Cardinality(BE) = Cardinality(AE)
  <2> DEFINE R == {p \in exact : Alike(after[p[2]], box)}
  <2>1. \A p \in exact : Alike(before[p[1]], box) <=> Alike(after[p[2]], box)
    BY <1>0 DEF PairsAreAlike, Pairs, Alike, SameGroup, sameBBox
  <2>2. \A p \in exact : p[1] \in DOMAIN before /\ p[2] \in DOMAIN after /\ p = <<p[1], p[2]>>
    BY <1>1
  <2>3. R \in SUBSET (BE \X AE)
    <3> SUFFICES ASSUME NEW p \in R PROVE p[1] \in BE /\ p[2] \in AE /\ p = <<p[1], p[2]>>
      OBVIOUS
    <3>1. p \in exact /\ Alike(after[p[2]], box)
      OBVIOUS
    <3> QED
      BY <2>1, <2>2, <3>1
  <2>4. \A p, q \in R : p[1] = q[1] \/ p[2] = q[2] => p = q
    BY <1>2
  <2>5. (\A b \in BE : \E p \in R : p[1] = b) /\ (\A a \in AE : \E p \in R : p[2] = a)
    BY <2>1
  <2> HIDE DEF BE, AE, R
  <2> QED
    BY <1>3, <2>3, <2>4, <2>5, PairedSetsAreEqual
<1>7. /\ ToldMore(box) = Cardinality(AX) + Cardinality(AU)
      /\ ToldLess(box) = Cardinality(BX) + Cardinality(BU)
      /\ Count(after, box) = Cardinality(AV) /\ Count(before, box) = Cardinality(BV)
  BY DEF ToldMore, ToldLess, Count
<1> HIDE DEF AV, BV, AX, BX, AE, BE, AU, BU
<1> QED
  BY <1>4, <1>5, <1>6, <1>7

(* A box is in the answer as often as it is in the places that are read. *)
LEMMA RowsCounted ==
  ASSUME NEW rows, rows \in Seq(Range(rows)), NEW P \in SUBSET DOMAIN rows, NEW box
  PROVE  /\ IsFiniteSet({i \in P : Alike(rows[i], box)})
         /\ Count(RowsAt(rows, P), box) = Cardinality({i \in P : Alike(rows[i], box)})
<1> DEFINE l == RowsAt(rows, P)
           N == 1..Cardinality(P)
           T == {i \in P : Alike(rows[i], box)}
           K == {k \in DOMAIN l : Alike(l[k], box)}
           f == [k \in K |-> PlaceAt(P)[k]]
<1>1. /\ IsFiniteSet(P) /\ PlaceAt(P) \in Bijection(N, P) /\ DOMAIN l = N
      /\ \A k \in N : PlaceAt(P)[k] \in P /\ l[k] = rows[PlaceAt(P)[k]]
  BY RowsAtPlaces
<1>2. /\ \A k, m \in N : PlaceAt(P)[k] = PlaceAt(P)[m] => k = m
      /\ \A i \in P : \E k \in N : PlaceAt(P)[k] = i
  <2> HIDE DEF N
  <2> QED
    BY <1>1, Fun_BijectionProperties
<1>3. IsFiniteSet(T)
  BY <1>1, FS_Subset
<1> HIDE DEF l, N
<1>4. f \in [K -> T] /\ \A k \in K : f[k] = PlaceAt(P)[k]
  BY <1>1
<1>5. \A k, m \in K : f[k] = f[m] => k = m
  BY <1>1, <1>2
<1>6. \A i \in T : \E k \in K : f[k] = i
  BY <1>1, <1>2
<1> HIDE DEF T, K, f
<1>7. f \in Bijection(K, T)
  BY <1>4, <1>5, <1>6, Fun_IsBij
<1>8. ExistsBijection(T, K)
  BY <1>7, Fun_ExistsBijSymmetric DEF ExistsBijection
<1>9. Cardinality(K) = Cardinality(T)
  BY <1>3, <1>8, FS_Bijection
<1> QED
  BY <1>3, <1>9 DEF Count, K, T, l

(* Two finite sets differ in size by what each has that the other has not. *)
LEMMA SizesDiffer ==
  ASSUME NEW S, NEW T, IsFiniteSet(S), IsFiniteSet(T)
  PROVE  /\ Cardinality(S) - Cardinality(T) = Cardinality(S \ T) - Cardinality(T \ S)
         /\ Cardinality(S) \in Nat /\ Cardinality(T) \in Nat
<1>1. /\ Cardinality(S \ T) = Cardinality(S) - Cardinality(S \intersect T)
      /\ Cardinality(T \ S) = Cardinality(T) - Cardinality(T \intersect S)
  BY FS_Difference
<1>2. S \intersect T = T \intersect S
  OBVIOUS
<1>3. Cardinality(S) \in Nat /\ Cardinality(T) \in Nat
  BY FS_CardinalityType
<1>4. IsFiniteSet(S \intersect T)
  BY FS_Subset, Zenon
<1>5. Cardinality(S \intersect T) \in Nat
  BY <1>4, FS_CardinalityType
<1> QED
  BY <1>1, <1>2, <1>3, <1>5

-----------------------------------------------------------------------------
(* The first list is of the rows there were at the first query, the second *)
(* one of all rows.                                                        *)
ListsRead ==
  /\ diffPc = "idle" => asked = {}
  /\ \A s, q \in asked : s = q
  /\ \A s \in asked :
       /\ before = RowsAt(table, PlacesAt(table, s[1]) \intersect 1..seen)
       /\ diffPc \in {"exact", "updates", "done"} => after = RowsAt(table, PlacesAt(table, s[2]))

(* An answer depends only on the places that are read. *)
LEMMA SameAnswer ==
  ASSUME NEW rows, rows \in Seq(Range(rows)), NEW P \in SUBSET DOMAIN rows, NEW more,
         \A i \in P : more[i] = rows[i]
  PROVE  RowsAt(more, P) = RowsAt(rows, P)
<1>1. \A k \in 1..Cardinality(P) : PlaceAt(P)[k] \in P
  BY RowsAtPlaces
<1>2. \A k \in 1..Cardinality(P) : more[PlaceAt(P)[k]] = rows[PlaceAt(P)[k]]
  BY <1>1
<1>3. /\ RowsAt(rows, P) = [k \in 1..Cardinality(P) |-> rows[PlaceAt(P)[k]]]
      /\ RowsAt(more, P) = [k \in 1..Cardinality(P) |-> more[PlaceAt(P)[k]]]
  BY DEF RowsAt, PlaceAt
<1> QED
  BY <1>2, <1>3

(* A row that is added is not in the first list. *)
LEMMA RowIsAddedKeeps ==
  ASSUME TableInv, ListsRead, RowIsAdded
  PROVE  ListsRead'
<1>1. PICK r \in Rows : table' = Append(table, r)
  BY DEF RowIsAdded
<1>2. /\ diffPc = "second" /\ diffPc' = diffPc /\ before' = before /\ asked' = asked /\ seen' = seen
  BY DEF RowIsAdded
<1>3. /\ table \in Seq(Rows) /\ Len(table) \in Nat /\ DOMAIN table = 1..Len(table) /\ seen \in Nat
      /\ seen <= Len(table) /\ table \in Seq(Range(table))
  BY LenProperties DEF TableInv, IsListOfBoxes
<1>4. /\ table' \in Seq(Rows) /\ Len(table') = Len(table) + 1
      /\ \A i \in 1..Len(table) : table'[i] = table[i]
  BY <1>1, <1>3, AppendProperties
<1>5. DOMAIN table' = 1..(Len(table) + 1)
  BY <1>4, LenProperties
<1>6. ASSUME NEW s \in asked PROVE before = RowsAt(table', PlacesAt(table', s[1]) \intersect 1..seen)
  <2> DEFINE P == PlacesAt(table, s[1]) \intersect 1..seen
  <2>1. \A i \in 1..seen : i \in DOMAIN table /\ i \in DOMAIN table' /\ table'[i] = table[i]
    BY <1>3, <1>4, <1>5
  <2>2. PlacesAt(table', s[1]) \intersect 1..seen = P
    BY <2>1 DEF PlacesAt
  <2>3. P \in SUBSET DOMAIN table /\ \A i \in P : table'[i] = table[i]
    BY <2>1
  <2>4. RowsAt(table', P) = RowsAt(table, P)
    BY <1>3, <2>3, SameAnswer
  <2> QED
    BY <2>2, <2>4 DEF ListsRead
<1> QED
  BY <1>2, <1>6 DEF ListsRead

(* The lists are what the queries read. *)
LEMMA ListsReadHolds == DiffSpec => []ListsRead
<1>1. DiffIdle => ListsRead
  BY DEF DiffIdle, ListsRead
<1>2. TableInv /\ ListsRead /\ [DiffNext]_diffVars => ListsRead'
  <2> SUFFICES ASSUME TableInv, ListsRead, [DiffNext]_diffVars PROVE ListsRead'
    OBVIOUS
  <2>1. ASSUME DiffIdle, NEW b, NEW a, NEW t, DiffSnapshots(b, a, t) PROVE ListsRead'
    <3>1. asked' = {} /\ diffPc' = "exact"
      BY <2>1 DEF DiffIdle, DiffSnapshots
    <3> QED
      BY <3>1 DEF ListsRead
  <2>2. ASSUME NEW rows \in Tables, NEW from \in {r.snapshot : r \in Rows}, NEW to \in {r.snapshot : r \in Rows},
               NEW t, DiffBySnapshotIDs(rows, from, to, t)
        PROVE  ListsRead'
    <3>1. /\ diffPc' = "second" /\ asked' = {<<from, to>>} /\ table' = rows /\ seen' = Len(rows)
          /\ before' = RowsAt(rows, PlacesAt(rows, from))
      BY <2>2 DEF DiffBySnapshotIDs, ListEffectiveAnnotations, PlacesAt
    <3>2. rows \in Seq(Rows) /\ from \in Nat /\ to \in Nat
      BY SnapshotDiffAssumption
    <3>3. DOMAIN rows = 1..Len(rows)
      BY <3>2, LenProperties
    <3>4. PlacesAt(rows, from) \intersect 1..Len(rows) = PlacesAt(rows, from)
      BY <3>3 DEF PlacesAt
    <3>5. \A s \in asked' : s[1] = from
      BY <3>1
    <3> QED
      BY <3>1, <3>2, <3>4, <3>5 DEF ListsRead
  <2>3. CASE RowIsAdded
    BY <2>3, RowIsAddedKeeps
  <2>4. CASE ListAfter
    <3>1. /\ diffPc = "second" /\ diffPc' = "exact" /\ before' = before /\ asked' = asked /\ table' = table
          /\ seen' = seen
      BY <2>4 DEF ListAfter
    <3>2. PICK s \in asked : after' = RowsAt(table, PlacesAt(table, s[2]))
      BY <2>4 DEF ListAfter, ListEffectiveAnnotations, PlacesAt
    <3>3. asked = {s}
      BY <3>2 DEF ListsRead
    <3> QED
      BY <3>1, <3>2, <3>3 DEF ListsRead
  <2>5. CASE ListFails
    BY <2>5 DEF ListFails, ListsRead
  <2>6. CASE PairEqualBoxes \/ ClassifyBox \/ AddRest \/ UNCHANGED diffVars
    <3>1. /\ before' = before /\ after' = after /\ asked' = asked /\ table' = table /\ seen' = seen
          /\ diffPc' = diffPc \/ (diffPc \in {"exact", "updates"} /\ diffPc' # "idle")
      BY <2>6 DEF PairEqualBoxes, ClassifyBox, AddRest, diffVars
    <3> QED
      BY <3>1 DEF ListsRead
  <2> QED
    BY <2>1, <2>2, <2>3, <2>4, <2>5, <2>6 DEF DiffNext
<1> QED
  BY <1>1, <1>2, DiffInvariance, PTL DEF DiffSpec

(* What the lists of two snapshots say of their exports.                   *)
LEMMA DiffIsOfExport ==
  ASSUME DiffInv, TableInv, ListsRead
  PROVE  DiffAgreesWithExport
<1> SUFFICES ASSUME NEW d \in {r.dataset : r \in Range(table)}, NEW s \in asked, diffPc = "done",
                    OnlyVerifiedOf(d, s[1], s[2]), NoneAddedTo(s[1]),
                    NEW old \in loadAnnotations(table, d, s[1]), NEW new \in loadAnnotations(table, d, s[2]),
                    NEW box \in Range(table)
             PROVE  ToldMore(box) - ToldLess(box) = Count(new, box) - Count(old, box)
  BY DEF DiffAgreesWithExport
<1>1. /\ table \in Seq(Range(table)) /\ DOMAIN table = 1..Len(table) /\ Len(table) \in Nat /\ seen \in Nat
      /\ \A i \in DOMAIN table : table[i] \in Range(table)
  BY LenProperties DEF TableInv, IsListOfBoxes, Range
<1> DEFINE P == PlacesAt(table, s[1])
           Q == PlacesAt(table, s[2])
           EP == Exported(table, d, s[1])
           EQ == Exported(table, d, s[2])
           Of(S) == {i \in S : Alike(table[i], box)}
<1>2. P \intersect 1..seen = P
  BY <1>1 DEF NoneAddedTo, PlacesAt
<1>3. /\ before = RowsAt(table, P) /\ after = RowsAt(table, Q)
      /\ old = RowsAt(table, EP) /\ new = RowsAt(table, EQ)
  BY <1>2 DEF ListsRead, loadAnnotations
<1>4. P \in SUBSET DOMAIN table /\ Q \in SUBSET DOMAIN table /\ EP \in SUBSET DOMAIN table /\ EQ \in SUBSET DOMAIN table
  BY DEF PlacesAt, Exported
<1>5. \A i \in DOMAIN table : EffectiveAt(table[i], s[1]) # EffectiveAt(table[i], s[2])
                                => table[i].dataset = d /\ Verified(table[i])
  BY <1>1 DEF OnlyVerifiedOf
<1>6. Q \ P = EQ \ EP /\ P \ Q = EP \ EQ
  BY <1>5 DEF PlacesAt, Exported, EffectiveAt
<1> HIDE DEF P, Q, EP, EQ
<1>7. /\ Of(Q) \ Of(P) = Of(EQ) \ Of(EP)
      /\ Of(P) \ Of(Q) = Of(EP) \ Of(EQ)
  BY <1>6
<1>8. /\ IsFiniteSet(Of(P)) /\ IsFiniteSet(Of(Q)) /\ IsFiniteSet(Of(EP)) /\ IsFiniteSet(Of(EQ))
      /\ Count(before, box) = Cardinality(Of(P)) /\ Count(after, box) = Cardinality(Of(Q))
      /\ Count(old, box) = Cardinality(Of(EP)) /\ Count(new, box) = Cardinality(Of(EQ))
  <2>1. ASSUME NEW S \in SUBSET DOMAIN table
        PROVE  IsFiniteSet(Of(S)) /\ Count(RowsAt(table, S), box) = Cardinality(Of(S))
    BY <1>1, RowsCounted
  <2> HIDE DEF Of
  <2> QED
    BY <1>3, <1>4, <2>1
<1> HIDE DEF Of
<1>9. /\ Cardinality(Of(Q)) - Cardinality(Of(P)) = Cardinality(Of(Q) \ Of(P)) - Cardinality(Of(P) \ Of(Q))
      /\ Cardinality(Of(EQ)) - Cardinality(Of(EP)) = Cardinality(Of(EQ) \ Of(EP)) - Cardinality(Of(EP) \ Of(EQ))
  BY <1>8, SizesDiffer
<1>10. ToldMore(box) - ToldLess(box) = Count(after, box) - Count(before, box)
  BY ToldIsDifference
<1> QED
  BY <1>7, <1>8, <1>9, <1>10

(* DiffBySnapshotIDs, loadAnnotations: for any content of the table, deleted rows and rows of *)
(* any review status included, the diff of two snapshots tells box by box of the difference   *)
(* of their exports, except where the two queries ask for different rows or a row of the      *)
(* first snapshot was added between the two queries of the diff.                              *)
THEOREM DiffMatchesExport == DiffSpec => []DiffAgreesWithExport
<1>1. DiffInv /\ TableInv /\ ListsRead => DiffAgreesWithExport
  BY DiffIsOfExport
<1> QED
  BY <1>1, DiffInvariance, ListsReadHolds, PTL

=============================================================================
