-------------------------- MODULE JobResultsProofs --------------------------
(***************************************************************************)
(* The properties of JobResults for any number of attempts, sizes of their *)
(* results and reports that are cut short.                                 *)
(***************************************************************************)
EXTENDS JobResults, SequenceTheorems, TLAPS

(* Every write of the reference names a result: an event does so itself, and a terminal       *)
(* report without a name is merged with what its own attempt has written before.              *)
RefNamed == ref # NoRef => ref.result # 0

Sized ==
  \A a \in Attempts :
    /\ attempt[a].pc \in {"persist", "append", "read", "write", "readAgain", "writeAgain"} =>
         Found(a)
    /\ attempt[a].pc \in {"persist", "append", "read", "write"} => kind # "package"
    /\ attempt[a].pc = "persist" => kind = "candidates"
    /\ attempt[a].pc = "waiting" => ~Found(a)

Closing == {"check", "complete", "log", "readAgain", "writeAgain"}

Kept ==
  kind # "package" =>
    \A a \in Attempts :
      /\ Found(a) /\ attempt[a].pc \in Closing => ref.result # 0
      /\ attempt[a].pc = "writeAgain" => attempt[a].seen.result # 0

(* Events.  A result is named together with its size, a size without a result comes after     *)
(* the reference has been written, and the newest event that has a key exists.                *)
EventsMatch ==
  \A i \in DOMAIN events : events[i].result # 0 =>
    /\ events[i].result \in Attempts
    /\ ~At(events[i].result, "waiting")
    /\ events[i].count = attempt[events[i].result].size
    /\ Found(events[i].result)

CountsNamed ==
  ref = NoRef => \A i \in DOMAIN events : events[i].count # 0 => events[i].result # 0

Results == {i \in DOMAIN events : events[i].result # 0}

Peak == Results # {} => \E i \in Results : \A j \in Results : j <= i

(* The attempt that completed the job has named its result, or is about to. *)
Finished ==
  completedBy # 0 =>
    LET c == attempt[completedBy]
    IN /\ \/ c.pc \in {"log", "readAgain", "writeAgain", "done"}
          \/ c.pc = "dead" /\ c.died \in {"log", "readAgain", "writeAgain"}
       /\ Found(completedBy) =>
            IF kind = "package"
            THEN c.pc = "log" \/ (c.pc = "dead" /\ c.died = "log") \/ Results # {}
            ELSE ref.result # 0

(* Candidates are persisted before anything names them. *)
Backed ==
  /\ persisted # {} => kind = "candidates"
  /\ kind = "candidates" =>
       /\ ref.result \in persisted \union {0}
       /\ \A i \in DOMAIN events : events[i].result \in persisted \union {0}
       /\ \A a \in Attempts : /\ attempt[a].seen.result \in persisted \union {0}
                              /\ attempt[a].pc \in {"append", "read", "write"} => a \in persisted
  /\ \A a \in persisted : \/ attempt[a].pc \in {"append", "dead"}
                          \/ \E i \in Results : events[i].result = a

(* As long as no two attempts report at the same time, what one of them has read is current   *)
(* and the reference is of one attempt.                                                       *)
Single ==
  overlaps = {} =>
    /\ \A a, b \in InFlight : a = b
    /\ ref.result # 0 => /\ ref.result \in Attempts /\ ~At(ref.result, "waiting")
                         /\ ref.count = attempt[ref.result].size
    /\ \A a \in InFlight :
         /\ attempt[a].pc \in {"write", "writeAgain"} => attempt[a].seen = ref
         /\ kind # "package" /\ Found(a) /\ attempt[a].pc \in Closing => ref.result = a

IInv ==
  /\ TypeOK /\ RefNamed /\ Sized /\ Kept
  /\ EventsMatch /\ CountsNamed /\ Peak
  /\ Finished /\ Backed /\ Single

-----------------------------------------------------------------------------
(* What a step does to the attempts: one of them moves. *)
Moves(a, pc, died, size, ok, seen) ==
  /\ attempt' \in [Attempts -> Attempt]
  /\ attempt'[a].pc = pc /\ attempt'[a].died = died
  /\ attempt'[a].size = size /\ attempt'[a].ok = ok /\ attempt'[a].seen = seen
  /\ \A b \in Attempts \ {a} : attempt'[b] = attempt[b]

(* The fields of an attempt have their types.                                                 *)
LEMMA Fields ==
  ASSUME TypeOK, NEW a \in Attempts
  PROVE  /\ attempt[a] \in Attempt /\ attempt[a].died \in {"", "refused"} \union Reporting
         /\ attempt[a].size \in Nat /\ attempt[a].ok \in BOOLEAN /\ attempt[a].seen \in Ref
BY DEF TypeOK, Attempt

(* An update of one attempt is a move of it, and of no other.                                 *)
LEMMA MovesTo ==
  ASSUME TypeOK, NEW a \in Attempts, NEW new \in Attempt, attempt' = [attempt EXCEPT ![a] = new]
  PROVE  Moves(a, new.pc, new.died, new.size, new.ok, new.seen)
<1>1. attempt \in [Attempts -> Attempt]
  BY DEF TypeOK
<1> HIDE DEF Attempt
<1> QED
  BY <1>1 DEF Moves

(* Goto moves an attempt to another statement and changes nothing else of it.                 *)
LEMMA GotoMoves ==
  ASSUME TypeOK, NEW a \in Attempts, NEW pc \in {"waiting", "done", "dead"} \union Reporting, Goto(a, pc)
  PROVE  Moves(a, pc, attempt[a].died, attempt[a].size, attempt[a].ok, attempt[a].seen)
<1> DEFINE t == attempt[a]
           new == [t EXCEPT !.pc = pc]
<1>1. t \in Attempt
  BY Fields
<1>2. /\ new \in Attempt /\ new.pc = pc /\ new.died = t.died /\ new.size = t.size
      /\ new.ok = t.ok /\ new.seen = t.seen
  BY <1>1 DEF Attempt
<1>3. attempt' = [attempt EXCEPT ![a] = new]
  BY DEF Goto
<1> HIDE DEF new
<1> QED
  BY <1>2, <1>3, MovesTo

(* HandlerEnds begins the reports of an attempt: which report is first tells what it found.   *)
LEMMA HandlerEndsMoves ==
  ASSUME TypeOK, NEW a \in Attempts, NEW size \in Sizes, NEW ok \in BOOLEAN, HandlerEnds(a, size, ok)
  PROVE  /\ Moves(a, FirstReport(size, ok), attempt[a].died, size, ok, attempt[a].seen)
         /\ FirstReport(size, ok) \in {"check", "persist", "append"} /\ size \in Nat
         /\ FirstReport(size, ok) \in {"persist", "append"} => HasResult(size, ok) /\ kind # "package"
         /\ FirstReport(size, ok) = "check" => ~HasResult(size, ok) \/ kind = "package"
         /\ FirstReport(size, ok) = "persist" <=> kind = "candidates" /\ HasResult(size, ok)
<1> DEFINE t == attempt[a]
           pc == FirstReport(size, ok)
           new == [t EXCEPT !.pc = pc, !.size = size, !.ok = ok]
<1>1. t \in Attempt
  BY Fields
<1>2. kind \in AllKinds /\ size \in Nat
  BY JobResultsAssumption DEF TypeOK, Sizes, HandlerEnds
<1>3. /\ pc \in {"check", "persist", "append"}
      /\ pc \in {"persist", "append"} => HasResult(size, ok) /\ kind # "package"
      /\ pc = "check" => ~HasResult(size, ok) \/ kind = "package"
      /\ pc = "persist" <=> kind = "candidates" /\ HasResult(size, ok)
  BY <1>2 DEF FirstReport, AllKinds
<1>4. pc \in {"waiting", "done", "dead"} \union Reporting
  BY <1>3 DEF Reporting
<1>5. attempt' = [attempt EXCEPT ![a] = new]
  BY DEF HandlerEnds
<1> HIDE DEF pc
<1>6. /\ new \in Attempt /\ new.pc = pc /\ new.died = t.died /\ new.size = size
      /\ new.ok = ok /\ new.seen = t.seen
  BY <1>1, <1>2, <1>4 DEF Attempt
<1> HIDE DEF new
<1>7. Moves(a, pc, attempt[a].died, size, ok, attempt[a].seen)
  BY <1>5, <1>6, MovesTo
<1> QED
  BY <1>2, <1>3, <1>7 DEF pc

(* The SELECT of StoreResultRef: the attempt has seen the reference.                          *)
LEMMA GetMoves ==
  ASSUME TypeOK, NEW a \in Attempts, NEW from, NEW to \in Reporting, StoreResultRefGet(a, from, to)
  PROVE  Moves(a, to, attempt[a].died, attempt[a].size, attempt[a].ok, ref)
<1> DEFINE t == attempt[a]
           new == [t EXCEPT !.pc = to, !.seen = ref]
<1>1. t \in Attempt /\ ref \in Ref
  BY Fields DEF TypeOK
<1>2. /\ new \in Attempt /\ new.pc = to /\ new.died = t.died /\ new.size = t.size
      /\ new.ok = t.ok /\ new.seen = ref
  BY <1>1 DEF Attempt
<1>3. attempt' = [attempt EXCEPT ![a] = new]
  BY DEF StoreResultRefGet
<1> HIDE DEF new
<1> QED
  BY <1>2, <1>3, MovesTo

(* The UPDATE of StoreResultRef: the attempt forgets what it saw.                             *)
LEMMA WriteMoves ==
  ASSUME TypeOK, NEW a \in Attempts, NEW incoming, NEW from, NEW to \in Reporting \union {"done"},
         StoreResultRefWrite(a, incoming, from, to)
  PROVE  Moves(a, to, attempt[a].died, attempt[a].size, attempt[a].ok, NoRef)
<1> DEFINE t == attempt[a]
           new == [t EXCEPT !.pc = to, !.seen = NoRef]
<1>1. t \in Attempt /\ NoRef \in Ref
  BY Fields DEF NoRef, Ref
<1>2. /\ new \in Attempt /\ new.pc = to /\ new.died = t.died /\ new.size = t.size
      /\ new.ok = t.ok /\ new.seen = NoRef
  BY <1>1 DEF Attempt
<1>3. attempt' = [attempt EXCEPT ![a] = new]
  BY DEF StoreResultRefWrite
<1> HIDE DEF new
<1> QED
  BY <1>2, <1>3, MovesTo

(* CompleteGet goes on to the update, or the worker ends on the refusal.                      *)
LEMMA RefusedMoves ==
  ASSUME TypeOK, NEW a \in Attempts, CompleteGet(a)
  PROVE  \/ Moves(a, "complete", attempt[a].died, attempt[a].size, attempt[a].ok, attempt[a].seen)
         \/ Moves(a, "dead", "refused", attempt[a].size, attempt[a].ok, attempt[a].seen)
<1> DEFINE t == attempt[a]
           new == [t EXCEPT !.pc = "dead", !.died = "refused"]
<1>1. t \in Attempt
  BY Fields
<1>2. CASE CanComplete(status, Reported(a))
  BY <1>2, GotoMoves DEF CompleteGet, Reporting
<1>3. CASE ~CanComplete(status, Reported(a))
  <2>1. /\ new \in Attempt /\ new.pc = "dead" /\ new.died = "refused" /\ new.size = t.size
        /\ new.ok = t.ok /\ new.seen = t.seen
    BY <1>1 DEF Attempt
  <2>2. attempt' = [attempt EXCEPT ![a] = new]
    BY <1>3 DEF CompleteGet
  <2> HIDE DEF new
  <2> QED
    BY <2>1, <2>2, MovesTo
<1> QED
  BY <1>2, <1>3

(* ReportFails ends an attempt and remembers where.                                           *)
LEMMA FailsMoves ==
  ASSUME TypeOK, NEW a \in Attempts, ReportFails(a)
  PROVE  Moves(a, "dead", attempt[a].pc, attempt[a].size, attempt[a].ok, NoRef)
<1> DEFINE t == attempt[a]
           new == [t EXCEPT !.pc = "dead", !.died = t.pc, !.seen = NoRef]
<1>1. t \in Attempt /\ NoRef \in Ref /\ t.pc \in Reporting
  BY Fields DEF NoRef, Ref, ReportFails, InFlight
<1>2. /\ new \in Attempt /\ new.pc = "dead" /\ new.died = t.pc /\ new.size = t.size
      /\ new.ok = t.ok /\ new.seen = NoRef
  BY <1>1 DEF Attempt
<1>3. attempt' = [attempt EXCEPT ![a] = new]
  BY DEF ReportFails
<1> HIDE DEF new
<1> QED
  BY <1>2, <1>3, MovesTo

(* What is written into the reference. *)
LEMMA Written ==
  ASSUME TypeOK, NEW a \in Attempts, Found(a)
  PROVE  /\ a \in Nat /\ a # 0
         /\ EventDetail(a) \in Ref /\ EventDetail(a).count = attempt[a].size /\ EventDetail(a).result = a
         /\ resultRef(a) \in Ref /\ resultRef(a).count = attempt[a].size /\ resultRef(a) # NoRef
         /\ resultRef(a).result = IF kind = "package" THEN a ELSE 0
         /\ \A seen \in Ref :
              /\ mergeResultRefs(seen, EventDetail(a)) \in Ref
              /\ mergeResultRefs(seen, EventDetail(a)).count = attempt[a].size
              /\ mergeResultRefs(seen, EventDetail(a)).result = a
              /\ mergeResultRefs(seen, resultRef(a)) \in Ref
              /\ mergeResultRefs(seen, resultRef(a)).count = attempt[a].size
              /\ mergeResultRefs(seen, resultRef(a)).result = IF kind = "package" THEN a ELSE seen.result
              /\ mergeResultRefs(seen, EventDetail(a)) # NoRef /\ mergeResultRefs(seen, resultRef(a)) # NoRef
<1>1. a \in Nat /\ a # 0 /\ attempt[a].size \in Nat
  <2>1. a \in Nat /\ a # 0
    BY JobResultsAssumption DEF Attempts
  <2> QED
    BY <2>1, Fields
<1> DEFINE e == EventDetail(a)
           f == resultRef(a)
<1>0. kind \in AllKinds /\ kind # "none"
  BY JobResultsAssumption DEF TypeOK, AllKinds
<1>2. e \in Ref /\ e.type = kind /\ e.count = attempt[a].size /\ e.result = a
  BY <1>0, <1>1 DEF EventDetail, Ref
<1>3. /\ f \in Ref /\ f.type = kind /\ f.count = attempt[a].size /\ f # NoRef
      /\ f.result = IF kind = "package" THEN a ELSE 0
  BY <1>0, <1>1 DEF resultRef, Ref, NoRef
<1> HIDE DEF e, f
<1>4. \A seen \in Ref :
        /\ mergeResultRefs(seen, e) \in Ref
        /\ mergeResultRefs(seen, e).count = attempt[a].size /\ mergeResultRefs(seen, e).result = a
        /\ mergeResultRefs(seen, f) \in Ref
        /\ mergeResultRefs(seen, f).count = attempt[a].size
        /\ mergeResultRefs(seen, f).result = IF kind = "package" THEN a ELSE seen.result
        /\ mergeResultRefs(seen, e).type = kind /\ mergeResultRefs(seen, f).type = kind
  BY <1>0, <1>1, <1>2, <1>3 DEF mergeResultRefs, Ref
<1>5. \A seen \in Ref : mergeResultRefs(seen, e) # NoRef /\ mergeResultRefs(seen, f) # NoRef
  BY <1>0, <1>4 DEF NoRef
<1> QED
  BY <1>1, <1>2, <1>3, <1>4, <1>5 DEF e, f

(* What a step appends to the events. *)
LEMMA Appended ==
  ASSUME TypeOK, NEW e \in Ref, events' = Append(events, e)
  PROVE  /\ events' \in Seq(Ref) /\ Len(events) \in Nat
         /\ DOMAIN events = 1..Len(events) /\ DOMAIN events' = 1..(Len(events) + 1)
         /\ events'[Len(events) + 1] = e
         /\ \A i \in DOMAIN events : events'[i] = events[i]
<1>1. events \in Seq(Ref)
  BY DEF TypeOK
<1> HIDE DEF Ref
<1> QED
  BY <1>1

(* Every step keeps the types.                                                                *)
LEMMA TypeStep ==
  ASSUME TypeOK, Sized, [Next]_vars
  PROVE  TypeOK'
<1>1. CASE UNCHANGED vars
  BY <1>1 DEF vars, TypeOK, Attempts
<1>2. ASSUME NEW a \in Attempts, NEW size \in Sizes, NEW ok \in BOOLEAN, HandlerEnds(a, size, ok)
      PROVE  TypeOK'
  <2>1. attempt' \in [Attempts -> Attempt]
    BY <1>2, HandlerEndsMoves DEF Moves
  <2>2. InFlight \subseteq Attempts
    BY DEF InFlight
  <2> QED
    BY <1>2, <2>1, <2>2 DEF HandlerEnds, TypeOK
<1>3. ASSUME NEW a \in Attempts, persistReviewCandidates(a) PROVE TypeOK'
  <2>1. attempt' \in [Attempts -> Attempt]
    BY <1>3, GotoMoves DEF Moves, persistReviewCandidates, Reporting
  <2> QED
    BY <1>3, <2>1 DEF persistReviewCandidates, TypeOK, CandidatesOf
<1>4. ASSUME NEW a \in Attempts, ReportEvent(a) PROVE TypeOK'
  <2>1. attempt' \in [Attempts -> Attempt]
    BY <1>4, GotoMoves DEF Moves, ReportEvent, Reporting
  <2>2. Found(a)
    BY <1>4 DEF ReportEvent, At, Sized
  <2>3. events' \in Seq(Ref)
    BY <1>4, <2>2, Written, Appended DEF ReportEvent
  <2> QED
    BY <1>4, <2>1, <2>3 DEF ReportEvent, TypeOK
<1>5. ASSUME NEW a \in Attempts, NEW from, NEW to \in Reporting, StoreResultRefGet(a, from, to) PROVE TypeOK'
  <2>1. attempt' \in [Attempts -> Attempt]
    BY <1>5, GetMoves DEF Moves
  <2> QED
    BY <1>5, <2>1 DEF StoreResultRefGet, TypeOK
<1>6. ASSUME NEW a \in Attempts, NEW incoming \in {EventDetail(a), resultRef(a)},
             NEW from \in {"write", "writeAgain"}, NEW to \in Reporting \union {"done"},
             StoreResultRefWrite(a, incoming, from, to)
      PROVE  TypeOK'
  <2>1. attempt' \in [Attempts -> Attempt]
    BY <1>6, WriteMoves DEF Moves
  <2>2. Found(a) /\ attempt[a].seen \in Ref
    BY <1>6, Fields DEF StoreResultRefWrite, At, Sized
  <2>3. ref' \in Ref
    BY <1>6, <2>2, Written DEF StoreResultRefWrite
  <2> QED
    BY <1>6, <2>1, <2>3 DEF StoreResultRefWrite, TypeOK
<1>7. ASSUME NEW a \in Attempts, CompleteGet(a) PROVE TypeOK'
  <2>1. attempt' \in [Attempts -> Attempt]
    BY <1>7, RefusedMoves DEF Moves
  <2> QED
    BY <1>7, <2>1 DEF CompleteGet, TypeOK
<1>8. ASSUME NEW a \in Attempts, Complete(a) PROVE TypeOK'
  <2>1. attempt' \in [Attempts -> Attempt]
    BY <1>8, GotoMoves DEF Moves, Complete, Reporting
  <2>2. Reported(a) \in Terminal
    BY DEF Reported, Terminal
  <2> QED
    BY <1>8, <2>1, <2>2 DEF Complete, TypeOK
<1>9. ASSUME NEW a \in Attempts, ReportTerminal(a) PROVE TypeOK'
  <2>1. attempt' \in [Attempts -> Attempt]
    BY <1>9, GotoMoves DEF Moves, ReportTerminal, Reporting
  <2>2. TerminalDetail(a) \in Ref
    <3>1. CASE ~Found(a)
      BY <3>1 DEF TerminalDetail, resultRef, NoRef, Ref
    <3>2. CASE Found(a)
      BY <3>2, Written DEF TerminalDetail
    <3> QED
      BY <3>1, <3>2
  <2>3. events' \in Seq(Ref)
    BY <1>9, <2>2, Appended DEF ReportTerminal
  <2> QED
    BY <1>9, <2>1, <2>3 DEF ReportTerminal, TypeOK
<1>10. ASSUME NEW a \in Attempts, ReportFails(a) PROVE TypeOK'
  <2>1. attempt' \in [Attempts -> Attempt]
    BY <1>10, FailsMoves DEF Moves
  <2> QED
    BY <1>10, <2>1 DEF ReportFails, TypeOK
<1>11. CASE MarkFailed
  BY <1>11 DEF MarkFailed, TypeOK, Terminal
<1>12. "write" \in Reporting /\ "check" \in Reporting /\ "writeAgain" \in Reporting
  BY DEF Reporting
<1> QED
  BY <1>1, <1>2, <1>3, <1>4, <1>5, <1>6, <1>7, <1>8, <1>9, <1>10, <1>11, <1>12 DEF Next, Report

-----------------------------------------------------------------------------
(* Every step, with the attempt it moves. *)
Quiet == UNCHANGED <<kind, ref, events, persisted>>

Begins(a) ==
  /\ attempt[a].pc = "waiting" /\ Quiet /\ UNCHANGED completedBy
  /\ overlaps' = overlaps \union InFlight
  /\ \E pc \in {"check", "persist", "append"}, size \in Nat, ok \in BOOLEAN :
       /\ Moves(a, pc, attempt[a].died, size, ok, attempt[a].seen)
       /\ pc \in {"persist", "append"} => HasResult(size, ok) /\ kind # "package"
       /\ pc = "check" => ~HasResult(size, ok) \/ kind = "package"
       /\ pc = "persist" <=> kind = "candidates" /\ HasResult(size, ok)

Persists(a) ==
  /\ attempt[a].pc = "persist" /\ persisted' = persisted \union {a}
  /\ UNCHANGED <<kind, ref, events, completedBy, overlaps>>
  /\ Moves(a, "append", attempt[a].died, attempt[a].size, attempt[a].ok, attempt[a].seen)

Announces(a) ==
  /\ attempt[a].pc = "append" /\ events' = Append(events, EventDetail(a))
  /\ UNCHANGED <<kind, ref, persisted, completedBy, overlaps>>
  /\ Moves(a, "read", attempt[a].died, attempt[a].size, attempt[a].ok, attempt[a].seen)

Reads(a, from, to) ==
  /\ attempt[a].pc = from /\ Quiet /\ UNCHANGED <<completedBy, overlaps>>
  /\ Moves(a, to, attempt[a].died, attempt[a].size, attempt[a].ok, ref)

Merges(a, incoming, from, to) ==
  /\ attempt[a].pc = from /\ ref' = mergeResultRefs(attempt[a].seen, incoming)
  /\ UNCHANGED <<kind, events, persisted, completedBy, overlaps>>
  /\ Moves(a, to, attempt[a].died, attempt[a].size, attempt[a].ok, NoRef)

Checks(a) ==
  /\ attempt[a].pc = "check" /\ Quiet /\ UNCHANGED <<completedBy, overlaps>>
  /\ \/ Moves(a, "complete", attempt[a].died, attempt[a].size, attempt[a].ok, attempt[a].seen)
     \/ Moves(a, "dead", "refused", attempt[a].size, attempt[a].ok, attempt[a].seen)

Completes(a) ==
  /\ attempt[a].pc = "complete" /\ completedBy' = a /\ Quiet /\ UNCHANGED overlaps
  /\ Moves(a, "log", attempt[a].died, attempt[a].size, attempt[a].ok, attempt[a].seen)

Logs(a) ==
  /\ attempt[a].pc = "log" /\ events' = Append(events, TerminalDetail(a))
  /\ UNCHANGED <<kind, ref, persisted, completedBy, overlaps>>
  /\ \/ /\ ~Found(a)
        /\ Moves(a, "done", attempt[a].died, attempt[a].size, attempt[a].ok, attempt[a].seen)
     \/ /\ Found(a)
        /\ Moves(a, "readAgain", attempt[a].died, attempt[a].size, attempt[a].ok, attempt[a].seen)

Dies(a) ==
  /\ attempt[a].pc \in Reporting /\ Quiet /\ UNCHANGED <<completedBy, overlaps>>
  /\ Moves(a, "dead", attempt[a].pc, attempt[a].size, attempt[a].ok, NoRef)

Idles ==
  /\ UNCHANGED <<kind, ref, events, persisted, attempt, overlaps>>
  /\ completedBy' \in {completedBy, 0}

(* Every step is a move of one attempt, MarkFailed or a stutter.                              *)
LEMMA Steps ==
  ASSUME TypeOK, [Next]_vars
  PROVE  \/ Idles
         \/ \E a \in Attempts :
              \/ Begins(a) \/ Persists(a) \/ Announces(a)
              \/ Reads(a, "read", "write") \/ Reads(a, "readAgain", "writeAgain")
              \/ Merges(a, EventDetail(a), "write", "check")
              \/ Merges(a, resultRef(a), "writeAgain", "done")
              \/ Checks(a) \/ Completes(a) \/ Logs(a) \/ Dies(a)
<1>1. ASSUME NEW a \in Attempts, NEW size \in Sizes, NEW ok \in BOOLEAN, HandlerEnds(a, size, ok)
      PROVE  Begins(a)
  <2> DEFINE B(pc, z, k) ==
               /\ Moves(a, pc, attempt[a].died, z, k, attempt[a].seen)
               /\ pc \in {"persist", "append"} => HasResult(z, k) /\ kind # "package"
               /\ pc = "check" => ~HasResult(z, k) \/ kind = "package"
               /\ pc = "persist" <=> kind = "candidates" /\ HasResult(z, k)
  <2>1. /\ FirstReport(size, ok) \in {"check", "persist", "append"} /\ size \in Nat
        /\ B(FirstReport(size, ok), size, ok)
    BY <1>1, HandlerEndsMoves, Zenon
  <2>2. \E pc \in {"check", "persist", "append"}, z \in Nat, k \in BOOLEAN : B(pc, z, k)
    <3> HIDE DEF B
    <3> QED
      BY <2>1, Zenon
  <2> QED
    BY <1>1, <2>2 DEF HandlerEnds, At, Quiet, Begins
<1>2. ASSUME NEW a \in Attempts, persistReviewCandidates(a) PROVE Persists(a)
  BY <1>2, GotoMoves DEF persistReviewCandidates, At, CandidatesOf, Reporting, Persists
<1>3. ASSUME NEW a \in Attempts, ReportEvent(a) PROVE Announces(a)
  BY <1>3, GotoMoves DEF ReportEvent, At, Reporting, Announces
<1>4. ASSUME NEW a \in Attempts, NEW from, NEW to \in Reporting, StoreResultRefGet(a, from, to)
      PROVE  Reads(a, from, to)
  BY <1>4, GetMoves DEF StoreResultRefGet, At, Quiet, Reads
<1>5. ASSUME NEW a \in Attempts, NEW incoming, NEW from, NEW to \in Reporting \union {"done"},
             StoreResultRefWrite(a, incoming, from, to)
      PROVE  Merges(a, incoming, from, to)
  BY <1>5, WriteMoves DEF StoreResultRefWrite, At, Merges
<1>6. ASSUME NEW a \in Attempts, CompleteGet(a) PROVE Checks(a)
  BY <1>6, RefusedMoves DEF CompleteGet, At, Quiet, Checks
<1>7. ASSUME NEW a \in Attempts, Complete(a) PROVE Completes(a)
  BY <1>7, GotoMoves DEF Complete, At, Reporting, Quiet, Completes
<1>8. ASSUME NEW a \in Attempts, ReportTerminal(a) PROVE Logs(a)
  <2>1. ~Found(a) <=> resultRef(a) = NoRef
    BY Written DEF resultRef
  <2>2. \/ ~Found(a) /\ Goto(a, "done")
        \/ Found(a) /\ Goto(a, "readAgain")
    BY <1>8, <2>1 DEF ReportTerminal
  <2> QED
    BY <1>8, <2>2, GotoMoves DEF ReportTerminal, At, Reporting, Logs
<1>9. ASSUME NEW a \in Attempts, ReportFails(a) PROVE Dies(a)
  BY <1>9, FailsMoves DEF ReportFails, InFlight, Quiet, Dies
<1>10. CASE UNCHANGED vars \/ MarkFailed
  BY <1>10 DEF vars, MarkFailed, Idles
<1>11. /\ "write" \in Reporting /\ "writeAgain" \in Reporting
       /\ "check" \in Reporting \union {"done"} /\ "done" \in Reporting \union {"done"}
  BY DEF Reporting
<1> QED
  BY <1>1, <1>2, <1>3, <1>4, <1>5, <1>6, <1>7, <1>8, <1>9, <1>10, <1>11 DEF Next, Report

(* Every step keeps what a written reference names and what a report that merges into it has seen.*)
LEMMA NamedStep ==
  ASSUME TypeOK, RefNamed, Sized, Kept, [Next]_vars
  PROVE  RefNamed' /\ Sized' /\ Kept'
<1> USE DEF Found, HasResult
<1> DEFINE G == RefNamed' /\ Sized' /\ Kept'
<1>1. CASE Idles
  BY <1>1 DEF Idles, RefNamed, Sized, Kept, NoRef
<1>2. ASSUME NEW a \in Attempts, Begins(a) PROVE G
  BY <1>2 DEF Begins, Moves, Quiet, RefNamed, Sized, Kept, Closing
<1>3. ASSUME NEW a \in Attempts, Persists(a) PROVE G
  BY <1>3 DEF Persists, Moves, RefNamed, Sized, Kept, Closing
<1>4. ASSUME NEW a \in Attempts, Announces(a) PROVE G
  BY <1>4 DEF Announces, Moves, RefNamed, Sized, Kept, Closing
<1>5. ASSUME NEW a \in Attempts, Reads(a, "read", "write") PROVE G
  BY <1>5 DEF Reads, Moves, Quiet, RefNamed, Sized, Kept, Closing
<1>6. ASSUME NEW a \in Attempts, Reads(a, "readAgain", "writeAgain") PROVE G
  BY <1>6 DEF Reads, Moves, Quiet, RefNamed, Sized, Kept, Closing
<1>7. ASSUME NEW a \in Attempts, Merges(a, EventDetail(a), "write", "check") PROVE G
  <2>1. Found(a) /\ attempt[a].seen \in Ref
    BY <1>7, Fields DEF Merges, Sized
  <2>2. ref'.result = a /\ a # 0
    BY <1>7, <2>1, Written DEF Merges
  <2> QED
    BY <1>7, <2>1, <2>2 DEF Merges, Moves, RefNamed, Sized, Kept, Closing
<1>8. ASSUME NEW a \in Attempts, Merges(a, resultRef(a), "writeAgain", "done") PROVE G
  <2>1. Found(a) /\ attempt[a].seen \in Ref
    BY <1>8, Fields DEF Merges, Sized
  <2>2. ref'.result = (IF kind = "package" THEN a ELSE attempt[a].seen.result) /\ a # 0
    BY <1>8, <2>1, Written DEF Merges
  <2>3. ref'.result # 0
    BY <1>8, <2>2 DEF Merges, Kept
  <2> QED
    BY <1>8, <2>1, <2>3 DEF Merges, Moves, RefNamed, Sized, Kept, Closing
<1>9. ASSUME NEW a \in Attempts, Checks(a) PROVE G
  BY <1>9 DEF Checks, Moves, Quiet, RefNamed, Sized, Kept, Closing
<1>10. ASSUME NEW a \in Attempts, Completes(a) PROVE G
  BY <1>10 DEF Completes, Moves, Quiet, RefNamed, Sized, Kept, Closing
<1>11. ASSUME NEW a \in Attempts, Logs(a) PROVE G
  BY <1>11 DEF Logs, Moves, RefNamed, Sized, Kept, Closing
<1>12. ASSUME NEW a \in Attempts, Dies(a) PROVE G
  BY <1>12 DEF Dies, Moves, Quiet, RefNamed, Sized, Kept, Closing
<1> QED
  BY <1>1, <1>2, <1>3, <1>4, <1>5, <1>6, <1>7, <1>8, <1>9, <1>10, <1>11, <1>12, Steps

(* An attempt that has begun keeps the size of what it found. *)
LEMMA Settled ==
  ASSUME TypeOK, [Next]_vars, NEW b \in Attempts, ~At(b, "waiting")
  PROVE  /\ attempt'[b].pc # "waiting" /\ attempt'[b].size = attempt[b].size
         /\ Found(b)' <=> Found(b)
<1> DEFINE G == /\ attempt'[b].pc # "waiting" /\ attempt'[b].size = attempt[b].size
                /\ attempt'[b].ok = attempt[b].ok /\ kind' = kind
<1> USE DEF At
<1>1. ASSUME Idles PROVE G
  BY <1>1 DEF Idles
<1>2. ASSUME NEW a \in Attempts, Begins(a) PROVE G
  BY <1>2 DEF Begins, Moves, Quiet
<1>3. ASSUME NEW a \in Attempts,
             \/ Persists(a) \/ Announces(a) \/ Reads(a, "read", "write") \/ Reads(a, "readAgain", "writeAgain")
             \/ Completes(a) \/ Logs(a) \/ Checks(a) \/ Dies(a)
             \/ Merges(a, EventDetail(a), "write", "check") \/ Merges(a, resultRef(a), "writeAgain", "done")
      PROVE  G
  BY <1>3 DEF Persists, Announces, Reads, Completes, Logs, Merges, Checks, Dies, Moves, Quiet
<1>4. G
  BY <1>1, <1>2, <1>3, Steps
<1> QED
  BY <1>4 DEF Found, HasResult

(* Either a step leaves the events alone, or it appends one that fits. *)
LEMMA EventSteps ==
  ASSUME TypeOK, Sized, Kept, [Next]_vars
  PROVE  \/ UNCHANGED events
         \/ \E e \in Ref :
              /\ events' = Append(events, e)
              /\ \/ e = NoRef
                 \/ /\ e.result \in Attempts /\ e.result # 0 /\ ~At(e.result, "waiting")
                    /\ e.count = attempt[e.result].size /\ Found(e.result)
                 \/ e.result = 0 /\ ref.result # 0
<1>1. ASSUME Idles PROVE UNCHANGED events
  BY <1>1 DEF Idles
<1>2. ASSUME NEW a \in Attempts,
             \/ Begins(a) \/ Persists(a) \/ Reads(a, "read", "write") \/ Reads(a, "readAgain", "writeAgain")
             \/ Completes(a) \/ Checks(a) \/ Dies(a)
             \/ Merges(a, EventDetail(a), "write", "check") \/ Merges(a, resultRef(a), "writeAgain", "done")
      PROVE  UNCHANGED events
  BY <1>2 DEF Begins, Persists, Reads, Completes, Merges, Checks, Dies, Quiet
<1> DEFINE Fit(e) == \/ e = NoRef
                     \/ /\ e.result \in Attempts /\ e.result # 0 /\ ~At(e.result, "waiting")
                        /\ e.count = attempt[e.result].size /\ Found(e.result)
                     \/ e.result = 0 /\ ref.result # 0
<1>3. ASSUME NEW a \in Attempts, Announces(a)
      PROVE  EventDetail(a) \in Ref /\ Fit(EventDetail(a)) /\ events' = Append(events, EventDetail(a))
  <2>1. Found(a) /\ ~At(a, "waiting")
    BY <1>3 DEF Announces, Sized, At
  <2>2. /\ EventDetail(a) \in Ref /\ EventDetail(a).count = attempt[a].size
        /\ EventDetail(a).result = a /\ a # 0
    BY <2>1, Written
  <2> HIDE DEF EventDetail
  <2> QED
    BY <1>3, <2>1, <2>2 DEF Announces
<1>4. ASSUME NEW a \in Attempts, Logs(a)
      PROVE  resultRef(a) \in Ref /\ Fit(resultRef(a)) /\ events' = Append(events, resultRef(a))
  <2>1. CASE ~Found(a)
    BY <1>4, <2>1 DEF Logs, TerminalDetail, resultRef, NoRef, Ref
  <2>2. CASE Found(a)
    <3>1. /\ resultRef(a) \in Ref /\ resultRef(a).count = attempt[a].size /\ a # 0
          /\ resultRef(a).result = IF kind = "package" THEN a ELSE 0
      BY <2>2, Written
    <3>2. kind # "package" => ref.result # 0
      BY <1>4, <2>2 DEF Logs, Kept, Closing
    <3>3. ~At(a, "waiting")
      BY <1>4 DEF Logs, At
    <3> HIDE DEF resultRef
    <3> QED
      BY <1>4, <2>2, <3>1, <3>2, <3>3 DEF Logs, TerminalDetail
  <2> QED
    BY <2>1, <2>2
<1> HIDE DEF Fit
<1>5. UNCHANGED events \/ \E e \in Ref : events' = Append(events, e) /\ Fit(e)
  <2> DEFINE Fitting == \E e \in Ref : events' = Append(events, e) /\ Fit(e)
  <2>1. ASSUME NEW a \in Attempts, Announces(a) PROVE Fitting
    BY <1>3, <2>1, Zenon
  <2>2. ASSUME NEW a \in Attempts, Logs(a) PROVE Fitting
    BY <1>4, <2>2, Zenon
  <2> HIDE DEF Fitting
  <2>3. UNCHANGED events \/ Fitting
    BY <1>1, <1>2, <2>1, <2>2, Steps
  <2> QED
    BY <2>3 DEF Fitting
<1> QED
  BY <1>5 DEF Fit

(* result_ref is never set back to null.                                                      *)
LEMMA RefKept ==
  ASSUME TypeOK, Sized, [Next]_vars
  PROVE  ref' = NoRef => ref = NoRef
<1>1. ASSUME NEW a \in Attempts,
             Merges(a, EventDetail(a), "write", "check") \/ Merges(a, resultRef(a), "writeAgain", "done")
      PROVE  ref' # NoRef
  <2>1. Found(a) /\ attempt[a].seen \in Ref
    BY <1>1, Fields DEF Merges, Sized
  <2> QED
    BY <1>1, <2>1, Written DEF Merges
<1>2. ASSUME NEW a \in Attempts,
             \/ Begins(a) \/ Persists(a) \/ Reads(a, "read", "write") \/ Reads(a, "readAgain", "writeAgain")
             \/ Completes(a) \/ Checks(a) \/ Dies(a) \/ Announces(a) \/ Logs(a)
      PROVE  UNCHANGED ref
  BY <1>2 DEF Begins, Persists, Reads, Completes, Checks, Dies, Quiet, Announces, Logs
<1>3. CASE Idles
  BY <1>3 DEF Idles
<1> QED
  BY <1>1, <1>2, <1>3, Steps

(* Every step keeps counts and names in the events together.                                  *)
LEMMA EventsStep ==
  ASSUME TypeOK, Sized, Kept, EventsMatch, CountsNamed, Peak, [Next]_vars
  PROVE  EventsMatch' /\ CountsNamed' /\ Peak'
<1>1. \A b \in Attempts : ~At(b, "waiting") =>
        /\ attempt'[b].pc # "waiting" /\ attempt'[b].size = attempt[b].size
        /\ Found(b)' <=> Found(b)
  BY Settled
<1> HIDE DEF Found
<1>2. CASE UNCHANGED events
  BY <1>1, <1>2, RefKept DEF EventsMatch, CountsNamed, Peak, Results, At
<1>3. ASSUME NEW e \in Ref, events' = Append(events, e),
             \/ e = NoRef
             \/ /\ e.result \in Attempts /\ e.result # 0 /\ ~At(e.result, "waiting")
                /\ e.count = attempt[e.result].size /\ Found(e.result)
             \/ e.result = 0 /\ ref.result # 0
      PROVE  EventsMatch' /\ CountsNamed' /\ Peak'
  <2> DEFINE n == Len(events) + 1
  <2>1. /\ n \in Nat \ {0} /\ DOMAIN events = 1..(n - 1) /\ DOMAIN events' = 1..n
        /\ events'[n] = e /\ \A i \in DOMAIN events : events'[i] = events[i]
    BY <1>3, Appended
  <2> HIDE DEF n
  <2>2. DOMAIN events' = DOMAIN events \union {n} /\ n \in Nat
        /\ \A i \in DOMAIN events : i <= n
    BY <2>1
  <2>3. EventsMatch'
    BY <1>1, <1>3, <2>1, <2>2 DEF EventsMatch, At, NoRef
  <2>4. CountsNamed'
    <3>1. ref = NoRef => ref.result = 0
      BY DEF NoRef
    <3> QED
      BY <1>3, <2>1, <2>2, <3>1, RefKept DEF CountsNamed, NoRef
  <2>5. Peak'
    <3>1. CASE e.result = 0
      <4>1. Results' = Results
        BY <2>1, <2>2, <3>1 DEF Results
      <4> QED
        BY <4>1 DEF Peak
    <3>2. CASE e.result # 0
      <4>1. n \in Results' /\ \A j \in Results' : j <= n
        BY <2>1, <2>2, <3>2 DEF Results
      <4> QED
        BY <4>1 DEF Peak
    <3> QED
      BY <3>1, <3>2
  <2> QED
    BY <2>3, <2>4, <2>5
<1> QED
  BY <1>2, <1>3, EventSteps

(* Events and results are never taken back. *)
LEMMA Grows ==
  ASSUME TypeOK, RefNamed, Sized, Kept, [Next]_vars
  PROVE  /\ \A i \in Results : i \in Results' /\ events'[i] = events[i]
         /\ Results # {} => Results' # {}
         /\ ref.result # 0 => ref'.result # 0
<1>1. \A i \in DOMAIN events : i \in DOMAIN events' /\ events'[i] = events[i]
  <2>1. ASSUME NEW e \in Ref, events' = Append(events, e)
        PROVE  \A i \in DOMAIN events : i \in DOMAIN events' /\ events'[i] = events[i]
    BY <2>1, Appended
  <2> QED
    BY <2>1, EventSteps
<1>2. ref.result # 0 => ref'.result # 0
  <2>1. RefNamed'
    BY NamedStep
  <2> QED
    BY <2>1, RefKept DEF RefNamed, NoRef
<1> QED
  BY <1>1, <1>2 DEF Results

(* Every step keeps what is known of the attempt that completed the job.                      *)
LEMMA FinishedStep ==
  ASSUME TypeOK, RefNamed, Sized, Kept, Finished, [Next]_vars
  PROVE  Finished'
<1> USE DEF Found, HasResult
<1> DEFINE G == Finished'
<1>1. CASE Idles
  BY <1>1 DEF Idles, Finished, Results
<1>2. /\ Results # {} => Results' # {}
      /\ ref.result # 0 => ref'.result # 0
  BY Grows
<1>3. completedBy \in Attempts \union {0} /\ 0 \notin Attempts
  BY JobResultsAssumption DEF TypeOK, Attempts
<1>4. ASSUME NEW a \in Attempts,
             \/ Begins(a) \/ Persists(a) \/ Announces(a) \/ Reads(a, "read", "write")
             \/ Merges(a, EventDetail(a), "write", "check") \/ Checks(a)
      PROVE  G
  <2>1. completedBy # a
    BY <1>4, <1>3 DEF Begins, Persists, Announces, Reads, Merges, Checks, Finished
  <2>2. /\ UNCHANGED <<kind, completedBy>>
        /\ \A b \in Attempts \ {a} : attempt'[b] = attempt[b]
    BY <1>4 DEF Begins, Persists, Announces, Reads, Merges, Checks, Moves, Quiet
  <2> QED
    BY <1>2, <1>3, <2>1, <2>2 DEF Finished
<1>5. ASSUME NEW a \in Attempts,
             Reads(a, "readAgain", "writeAgain") \/ Merges(a, resultRef(a), "writeAgain", "done")
      PROVE  G
  BY <1>2, <1>3, <1>5 DEF Reads, Merges, Moves, Quiet, Finished
<1>6. ASSUME NEW a \in Attempts, Completes(a) PROVE G
  <2>1. Found(a) /\ kind # "package" => ref.result # 0
    BY <1>6 DEF Completes, Kept, Closing
  <2> QED
    BY <1>2, <1>6, <2>1 DEF Completes, Moves, Quiet, Finished
<1>7. ASSUME NEW a \in Attempts, Logs(a) PROVE G
  <2>1. ASSUME Found(a), kind = "package" PROVE Results' # {}
    <3>1. TerminalDetail(a) \in Ref /\ TerminalDetail(a).result = a /\ a # 0
      BY <2>1, Written DEF TerminalDetail
    <3>2. events' = Append(events, TerminalDetail(a))
      BY <1>7 DEF Logs
    <3> HIDE DEF TerminalDetail
    <3>3. Len(events) + 1 \in DOMAIN events' /\ events'[Len(events) + 1].result # 0
      BY <3>1, <3>2, Appended
    <3> QED
      BY <3>3 DEF Results
  <2> QED
    BY <1>2, <1>3, <1>7, <2>1 DEF Logs, Moves, Finished
<1>8. ASSUME NEW a \in Attempts, Dies(a) PROVE G
  BY <1>2, <1>3, <1>8 DEF Dies, Moves, Quiet, Finished, Reporting
<1> QED
  BY <1>1, <1>4, <1>5, <1>6, <1>7, <1>8, Steps

(* Every step keeps: what is named has been persisted.                                        *)
LEMMA BackedStep ==
  ASSUME TypeOK, RefNamed, Sized, Kept, Backed, [Next]_vars
  PROVE  Backed'
<1> DEFINE G == Backed'
           Named(b) == \E i \in Results : events[i].result = b
           NamedNext(b) == \E i \in Results' : events'[i].result = b
<1>1. CASE Idles
  BY <1>1 DEF Idles, Backed, Results
<1>2. \A b : Named(b) => NamedNext(b)
  BY Grows
<1>3. NoRef.result = 0
  BY DEF NoRef
<1>4. \A b \in persisted : attempt[b].pc \in {"append", "dead"} \/ Named(b)
  BY DEF Backed
<1>5. persisted \subseteq Attempts
  BY DEF TypeOK
<1> HIDE DEF Named, NamedNext
<1>6. ASSUME UNCHANGED <<kind, events>>, persisted \subseteq persisted',
             persisted' # {} => kind = "candidates",
             kind = "candidates" =>
               /\ ref'.result \in persisted' \union {0}
               /\ \A a \in Attempts : /\ attempt'[a].seen.result \in persisted' \union {0}
                                      /\ attempt'[a].pc \in {"append", "read", "write"} => a \in persisted',
             \A b \in persisted' : attempt'[b].pc \in {"append", "dead"} \/ Named(b)
      PROVE  G
  BY <1>2, <1>6 DEF Backed, NamedNext
<1>7. ASSUME NEW a \in Attempts, Begins(a) PROVE G
  <2>1. /\ UNCHANGED <<kind, events, ref, persisted>> /\ attempt'[a].seen = attempt[a].seen
        /\ \A b \in Attempts \ {a} : attempt'[b] = attempt[b]
        /\ attempt[a].pc = "waiting"
        /\ attempt'[a].pc \in {"append", "read", "write"} => kind # "candidates"
    BY <1>7 DEF Begins, Quiet, Moves
  <2> QED
    BY <1>4, <1>5, <1>6, <2>1 DEF Backed
<1>8. ASSUME NEW a \in Attempts, Persists(a) PROVE G
  <2>1. kind = "candidates"
    BY <1>8 DEF Persists, Sized
  <2> QED
    BY <1>4, <1>5, <1>6, <1>8, <2>1 DEF Persists, Moves, Backed
<1>9. ASSUME NEW a \in Attempts, Reads(a, "read", "write") \/ Reads(a, "readAgain", "writeAgain") PROVE G
  BY <1>4, <1>5, <1>6, <1>9 DEF Reads, Quiet, Moves, Backed
<1>10. ASSUME NEW a \in Attempts,
              Merges(a, EventDetail(a), "write", "check") \/ Merges(a, resultRef(a), "writeAgain", "done")
       PROVE  G
  <2>1. Found(a) /\ attempt[a].seen \in Ref
    BY <1>10, Fields DEF Merges, Sized
  <2>2. \/ attempt[a].pc = "write" /\ ref'.result = a
        \/ ref'.result = IF kind = "package" THEN a ELSE attempt[a].seen.result
    BY <1>10, <2>1, Written DEF Merges
  <2>3. kind = "candidates" => ref'.result \in persisted \union {0}
    BY <2>2 DEF Backed
  <2> QED
    BY <1>3, <1>4, <1>5, <1>6, <1>10, <2>3 DEF Merges, Moves, Backed
<1>11. ASSUME NEW a \in Attempts, Checks(a) \/ Completes(a) \/ Dies(a) PROVE G
  <2>1. /\ UNCHANGED <<kind, events, ref, persisted>>
        /\ attempt'[a].seen \in {attempt[a].seen, NoRef}
        /\ \A b \in Attempts \ {a} : attempt'[b] = attempt[b]
        /\ attempt'[a].pc \in {"complete", "dead", "log"}
        /\ attempt'[a].pc = "dead" \/ attempt[a].pc \in {"check", "complete"}
    BY <1>11 DEF Checks, Completes, Dies, Quiet, Moves
  <2> QED
    BY <1>3, <1>4, <1>5, <1>6, <2>1 DEF Backed
<1>12. ASSUME NEW a \in Attempts, Announces(a) PROVE G
  <2>1. Found(a)
    BY <1>12 DEF Announces, Sized
  <2>2. EventDetail(a) \in Ref /\ EventDetail(a).result = a /\ a # 0
    BY <2>1, Written
  <2>3. events' = Append(events, EventDetail(a))
    BY <1>12 DEF Announces
  <2> HIDE DEF EventDetail
  <2> DEFINE n == Len(events) + 1
  <2>4. /\ DOMAIN events' = DOMAIN events \union {n} /\ events'[n].result = a
        /\ \A i \in DOMAIN events : events'[i] = events[i]
    <3>1. /\ Len(events) \in Nat
          /\ DOMAIN events = 1..Len(events) /\ DOMAIN events' = 1..(Len(events) + 1)
          /\ events'[Len(events) + 1].result = a
          /\ \A i \in DOMAIN events : events'[i] = events[i]
      BY <2>2, <2>3, Appended
    <3> QED
      BY <3>1
  <2> HIDE DEF n
  <2>5. NamedNext(a)
    BY <2>2, <2>4 DEF NamedNext, Results
  <2>6. \A b \in persisted' : attempt'[b].pc \in {"append", "dead"} \/ NamedNext(b)
    BY <1>2, <1>4, <1>5, <1>12, <2>5 DEF Announces, Moves
  <2>7. kind = "candidates" => \A i \in DOMAIN events' : events'[i].result \in persisted' \union {0}
    BY <1>12, <2>4 DEF Announces, Backed
  <2> QED
    BY <1>5, <1>12, <2>6, <2>7 DEF Announces, Moves, Backed, NamedNext
<1>13. ASSUME NEW a \in Attempts, Logs(a) PROVE G
  <2>1. TerminalDetail(a) \in Ref /\ (kind = "candidates" => TerminalDetail(a).result = 0)
    <3>1. CASE ~Found(a)
      BY <3>1 DEF TerminalDetail, resultRef, NoRef, Ref
    <3>2. CASE Found(a)
      BY <3>2, Written DEF TerminalDetail
    <3> QED
      BY <3>1, <3>2
  <2>2. events' = Append(events, TerminalDetail(a))
    BY <1>13 DEF Logs
  <2> HIDE DEF TerminalDetail
  <2>3. kind = "candidates" => \A i \in DOMAIN events' : events'[i].result \in persisted \union {0}
    <3> DEFINE n == Len(events) + 1
    <3>1. /\ Len(events) \in Nat
          /\ DOMAIN events = 1..Len(events) /\ DOMAIN events' = 1..(Len(events) + 1)
          /\ events'[Len(events) + 1] = TerminalDetail(a)
          /\ \A i \in DOMAIN events : events'[i] = events[i]
      BY <2>1, <2>2, Appended
    <3>2. DOMAIN events' = DOMAIN events \union {n}
      BY <3>1
    <3> HIDE DEF n
    <3>3. events'[n] = TerminalDetail(a) /\ \A i \in DOMAIN events : events'[i] = events[i]
      BY <3>1 DEF n
    <3> QED
      BY <2>1, <3>2, <3>3 DEF Backed
  <2>4. \A b \in persisted' : attempt'[b].pc \in {"append", "dead"} \/ NamedNext(b)
    BY <1>2, <1>4, <1>5, <1>13 DEF Logs, Moves
  <2> QED
    BY <1>5, <1>13, <2>3, <2>4 DEF Logs, Moves, Backed, NamedNext
<1> QED
  BY <1>1, <1>7, <1>8, <1>9, <1>10, <1>11, <1>12, <1>13, Steps

(* Every step keeps: without overlap, what an attempt has read is what the row holds.         *)
LEMMA SingleStep ==
  ASSUME TypeOK, Sized, Single, [Next]_vars
  PROVE  Single'
<1> USE DEF Found, HasResult
<1> SUFFICES ASSUME overlaps' = {}
             PROVE  /\ \A a, b \in InFlight' : a = b
                    /\ ref'.result # 0 => /\ ref'.result \in Attempts /\ attempt'[ref'.result].pc # "waiting"
                                          /\ ref'.count = attempt'[ref'.result].size
                    /\ \A a \in InFlight' :
                         /\ attempt'[a].pc \in {"write", "writeAgain"} => attempt'[a].seen = ref'
                         /\ kind' # "package" /\ Found(a)' /\ attempt'[a].pc \in Closing =>
                              ref'.result = a
  BY DEF Single, At
<1> DEFINE G == /\ \A a, b \in InFlight' : a = b
                /\ ref'.result # 0 => /\ ref'.result \in Attempts /\ attempt'[ref'.result].pc # "waiting"
                                      /\ ref'.count = attempt'[ref'.result].size
                /\ \A a \in InFlight' :
                     /\ attempt'[a].pc \in {"write", "writeAgain"} => attempt'[a].seen = ref'
                     /\ kind' # "package" /\ Found(a)' /\ attempt'[a].pc \in Closing =>
                          ref'.result = a
<1>1. \A b \in Attempts : ~At(b, "waiting") => attempt'[b].pc # "waiting" /\ attempt'[b].size = attempt[b].size
  BY Settled
<1>2. CASE Idles
  <2>1. UNCHANGED <<kind, ref, attempt, overlaps>> /\ InFlight' = InFlight
    BY <1>2 DEF Idles, InFlight
  <2> QED
    BY <2>1 DEF Single, At
<1>3. ASSUME NEW a \in Attempts, Begins(a) PROVE G
  <2>1. overlaps = {} /\ InFlight = {}
    BY <1>3 DEF Begins
  <2>2. \A b \in InFlight' : b = a
    BY <1>3, <2>1 DEF Begins, Moves, InFlight
  <2>3. /\ UNCHANGED <<kind, ref>> /\ attempt'[a].pc \notin {"write", "writeAgain"}
        /\ kind' # "package" /\ attempt'[a].pc \in Closing => ~Found(a)'
    BY <1>3 DEF Begins, Moves, Quiet, Closing
  <2> QED
    BY <1>1, <2>1, <2>2, <2>3 DEF Single
<1>4. ASSUME NEW a \in Attempts, attempt[a].pc \in Reporting, UNCHANGED <<kind, overlaps>>,
             \A b \in Attempts \ {a} : attempt'[b] = attempt[b]
      PROVE  overlaps = {} /\ \A b \in InFlight' : b = a
  BY <1>4 DEF Single, InFlight
<1>5. ASSUME NEW a \in Attempts, attempt[a].pc \in Reporting, UNCHANGED <<kind, ref, overlaps>>,
             \A b \in Attempts \ {a} : attempt'[b] = attempt[b],
             attempt'[a].pc \in {"write", "writeAgain"} => attempt'[a].seen = ref,
             attempt'[a].pc \in Closing => attempt[a].pc \in Closing
      PROVE  G
  <2>1. overlaps = {} /\ (\A b \in InFlight' : b = a) /\ a \in InFlight
    BY <1>4, <1>5 DEF InFlight
  <2>2. attempt'[a].size = attempt[a].size /\ (Found(a)' <=> Found(a))
    BY <1>5, Settled DEF At, Reporting
  <2> QED
    BY <1>1, <1>5, <2>1, <2>2 DEF Single
<1>6. ASSUME NEW a \in Attempts,
             \/ Persists(a) \/ Announces(a) \/ Reads(a, "read", "write") \/ Reads(a, "readAgain", "writeAgain")
             \/ Checks(a) \/ Completes(a) \/ Logs(a) \/ Dies(a)
      PROVE  G
  <2>1. /\ attempt[a].pc \in Reporting /\ UNCHANGED <<kind, ref, overlaps>>
        /\ \A b \in Attempts \ {a} : attempt'[b] = attempt[b]
        /\ attempt'[a].pc \in {"write", "writeAgain"} => attempt'[a].seen = ref
        /\ attempt'[a].pc \in Closing => attempt[a].pc \in Closing
    BY <1>6 DEF Persists, Announces, Reads, Checks, Completes, Logs, Dies, Quiet, Moves, Reporting, Closing
  <2> QED
    BY <1>5, <2>1
<1>7. ASSUME NEW a \in Attempts, Merges(a, EventDetail(a), "write", "check") PROVE G
  <2>1. Found(a) /\ attempt[a].seen \in Ref
    BY <1>7, Fields DEF Merges, Sized
  <2>2. ref'.result = a /\ ref'.count = attempt[a].size
    BY <1>7, <2>1, Written DEF Merges
  <2>3. \A b \in InFlight' : b = a
    BY <1>4, <1>7 DEF Merges, Moves, Reporting
  <2> QED
    BY <1>7, <2>1, <2>2, <2>3 DEF Merges, Moves
<1>8. ASSUME NEW a \in Attempts, Merges(a, resultRef(a), "writeAgain", "done") PROVE G
  <2>1. Found(a) /\ attempt[a].seen \in Ref
    BY <1>8, Fields DEF Merges, Sized
  <2>2. /\ ref'.result = IF kind = "package" THEN a ELSE attempt[a].seen.result
        /\ ref'.count = attempt[a].size
    BY <1>8, <2>1, Written DEF Merges
  <2>3. overlaps = {} /\ (\A b \in InFlight' : b = a) /\ a \in InFlight
    BY <1>4, <1>8 DEF Merges, Moves, Reporting, InFlight
  <2>4. ref'.result = a
    BY <1>8, <2>1, <2>2, <2>3 DEF Merges, Single, Closing
  <2>5. InFlight' = {}
    BY <1>8, <2>3 DEF Merges, Moves, InFlight, Reporting
  <2> QED
    BY <1>8, <2>2, <2>4, <2>5 DEF Merges, Moves
<1> HIDE DEF G
<1>9. G
  BY <1>2, <1>3, <1>6, <1>7, <1>8, Steps DEF G
<1> QED
  BY <1>9 DEF G

-----------------------------------------------------------------------------
(* What GetJob shows: the reference, or a result of the events. *)
LEMMA Shown ==
  ASSUME RefNamed, Peak
  PROVE  \/ ref.result # 0 /\ GetJob = ref
         \/ ref.result = 0 /\ Results = {} /\ GetJob.result = 0
         \/ ref.result = 0 /\ \E i \in Results : GetJob.result = events[i].result
<1>1. CASE ref # NoRef
  BY <1>1 DEF GetJob, RefNamed
<1>2. CASE ref = NoRef
  <2>1. ref.result = 0 /\ GetJob = extractResultRef
    BY <1>2 DEF NoRef, GetJob
  <2>2. extractResultRef.result = (IF Results = {} THEN 0 ELSE events[Newest(Results)].result)
    BY DEF extractResultRef, Results
  <2>3. Results # {} => Newest(Results) \in Results
    BY DEF Peak, Newest
  <2> QED
    BY <2>1, <2>2, <2>3
<1> QED
  BY <1>1, <1>2

(* The newest of the events that name a result has its count, unless that is 0. *)
LEMMA ShownCount ==
  ASSUME TypeOK, CountsNamed, Peak, ref = NoRef, GetJob.result # 0
  PROVE  \E i \in Results : /\ GetJob.result = events[i].result
                            /\ GetJob.count = events[i].count \/ events[i].count = 0
<1> DEFINE Counts == {i \in DOMAIN events : events[i].count # 0}
           n == Newest(Results)
           m == Newest(Counts)
<1>1. GetJob = extractResultRef
  BY DEF GetJob
<1>2. Counts \subseteq Results /\ Results \subseteq Nat
  <2>1. events \in Seq(Ref)
    BY DEF TypeOK
  <2> QED
    BY <2>1 DEF CountsNamed, Results
<1>3. /\ extractResultRef.count = (IF Counts = {} THEN 0 ELSE events[m].count)
      /\ extractResultRef.result = (IF Results = {} THEN 0 ELSE events[n].result)
  BY DEF extractResultRef, Results
<1>4. n \in Results /\ (\A j \in Results : j <= n) /\ GetJob.result = events[n].result
  BY <1>1, <1>3 DEF Peak, Newest
<1>5. ASSUME events[n].count # 0 PROVE Counts # {} /\ m = n
  <2>1. n \in Counts /\ \A j \in Counts : j <= n
    BY <1>2, <1>4, <1>5 DEF Results
  <2>2. m \in Counts /\ n <= m
    BY <2>1 DEF Newest
  <2> HIDE DEF Counts, n, m
  <2>3. m <= n /\ m \in Nat /\ n \in Nat
    BY <1>2, <2>1, <2>2
  <2> QED
    BY <2>1, <2>2, <2>3
<1> HIDE DEF Counts, n, m
<1>6. GetJob.count = events[n].count \/ events[n].count = 0
  BY <1>1, <1>3, <1>5
<1> QED
  BY <1>4, <1>6

(* The invariant holds in the first state.                                                    *)
LEMMA Initial ==
  ASSUME Init PROVE IInv
<1> DEFINE first == [pc |-> "waiting", died |-> "", size |-> 0, ok |-> FALSE, seen |-> NoRef]
<1>1. NoRef \in Ref /\ NoRef.result = 0
  BY DEF NoRef, Ref
<1>2. /\ first \in Attempt /\ first.pc = "waiting" /\ first.size = 0 /\ first.ok = FALSE /\ first.seen = NoRef
  BY <1>1 DEF Attempt
<1>3. attempt = [a \in Attempts |-> first]
  BY DEF Init
<1> HIDE DEF first
<1>4. attempt \in [Attempts -> Attempt] /\ \A a \in Attempts : attempt[a] = first
  BY <1>2, <1>3
<1>5. /\ kind \in Kinds /\ status = Running /\ ref = NoRef /\ persisted = {} /\ failures = 0
      /\ completedBy = 0 /\ overlaps = {}
  BY DEF Init
<1>6. events \in Seq(Ref) /\ DOMAIN events = {}
  <2>1. events = <<>>
    BY DEF Init
  <2> QED
    BY <2>1
<1>7. TypeOK
  BY <1>1, <1>4, <1>5, <1>6 DEF TypeOK
<1>8. InFlight = {}
  BY <1>2, <1>4 DEF InFlight, Reporting
<1> QED
  BY <1>1, <1>2, <1>4, <1>5, <1>6, <1>7, <1>8
  DEF IInv, RefNamed, Sized, Kept, EventsMatch, CountsNamed, Peak, Results, Finished, Backed, Single, Closing,
      Found, HasResult

(* The invariant is inductive.                                                                *)
LEMMA Inductive ==
  ASSUME IInv, [Next]_vars PROVE IInv'
BY TypeStep, NamedStep, EventsStep, FinishedStep, BackedStep, SingleStep DEF IInv

(* The invariant holds in every reachable state.                                              *)
LEMMA IInvHolds ==
  Spec => []IInv
BY Initial, Inductive, PTL DEF Spec

(* Type correctness: every value the reports, the merges and the sweeper write is of the type *)
(* its column has, whatever a handler found.                                                  *)
THEOREM TypeCorrect ==
  Spec => []TypeOK
<1>1. IInv => TypeOK
  BY DEF IInv
<1> QED
  BY <1>1, IInvHolds, PTL

(* ReportEvent, StoreResultRef and GetJob: once an event has named a result the job names     *)
(* one for ever, for any number of attempts whose reads and writes of the reference overlap.  *)
THEOREM ResultStaysNamedHolds ==
  Spec => []ResultStaysNamed
<1>1. IInv => ResultStaysNamed
  <2> SUFFICES ASSUME IInv, Results # {} PROVE GetJob.result # 0
    BY DEF ResultStaysNamed, Results
  <2> QED
    BY Shown DEF IInv, Results
<1> QED
  BY <1>1, IInvHolds, PTL

(* ReportTerminal: a job that was completed with a result names one, but for a package whose  *)
(* report is between Complete and its event or was cut short there.                           *)
THEOREM CompletedNamesResultHolds ==
  Spec => []CompletedNamesResult
<1>1. IInv => CompletedNamesResult
  <2> SUFFICES ASSUME IInv, completedBy # 0, Found(completedBy), GetJob.result = 0
               PROVE  kind = "package" /\ \/ At(completedBy, "log")
                                          \/ attempt[completedBy].died = "log"
    BY DEF CompletedNamesResult
  <2>1. ref.result = 0 /\ Results = {}
    BY Shown DEF IInv, Results
  <2> QED
    BY <2>1 DEF IInv, Finished, At
<1> QED
  BY <1>1, IInvHolds, PTL

(* mergeResultRefs and extractResultRef: as long as no two attempts report at the same time,  *)
(* the count a job shows is of the attempt whose result it shows, but for a cleaning report   *)
(* that flags nothing and whose reference is not in the row.                                  *)
THEOREM ResultOfOneAttemptHolds ==
  Spec => []ResultOfOneAttempt
<1>1. IInv => ResultOfOneAttempt
  <2> SUFFICES ASSUME IInv, overlaps = {}, GetJob.result # 0
               PROVE  \/ GetJob.count = attempt[GetJob.result].size
                      \/ EmptyReportUnstored(GetJob.result)
    BY DEF ResultOfOneAttempt
  <2>1. CASE ref.result # 0 /\ GetJob = ref
    BY <2>1 DEF IInv, Single
  <2>2. CASE ref = NoRef
    <3>1. PICK i \in Results : /\ GetJob.result = events[i].result
                               /\ GetJob.count = events[i].count \/ events[i].count = 0
      BY <2>2, ShownCount DEF IInv
    <3>2. events[i].count = attempt[events[i].result].size /\ Found(events[i].result)
      BY DEF IInv, EventsMatch, Results
    <3>3. CASE events[i].count # 0
      BY <3>1, <3>2, <3>3
    <3>4. CASE events[i].count = 0
      <4>1. attempt[GetJob.result].size = 0
        BY <3>1, <3>2, <3>4
      <4>2. kind = "cleaning"
        BY <3>2, <3>4 DEF Found, HasResult
      <4> QED
        BY <2>2, <4>1, <4>2 DEF EmptyReportUnstored
    <3> QED
      BY <3>3, <3>4
  <2>3. ref # NoRef => ref.result # 0 /\ GetJob = ref
    BY DEF IInv, RefNamed, GetJob
  <2> QED
    BY <2>1, <2>2, <2>3
<1> QED
  BY <1>1, IInvHolds, PTL

(***************************************************************************)
(* A job of candidates names what has been persisted: the row and the      *)
(* events name nothing else.                                               *)
(***************************************************************************)
LEMMA ShownIsPersisted ==
  IInv => NamedIsPersisted
<1> SUFFICES ASSUME IInv, kind = "candidates", GetJob.result # 0 PROVE GetJob.result \in persisted
  BY DEF NamedIsPersisted
<1>1. CASE ref.result # 0 /\ GetJob = ref
  BY <1>1 DEF IInv, Backed
<1>2. CASE \E i \in Results : GetJob.result = events[i].result
  BY <1>2 DEF IInv, Backed, Results
<1> QED
  BY <1>1, <1>2, Shown DEF IInv

(***************************************************************************)
(* Candidates that nothing names are of an attempt that is still reporting *)
(* or was cut short, or of a job that was run again and proposed others:   *)
(* once an attempt's event is in the table the job names a result, and     *)
(* that one is persisted.                                                  *)
(***************************************************************************)
LEMMA StraysExplained == IInv => StrayOnlyByRetry
<1> SUFFICES ASSUME IInv, NEW a \in persisted, attempt[a].pc \notin {"append", "dead"}, GetJob.result # a
             PROVE  \E b \in persisted : b # a
  BY DEF StrayOnlyByRetry
<1>1. kind = "candidates" /\ Results # {}
  BY DEF IInv, Backed
<1>2. GetJob.result # 0
  BY <1>1, Shown DEF IInv, Results
<1>3. GetJob.result \in persisted
  BY <1>1, <1>2, ShownIsPersisted DEF NamedIsPersisted
<1> QED
  BY <1>3

(***************************************************************************)
(* persistReviewCandidates: what a job of candidates names has been        *)
(* persisted, and candidates no job names are of an attempt under way or   *)
(* cut short, or of a job that was run again.                              *)
(***************************************************************************)
THEOREM CandidatesMatchJobHolds == Spec => []CandidatesMatchJob
<1>1. IInv => CandidatesMatchJob
  BY ShownIsPersisted, StraysExplained DEF CandidatesMatchJob
<1> QED
  BY <1>1, IInvHolds, PTL

=============================================================================
