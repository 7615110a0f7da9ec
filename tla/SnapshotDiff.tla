----------------------------- MODULE SnapshotDiff -----------------------------
(***************************************************************************)
(* internal/versioning: the difference of two lists of boxes, which are    *)
(* given in the request or are the effective annotations of two snapshots. *)
(*                                                                         *)
(* Equal boxes are paired first.  Each box that is left over then claims   *)
(* the free box it overlaps most; that is an update if the overlap reaches *)
(* the threshold, and otherwise the box was removed.  What nobody claimed  *)
(* was added.  Boxes are compared within their group, the item and the     *)
(* category; groups do not touch each other, so their order is left out.   *)
(*                                                                         *)
(* Coordinates are integers and an overlap is a fraction, a pair of        *)
(* numerator and denominator.                                              *)
(***************************************************************************)
EXTENDS Integers, Sequences, FiniteSets, Functions, FiniteSetsExt

CONSTANTS
  Lists,       \* lists of boxes that are sent in a request
  Rows,        \* rows of the table annotations
  Tables,      \* contents of that table, in the order of the ids
  MaxRows,     \* bound: rows the table grows to while a request reads it
  Thresholds   \* values of iou_threshold, fractions

IsBox(b) == {b.x, b.y, b.w, b.h} \subseteq Int

IsListOfBoxes(l) ==
  /\ l \in Seq(Range(l))
  /\ \A b \in Range(l) : IsBox(b)

(***************************************************************************)
(* A row is a box with its dataset, the snapshots it was created and       *)
(* deleted at (0 if it is not deleted), its review status, and whether its *)
(* item and category are known to the export of its dataset.               *)
(***************************************************************************)
ASSUME SnapshotDiffAssumption ==
  /\ \A l \in Lists : IsListOfBoxes(l)
  /\ \A r \in Rows : IsBox(r) /\ r.snapshot \in Nat /\ r.deleted \in Nat
  /\ Tables \subseteq Seq(Rows)
  /\ MaxRows \in Nat
  /\ \A t \in Thresholds : t \in Int \X Int /\ t[2] > 0

VARIABLES
  diffPc,      \* the query or the loop the diff is at
  before,      \* the two lists
  after,
  threshold,
  asked,       \* the snapshots the lists are read of, a set of at most one pair
  table,       \* the rows they are read from
  seen,        \* how many of them there were at the first query
  exact,       \* pairs of equal boxes, by their places in the lists
  updates,     \* pairs of overlapping boxes
  removes,     \* places in before
  adds         \* places in after

diffVars == <<diffPc, before, after, threshold, asked, table, seen, exact, updates, removes, adds>>

DiffIdle ==
  /\ diffPc = "idle"
  /\ before = <<>>
  /\ after = <<>>
  /\ threshold = <<0, 1>>
  /\ asked = {}
  /\ table = <<>>
  /\ seen = 0
  /\ exact = {}
  /\ updates = {}
  /\ removes = {}
  /\ adds = {}

-----------------------------------------------------------------------------
Lesser(a, b) == IF a < b THEN a ELSE b

Greater(a, b) == IF a < b THEN b ELSE a

LessThan(p, q) == p[1] * q[2] < q[1] * p[2]

Plus(p, q) == <<p[1] * q[2] + q[1] * p[2], p[2] * q[2]>>

(***************************************************************************)
(* bboxIOU: 0 for boxes that do not meet or have no area.                  *)
(***************************************************************************)
Overlap(a, aSize, b, bSize) == Greater(0, Lesser(a + aSize, b + bSize) - Greater(a, b))

bboxIOU(a, b) ==
  LET inter == Overlap(a.x, a.w, b.x, b.w) * Overlap(a.y, a.h, b.y, b.h)
      denom == a.w * a.h + b.w * b.h - inter
  IN IF inter = 0 \/ denom <= 0 THEN <<0, 1>> ELSE <<inter, denom>>

sameBBox(a, b) == a.x = b.x /\ a.y = b.y /\ a.w = b.w /\ a.h = b.h

SameGroup(a, b) == a.item = b.item /\ a.category = b.category

DefaultThreshold(t) == IF t[1] <= 0 THEN <<1, 2>> ELSE t

(***************************************************************************)
(* The two queries for the annotations of a snapshot.  The diff's takes    *)
(* verified rows, of whatever dataset; the export's takes the rows of its  *)
(* dataset, of whatever status, and fails if it comes across an item or a  *)
(* category it does not know.  The rows of an answer are in the order of   *)
(* their ids.                                                              *)
(***************************************************************************)
Rank(i, places) == Cardinality({j \in places : j <= i})

RowsAt(rows, places) ==
  [k \in 1..Cardinality(places) |-> rows[CHOOSE i \in places : Rank(i, places) = k]]

EffectiveAt(row, snapshot) ==
  row.snapshot <= snapshot /\ (row.deleted = 0 \/ row.deleted > snapshot)

Verified(row) == row.status = "verified"

WithDeleted(rows, snapshot) ==
  RowsAt(rows, {i \in DOMAIN rows : rows[i].snapshot <= snapshot /\ Verified(rows[i])})

ListEffectiveAnnotations(rows, snapshot) ==
  RowsAt(rows, {i \in DOMAIN rows : EffectiveAt(rows[i], snapshot) /\ Verified(rows[i])})

Exported(rows, dataset, snapshot) ==
  {i \in DOMAIN rows : rows[i].dataset = dataset /\ EffectiveAt(rows[i], snapshot)}

\* The list, if the export does not fail.
loadAnnotations(rows, dataset, snapshot) ==
  {RowsAt(rows, p) : p \in {q \in {Exported(rows, dataset, snapshot)} : \A i \in q : rows[i].known}}

(***************************************************************************)
(* A diff of the two lists in a request, and one of two snapshots, whose   *)
(* lists are read one after the other and in no transaction: an import or  *)
(* an accepted candidate may add a row in between, of any snapshot.        *)
(***************************************************************************)
DiffSnapshots(b, a, t) ==
  /\ diffPc' = "exact"
  /\ before' = b
  /\ after' = a
  /\ threshold' = DefaultThreshold(t)
  /\ UNCHANGED <<asked, table, seen, exact, updates, removes, adds>>

DiffBySnapshotIDs(rows, from, to, t) ==
  /\ diffPc' = "second"
  /\ before' = ListEffectiveAnnotations(rows, from)
  /\ threshold' = DefaultThreshold(t)
  /\ asked' = {<<from, to>>}
  /\ table' = rows
  /\ seen' = Len(rows)
  /\ UNCHANGED <<after, exact, updates, removes, adds>>

RowIsAdded ==
  /\ diffPc = "second"
  /\ Len(table) < MaxRows
  /\ \E r \in Rows : table' = Append(table, r)
  /\ UNCHANGED <<diffPc, before, after, threshold, asked, seen, exact, updates, removes, adds>>

ListAfter ==
  /\ diffPc = "second"
  /\ \E s \in asked : after' = ListEffectiveAnnotations(table, s[2])
  /\ diffPc' = "exact"
  /\ UNCHANGED <<before, threshold, asked, table, seen, exact, updates, removes, adds>>

ListFails ==
  /\ diffPc \in {"idle", "second"}
  /\ diffPc' = "failed"
  /\ UNCHANGED <<before, after, threshold, asked, table, seen, exact, updates, removes, adds>>

(***************************************************************************)
(* The two loops over before, and the one over after.                      *)
(***************************************************************************)
Pairs == exact \union updates

BoxesLeft == DOMAIN before \ ({p[1] : p \in Pairs} \union removes)

Free == DOMAIN after \ {p[2] : p \in Pairs}

FreeIn(b) == {i \in Free : SameGroup(after[i], before[b])}

claimExactMatch(b) == {i \in FreeIn(b) : sameBBox(after[i], before[b])}

PairEqualBoxes ==
  LET left == {b \in BoxesLeft : claimExactMatch(b) # {}}
      b == Min(left)
  IN /\ diffPc = "exact"
     /\ IF left # {}
        THEN /\ exact' = exact \union {<<b, Min(claimExactMatch(b))>>}
             /\ UNCHANGED diffPc
        ELSE /\ diffPc' = "updates"
             /\ UNCHANGED exact
     /\ UNCHANGED <<before, after, threshold, asked, table, seen, updates, removes, adds>>

BestOf(b, S) ==
  {i \in S : /\ bboxIOU(before[b], after[i])[1] > 0
             /\ \A j \in S : ~LessThan(bboxIOU(before[b], after[i]), bboxIOU(before[b], after[j]))}

Strictly(p, q) == LessThan(q, p)

AtLeast(p, q) == ~LessThan(p, q)

ClassifyBox ==
  LET b == Min(BoxesLeft)
      best == BestOf(b, FreeIn(b))
  IN /\ diffPc = "updates"
     /\ BoxesLeft # {}
     /\ IF best # {} /\ AtLeast(bboxIOU(before[b], after[Min(best)]), threshold)
        THEN /\ updates' = updates \union {<<b, Min(best)>>}
             /\ UNCHANGED removes
        ELSE /\ removes' = removes \union {b}
             /\ UNCHANGED updates
     /\ UNCHANGED <<diffPc, before, after, threshold, asked, table, seen, exact, adds>>

AddRest ==
  /\ diffPc = "updates"
  /\ BoxesLeft = {}
  /\ adds' = Free
  /\ diffPc' = "done"
  /\ UNCHANGED <<before, after, threshold, asked, table, seen, exact, updates, removes>>

DiffNext ==
  \/ /\ DiffIdle
     /\ \E t \in Thresholds :
          \/ \E b, a \in Lists : DiffSnapshots(b, a, t)
          \/ \E rows \in Tables, from, to \in {r.snapshot : r \in Rows} :
               DiffBySnapshotIDs(rows, from, to, t)
  \/ RowIsAdded
  \/ ListAfter
  \/ ListFails
  \/ PairEqualBoxes
  \/ ClassifyBox
  \/ AddRest

DiffSpec == DiffIdle /\ [][DiffNext]_diffVars

(***************************************************************************)
(* compatibilityScore: exact_matches is what the counts leave of the       *)
(* longer list, and may be negative before the score is clamped.           *)
(***************************************************************************)
Baseline == Greater(Greater(Len(before), Len(after)), 1)

exactMatches == Baseline - Cardinality(adds) - Cardinality(removes) - Cardinality(updates)

weightedSimilarity ==
  MapThenFoldSet(Plus, <<exactMatches, 1>>, LAMBDA p : bboxIOU(before[p[1]], after[p[2]]),
                 LAMBDA S : CHOOSE p \in S : TRUE, updates)

clamp01(q) == IF q[1] < 0 THEN <<0, 1>> ELSE IF q[1] > q[2] THEN <<1, 1>> ELSE q

compatibilityScore == clamp01(<<weightedSimilarity[1], weightedSimilarity[2] * Baseline>>)

-----------------------------------------------------------------------------
EveryBoxCounted ==
  /\ \A b \in DOMAIN before :
       Cardinality({p \in Pairs : p[1] = b}) = IF b \in removes THEN 0 ELSE 1
  /\ \A a \in DOMAIN after :
       Cardinality({p \in Pairs : p[2] = a}) = IF a \in adds THEN 0 ELSE 1
  /\ Cardinality(adds) - Cardinality(removes) = Len(after) - Len(before)

NothingLeftToPair ==
  \A b \in removes, a \in adds :
    SameGroup(before[b], after[a]) =>
      /\ ~sameBBox(before[b], after[a])
      /\ LessThan(bboxIOU(before[b], after[a]), threshold)

ScoreOneOnlyForEqual ==
  (compatibilityScore[1] = compatibilityScore[2]) <=> (adds = {} /\ removes = {} /\ updates = {})

(***************************************************************************)
(* DiffSnapshots: every box of either list is told of exactly once, so the *)
(* box delta of the counts is the difference of the lengths; no removed    *)
(* box could have been paired with an added one of its group, neither as   *)
(* the same box nor as an update, although the choice is greedy; and       *)
(* compatibilityScore is 1 for equal lists and no others (for the exact    *)
(* sum: a float64 sum also rounds an overlap within 2^-53 of 1 to 1).      *)
(***************************************************************************)
DiffIsFaithful ==
  diffPc = "done" => EveryBoxCounted /\ NothingLeftToPair /\ ScoreOneOnlyForEqual

Alike(a, b) == SameGroup(a, b) /\ sameBBox(a, b)

Count(list, box) == Cardinality({i \in DOMAIN list : Alike(list[i], box)})

ToldMore(box) ==
  Cardinality({a \in adds : Alike(after[a], box)}) + Cardinality({p \in updates : Alike(after[p[2]], box)})

ToldLess(box) ==
  Cardinality({b \in removes : Alike(before[b], box)}) + Cardinality({p \in updates : Alike(before[p[1]], box)})

OnlyVerifiedOf(dataset, from, to) ==
  \A r \in Range(table) :
    EffectiveAt(r, from) # EffectiveAt(r, to) => r.dataset = dataset /\ Verified(r)

NoneAddedTo(snapshot) ==
  \A i \in DOMAIN table : i > seen => ~(EffectiveAt(table[i], snapshot) /\ Verified(table[i]))

(***************************************************************************)
(* DiffBySnapshotIDs, loadAnnotations: box by box, the diff of two         *)
(* snapshots tells of as many more or fewer as the export of the one has   *)
(* than the export of the other, in either order of the two and with rows  *)
(* deleted between them. It need not where the queries differ, that is if  *)
(* a row that only one of the snapshots has is of another dataset or not   *)
(* verified, or if a row of the first snapshot was added between the two   *)
(* queries of the diff.                                                    *)
(***************************************************************************)
DiffAgreesWithExport ==
  \A dataset \in {r.dataset : r \in Range(table)}, s \in asked :
    /\ diffPc = "done"
    /\ OnlyVerifiedOf(dataset, s[1], s[2])
    /\ NoneAddedTo(s[1])
    => \A old \in loadAnnotations(table, dataset, s[1]), new \in loadAnnotations(table, dataset, s[2]),
          box \in Range(table) :
         ToldMore(box) - ToldLess(box) = Count(new, box) - Count(old, box)

=============================================================================
