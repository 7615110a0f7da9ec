-------------------------- MODULE MCSnapshotContent --------------------------
(***************************************************************************)
(* Instances of SnapshotContent: a list of two boxes of two objects, and   *)
(* the same boxes in the other order, one of them different below the      *)
(* sixth decimal, followed by one that repeats a box up to that decimal.   *)
(***************************************************************************)
EXTENDS SnapshotContent, TLC

Box(k, b) == [key |-> k, category |-> "car", box |-> b]

BothBoxes == <<Box("k1", 10), Box("k2", 10)>>

SwappedAndRepeated == <<Box("k2", 12), Box("k1", 10), Box("k1", 11)>>

Lists == {BothBoxes, SwappedAndRepeated}

Proposed == {<<Box("k1", 10)>>}

Perms == Permutations(Requests)

=============================================================================
