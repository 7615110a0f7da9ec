--------------------------- MODULE MCPublishGate ---------------------------
(***************************************************************************)
(* Instances of PublishGate for TLC; request slots are interchangeable.    *)
(***************************************************************************)
EXTENDS PublishGate, TLC

Symmetry == Permutations(Requests)
=============================================================================
