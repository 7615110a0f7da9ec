------------------------- MODULE MCJobControlPlane -------------------------
(***************************************************************************)
(* Instances of JobControlPlane for TLC.  Workers and request slots are    *)
(* interchangeable.                                                        *)
(***************************************************************************)
EXTENDS JobControlPlane, TLC

Symmetry == Permutations(Workers) \union Permutations(Requests)

=============================================================================
