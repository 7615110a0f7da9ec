---------------------- MODULE MCAnnotationWorkspace ----------------------
(* An instance for TLC: two pages, two requests in flight. *)
EXTENDS AnnotationWorkspace, TLC

Symmetry == Permutations(Editors) \cup Permutations(Requests)
==========================================================================
