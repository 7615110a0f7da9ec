---------------------------- MODULE MCJobResults ----------------------------
(***************************************************************************)
(* Instances of JobResults for TLC.                                        *)
(***************************************************************************)
EXTENDS JobResults

=============================================================================
