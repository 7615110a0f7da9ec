--------------------------- MODULE MCWorkerFleet ---------------------------
(***************************************************************************)
(* Instances of WorkerFleet for TLC: w2 handles every job, w1 only j1, so  *)
(* that w1 has to put j2 back.                                             *)
(***************************************************************************)
EXTENDS WorkerFleet

CONSTANTS j1, j2, w1, w2

AllAccepts == [w \in {w1, w2} |-> IF w = w1 THEN {j1} ELSE {j1, j2}]

OneJobAccepts == [w \in {w1, w2} |-> {j1}]
=============================================================================
