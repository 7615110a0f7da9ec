--------------------------- MODULE MCServerParts ----------------------------
(***************************************************************************)
(* The parts of the server that need no other process to be checked: the   *)
(* repository without a database, the diff of two lists, the content of a  *)
(* package, the rate limiter and the retry delay.  They share no state; a  *)
(* behaviour runs one of them.                                             *)
(***************************************************************************)
EXTENDS InMemoryJobs, SnapshotDiff, PackageExport, RateLimit, RetryBackoff

CONSTANTS c1, c2

PartsInit == Init /\ DiffIdle /\ PackIdle /\ LimitIdle /\ BackoffIdle

PartsNext ==
  \/ /\ DiffIdle /\ PackIdle /\ LimitIdle /\ BackoffIdle
     /\ Next
     /\ UNCHANGED <<diffVars, packVars, limitVars, backoffVars>>
  \/ /\ Init /\ PackIdle /\ LimitIdle /\ BackoffIdle
     /\ DiffNext
     /\ UNCHANGED <<vars, packVars, limitVars, backoffVars>>
  \/ /\ Init /\ DiffIdle /\ LimitIdle /\ BackoffIdle
     /\ PackNext
     /\ UNCHANGED <<vars, diffVars, limitVars, backoffVars>>
  \/ /\ Init /\ DiffIdle /\ PackIdle /\ BackoffIdle
     /\ LimitNext
     /\ UNCHANGED <<vars, diffVars, packVars, backoffVars>>
  \/ /\ Init /\ DiffIdle /\ PackIdle /\ LimitIdle
     /\ BackoffNext
     /\ UNCHANGED <<vars, diffVars, packVars, limitVars>>

PartsSpec == PartsInit /\ [][PartsNext]_<<vars, diffVars, packVars, limitVars, backoffVars>>

-----------------------------------------------------------------------------
(***************************************************************************)
(* Two groups, and boxes that are equal, overlap by more or less than one  *)
(* half, or have no area.                                                  *)
(***************************************************************************)
Shapes == {<<0, 4>>, <<1, 4>>, <<2, 4>>, <<0, 0>>}

MCBoxes == {[item |-> 1, category |-> c, x |-> s[1], y |-> 0, w |-> s[2], h |-> 2] :
              c \in {1, 2}, s \in Shapes}

MCLists == UNION {[1..n -> MCBoxes] : n \in 0..2}
             \union [1..3 -> {b \in MCBoxes : b.category = 1 /\ b.w # 0}]

MCThresholds == {<<0, 1>>, <<1, 3>>}

(***************************************************************************)
(* Rows of two datasets and three snapshots: two boxes that overlap, one   *)
(* of them there only for a time; and one row that is not verified and one *)
(* the export does not know.                                               *)
(***************************************************************************)
RowOf(d, x, s, del) ==
  [dataset |-> d, item |-> d, category |-> 1, x |-> x, y |-> 0, w |-> 4, h |-> 2,
   snapshot |-> s, deleted |-> del, status |-> "verified", known |-> TRUE]

MCRows == {RowOf(1, x, s, 0) : x \in {0, 1}, s \in {1, 3}}
            \union {RowOf(1, 0, 1, 3), RowOf(1, 0, 1, 2), RowOf(2, 0, 2, 0),
                    [RowOf(1, 0, 2, 0) EXCEPT !.status = "pending"],
                    [RowOf(1, 0, 2, 0) EXCEPT !.known = FALSE]}

MCTables == UNION {[1..n -> MCRows] : n \in 0..2}

(***************************************************************************)
(* Base names that clash, with each other and with a made-up one.          *)
(***************************************************************************)
Dotted(words) == [i \in DOMAIN words |-> <<Word(words[i])>>]

MCKeys == {NoBase, Dotted(<<"a", "jpg">>), Dotted(<<"a", "png">>),
           <<<<Word("a"), Numeral(3)>>, <<Word("jpg")>>>>,
           <<<<Numeral(3)>>, <<Word("jpg")>>>>,
           Dotted(<<"", "jpg">>), Dotted(<<"", "png">>), Dotted(<<"", "jpg", "png">>),
           Dotted(<<"a", "b", "jpg">>), Dotted(<<"a", "c", "jpg">>)}

MCItemBoxes == {<<>>, <<"line">>}

(***************************************************************************)
(* Durations that are missing, small, or close to half and all of the      *)
(* largest one.                                                            *)
(***************************************************************************)
MCBases == {-3, 0, 1, 3, 5, 63, 64, 127}

MCMaxima == {-1, 0, 1, 6, 60, 64, 126, 127}
=============================================================================
