---------------------------- MODULE MCGroupChat ----------------------------
(***************************************************************************)
(* GroupChat on a small instance.  No symmetry set, as the run checks a      *)
(* liveness property; instead the first tool bears the first name at the     *)
(* start, which loses behaviours only that renaming the values gives back.   *)
(***************************************************************************)
EXTENDS GroupChat

CONSTANTS FirstTool, FirstName

MCInit == Init /\ tool[FirstTool].name = FirstName

MCSpec == MCInit /\ [][Next]_vars /\ Fairness
=============================================================================
