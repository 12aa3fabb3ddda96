--------------------------- MODULE MCTaskService ---------------------------
(***************************************************************************)
(* TaskService with one task and the RPCs that race for its row.            *)
(***************************************************************************)
EXTENDS TaskService, TLC

\* RPCs in flight are told apart by what they do only.
Symmetry == Permutations(Callers)

=============================================================================
