---------------------------- MODULE MCJobService ----------------------------
(***************************************************************************)
(* JobService on a small table: two jobs, two pollers.                      *)
(***************************************************************************)
EXTENDS JobService, TLC

\* The pods are interchangeable.  The jobs are not quite: `born` orders them,
\* but Init and every action treat them alike, so they may be permuted too.
Symmetry == Permutations(Pods) \cup Permutations(Jobs)

=============================================================================
