---------------------------- MODULE MCJobRunner ----------------------------
(***************************************************************************)
(* JobRunner on small numbers of pods, jobs and steps.                      *)
(***************************************************************************)
EXTENDS JobRunner, TLC

\* Pods are interchangeable: nothing but Stoppable tells them apart, and the
\* configurations that use the symmetry leave it empty or put all pods in it.
Symmetry == Permutations(Pods)

=============================================================================
