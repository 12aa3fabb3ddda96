----------------------------- MODULE MCSurface -----------------------------
(***************************************************************************)
(* Surface with two tenants that call at the same time, one row of each      *)
(* table, and every id known to both.                                        *)
(***************************************************************************)
EXTENDS Surface, TLC

Symmetry == Permutations(Tenants) \cup Permutations(Callers)
=============================================================================
