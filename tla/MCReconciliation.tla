-------------------------- MODULE MCReconciliation --------------------------
(***************************************************************************)
(* Small instances of Reconciliation: two expenses and two bank lines, so  *)
(* that requests can meet on both rows, on one, or on none.                *)
(***************************************************************************)
EXTENDS Reconciliation, TLC

Symmetry == Permutations(Expenses) \cup Permutations(Lines)
              \cup Permutations(Confirms) \cup Permutations(Autos)
=============================================================================
