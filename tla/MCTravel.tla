------------------------------ MODULE MCTravel ------------------------------
(***************************************************************************)
(* Small instances of Travel.                                              *)
(***************************************************************************)
EXTENDS Travel, TLC

Symmetry == Permutations(Moves) \cup Permutations(Spends)
              \cup Permutations(Currencies)
=============================================================================
