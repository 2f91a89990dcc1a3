---------------------------- MODULE MCIdempotency ----------------------------
(***************************************************************************)
(* Small instances of Idempotency: three requests are a first call, its    *)
(* retry, and either a second retry or a reuse of the key with another     *)
(* body.                                                                   *)
(***************************************************************************)
EXTENDS Idempotency, TLC

Symmetry == Permutations(Requests) \cup Permutations(Bodies)
=============================================================================
