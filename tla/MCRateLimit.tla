----------------------------- MODULE MCRateLimit -----------------------------
(***************************************************************************)
(* Small instances of RateLimit: a connection to each of two processes.    *)
(***************************************************************************)
EXTENDS RateLimit, TLC

CONSTANTS r1, r2, p1, p2

Balanced == r1 :> p1 @@ r2 :> p2
=============================================================================
