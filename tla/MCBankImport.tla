---------------------------- MODULE MCBankImport ----------------------------
(***************************************************************************)
(* Small instances of BankImport: statements that overlap in one id or in  *)
(* both, in either order, that repeat an id, that have rows without an id, *)
(* and rows the column refuses.                                            *)
(***************************************************************************)
EXTENDS BankImport

CONSTANTS id1, id2

Fits(id) == [id |-> id, wide |-> FALSE]
Wide(id) == [id |-> id, wide |-> TRUE]

Statements ==
    {<<Fits(id1), Fits(id2)>>,
     <<Fits(id2), Fits(id1), Wide(id2)>>,
     <<Fits(id1), Fits(NONE), Fits(id1)>>,
     <<Fits(id2), Wide(NONE)>>,
     <<Fits(id1), Wide(id2)>>}
=============================================================================
