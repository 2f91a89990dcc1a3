------------------------------ MODULE Matching ------------------------------
(***************************************************************************)
(* What the reconciliation service promises its reviewers: expenses and    *)
(* bank lines are paired one to one, and a pair once confirmed stays.      *)
(* Reconciliation.tla is shown to implement this when every writer is a    *)
(* reviewer's confirm.                                                     *)
(***************************************************************************)
CONSTANTS Expenses, Lines

VARIABLE pairs        \* the confirmed <<expense, line>> pairs

Init == pairs = {}

\* A reviewer's confirmation takes an expense and a line that are both free.
Confirm(e, l) ==
    /\ \A p \in pairs : p[1] # e /\ p[2] # l
    /\ pairs' = pairs \cup {<<e, l>>}

Next == \E e \in Expenses, l \in Lines : Confirm(e, l)

Spec == Init /\ [][Next]_pairs
=============================================================================
