\* An auto-match that decides on what its suggestion phase read.
CONSTANTS
    Expenses = {e1, e2}
    Lines = {l1, l2}
    Confirms = {c1}
    Autos = {a1}
    ReplyFirst = TRUE
    NONE = NONE
SPECIFICATION Spec
INVARIANTS
    NoPaymentReconciledTwice
