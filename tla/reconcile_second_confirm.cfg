\* Two confirms of the same rows with an auto-match between them.
CONSTANTS
    Expenses = {e1}
    Lines = {l1}
    Confirms = {c1, c2}
    Autos = {a1}
    ReplyFirst = TRUE
    NONE = NONE
SPECIFICATION Spec
INVARIANTS
    SecondConfirmRefused
