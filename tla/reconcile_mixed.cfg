\* Reviewers' confirms and auto-matches together.
CONSTANTS
    Expenses = {e1, e2}
    Lines = {l1, l2}
    Confirms = {c1, c2}
    Autos = {a1, a2}
    ReplyFirst = TRUE
    NONE = NONE
SPECIFICATION Spec
SYMMETRY Symmetry
INVARIANTS
    TypeOK
    OneLinePerExpense
    ReviewersDecideOnFreshRows
    WaitChainsEnd
PROPERTIES
    OnlyAutoMovesALink
