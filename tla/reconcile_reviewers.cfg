\* Reviewers' confirms only, answered before the commit as the installed
\* FastAPI does.
CONSTANTS
    Expenses = {e1, e2}
    Lines = {l1, l2}
    Confirms = {c1, c2, c3}
    Autos = {}
    ReplyFirst = TRUE
    NONE = NONE
SPECIFICATION FairSpec
INVARIANTS
    MatchedIffLinked
    CommittedClaimsStand
    ToldClaimsStand
PROPERTIES
    ImplementsMatching
    EveryRequestEnds
