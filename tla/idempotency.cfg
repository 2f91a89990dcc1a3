\* The response precedes the commit, as in the installed FastAPI, which may
\* still fail; so may Redis commands.
CONSTANTS
    Requests = {r1, r2, r3}
    Bodies = {b1, b2}
    ReplyFirst = TRUE
    NONE = NONE
SPECIFICATION Spec
SYMMETRY Symmetry
INVARIANTS
    TypeOK
    ReplaysMatchBody
    ShieldedRunOnce
PROPERTIES
    StoredAnswerStays
    ImplementsOnce
