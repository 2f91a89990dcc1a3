\* Three uploads of overlapping statements.
CONSTANTS
    Imports = {i1, i2, i3}
    id1 = id1
    id2 = id2
    Ids = {id1, id2}
    Files <- Statements
    Refused = {1}
    NONE = NONE
SPECIFICATION FairSpec
INVARIANTS
    TypeOK
    OneRowPerId
    NothingLost
    ReportIsTrue
PROPERTIES
    EveryImportEnds
