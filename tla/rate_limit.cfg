\* Two processes, a limit of two in a window of two ticks.
CONSTANTS
    r1 = r1
    r2 = r2
    p1 = p1
    p2 = p2
    Requests = {r1, r2}
    Processes = {p1, p2}
    Serving <- Balanced
    Limit = 2
    Window = 2
    NONE = NONE
SPECIFICATION FairSpec
INVARIANTS
    TypeOK
    SharedLimit
    OutageCapped
    CounterHasTTL
PROPERTIES
    BlockedClientReturns
