SPECIFICATION FairSpec
CONSTANTS
    c1 = c1
    c2 = c2
    NoClient = NoClient
    Client = {c1, c2}
    Fd = {1, 2}
    NoFd = NoFd
    Reactors = 2
    Capacity = 1
    MaxBeats = 1
INVARIANTS
    TypeOK
    NobodyUnwatched
    ClosedIsForgotten
PROPERTIES
    FirstCloseIsOwn
    PendingIsAccepted
    GoneIsClosed
CHECK_DEADLOCK FALSE
