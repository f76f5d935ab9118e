SPECIFICATION FairSpec
CONSTANTS
    c1 = c1
    c2 = c2
    own = own
    shared = shared
    w1 = w1
    w2 = w2
    w3 = w3
    Clients = {c1, c2}
    Paths = {own, shared}
    Writes = {w1, w2, w3}
    Values = {w1, w2, w3}
    Callers = {w1, w2, w3}
    By <- ByMC
    At <- AtMC
    Watch <- WatchMC
    Absent = Absent
    Nobody = Nobody
    MaxFaults <- DropAndCrash
CHECK_DEADLOCK FALSE
INVARIANTS
    LastWriteWins
    AcknowledgedIsDurable
PROPERTIES
    OwnViewMovesForward
    EventuallyAgrees
