SPECIFICATION FairSpec
CONSTANTS
    Sockets = {w1}
    Clients = {h1}
    MaxStarts = 2
    MaxTurns = 1
    MaxFaults = 1
INVARIANTS
    TypeOK
    EndedOnceUnlessRaced
    EndedForReal
    NothingAfterEnd
PROPERTIES
    DisconnectClosesOut
    DisconnectEnds
CHECK_DEADLOCK FALSE
