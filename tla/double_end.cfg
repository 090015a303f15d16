SPECIFICATION Spec
CONSTANTS
    Sockets = {w1}
    Clients = {h1}
    MaxStarts = 1
    MaxTurns = 1
    MaxFaults = 0
INVARIANT EndedOnce
CHECK_DEADLOCK FALSE
