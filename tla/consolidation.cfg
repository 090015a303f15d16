SPECIFICATION Spec
CONSTANTS
    Sessions = {s1}
    NoSession = NoSession
    Calls = {c1, c2}
    MAX_CONTEXT_TURNS = 1
    MaxPushed <- MCTurns
    MaxFaults = 1
SYMMETRY MCSymmetry
INVARIANTS
    TypeOK
    NothingTwice
    OneReading
    CompleteIsBacked
    NothingForgotten
CHECK_DEADLOCK FALSE
