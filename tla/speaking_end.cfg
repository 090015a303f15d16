SPECIFICATION Spec
CONSTANTS
    MaxTurns = 1
    Words = 1
    MaxMics = 1
    MaxFaults = 0
INVARIANTS
    EndedStaysEnded
CHECK_DEADLOCK FALSE
