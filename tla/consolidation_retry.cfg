SPECIFICATION Spec
CONSTANTS
    Sessions = {s1}
    NoSession = NoSession
    Calls = {c1}
    MAX_CONTEXT_TURNS = 1
    MaxPushed <- MCOneEach
    MaxFaults = 1
INVARIANT RetryCompletes
CHECK_DEADLOCK FALSE
