SPECIFICATION FairSpec
CONSTANTS
    Sessions = {s1}
    NoSession = NoSession
    Calls = {c1, c2}
    MAX_CONTEXT_TURNS = 1
    MaxPushed <- MCWords
    MaxFaults = 1
PROPERTIES
    ImplementsArchive
    RequestedIsArchived
CHECK_DEADLOCK FALSE
