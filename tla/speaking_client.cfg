SPECIFICATION FairSpec
CONSTANTS
    MaxTurns = 2
    Words = 2
    MaxMics = 1
    MaxFaults = 1
INVARIANTS
    TypeOK
    OneTurnUnlessRefused
    AnswersFollowTurns
    MicOffUnlessLate
PROPERTIES
    ChatSettles
    WordsShown
CHECK_DEADLOCK FALSE
