SPECIFICATION Spec
CONSTANTS
    Sessions = {s1}
    Types = {tense, article}
    MaxEvents = 2
    MaxReads = 1
    MaxTroubles = 2
SYMMETRY MCSymmetry
INVARIANTS
    TypeOK
    CountedOnce
    CacheCurrent
    NothingLost
CHECK_DEADLOCK FALSE
