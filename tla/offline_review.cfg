SPECIFICATION FairSpec
CONSTANTS
    a = a
    b = b
    Cards <- MCCards
    TabFlushes = {t}
    Worker = w
    HasSync = TRUE
    MaxReviews = 2
    MaxRequests = 2
    MaxOpens = 2
    MaxFaults = 1
INVARIANTS
    TypeOK
    CountedOnce
    LeavesWhenHandled
    OrderKept
PROPERTIES
    Delivered
CHECK_DEADLOCK FALSE
