SPECIFICATION FairSpec
CONSTANTS
    u1 = u1
    u2 = u2
    Users = {u1, u2}
    Browsers = {b}
    None = None
    Types = {vocab}
    Optional = {vocab}
    Clock <- MCClock
    UnknownZone = UnknownZone
    ReminderTimes = {2}
    Starts <- MCStarts
    BatchSize = 1
    MaxAddress = 2
    MaxStimuli = 3
INVARIANTS
    TypeOK
    InStep
    NoticesOnce
    EveryoneReminded
PROPERTIES
    DeletionCompletes
CHECK_DEADLOCK FALSE
