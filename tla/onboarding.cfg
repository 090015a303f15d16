SPECIFICATION FairSpec
CONSTANTS
    Skills = {"listening", "reading"}
    Bank <- MCBank
    SelfLevels = {4}
    MaxCalls = 2
    MaxFaults = 2
INVARIANTS
    TypeOK
    PlacementSound
    NothingUnasked
    InStep
PROPERTIES
    PlanPageSettles
CHECK_DEADLOCK FALSE
