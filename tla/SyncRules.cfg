SPECIFICATION SampleSpec
CONSTANTS
    Address = {1, 2, 3, 4}
    Gmail = {1}
    Example = {3}
    NoAddress = NoAddress
    RemovalFuseFloor = 1
    RemovalFuseDivisor = 2
    Slots = {0, 1, 2}
INVARIANTS
    TargetIsPreferred
    PlanReachesFixpoint
    FuseRefusesMassRemoval
