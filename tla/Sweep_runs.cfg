SPECIFICATION Spec
CONSTANTS
    m1 = m1
    m2 = m2
    Member = {m1, m2}
    Address = {1, 2, 3}
    Gmail = {1}
    Example = {}
    NoAddress = NoAddress
    RemovalFuseFloor = 1
    RemovalFuseDivisor = 10
    Group = {1, 2}
    Labelled = {1, 2}
    RetriesPerRun = 1
    RefusalFuseCeiling = 1
    Audiences <- MCAudiences
    Rows <- MCRowsTwo
    Listings <- MCListings
    Verdicts <- MCVerdicts
    Bounds <- BoundsRuns
INVARIANTS
    TypeOK
    RefusalMetOnce
    GoodAddressNotWrittenOff
    DesiredSinceRecheckKept
    RetryAllowance
    ArmedRunLearnsLittle
PROPERTIES
    EveryPlannedChangeReported
    GreenMeansMirrored
