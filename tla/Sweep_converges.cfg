SPECIFICATION FairSpec
CONSTANTS
    m1 = m1
    m2 = m2
    Member = {m1, m2}
    Address = {1, 2, 3}
    Gmail = {1}
    Example = {}
    NoAddress = NoAddress
    RemovalFuseFloor = 5
    RemovalFuseDivisor = 10
    Group = {1}
    Labelled = {1}
    RetriesPerRun = 1
    RefusalFuseCeiling = 3
    Audiences <- MCAudiencesOne
    Rows <- MCRows
    Listings <- MCListingsOne
    Verdicts <- MCVerdictsOne
    Bounds <- BoundsConverges
PROPERTIES
    EventuallyConverged
