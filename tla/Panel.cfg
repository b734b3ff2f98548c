SPECIFICATION FairSpec
CONSTANTS
    Address = {1, 2, 3, 4, 5}
    Gmail = {3, 4}
    Example = {5}
    NoAddress = NoAddress
    RemovalFuseFloor = 5
    RemovalFuseDivisor = 10
    Member = {1, 2}
    Request = {r1, r2}
    NoRequest = NoRequest
    NoSweep = NoSweep
    MailGroup = {g1, g2}
    NoGroup = NoGroup
    Takes = {1, 2, 3}
    Rows <- MCRows
    Starts <- MCStarts
    Bounds <- MCBounds
    g1 = g1
    g2 = g2
INVARIANTS TypeOK CommittedWritesRecorded PoolClosedLast UncrossedMirrorFollows
PROPERTIES LeaderRowsAreThePulls EventuallyMirrored
CHECK_DEADLOCK FALSE
