SPECIFICATION Spec
CONSTANTS
    StId = {1, 2, 3, 4, 5}
    Email = {e1, e2, e3}
    Discord = {d1}
    NoDiscord = NoDiscord
    Body = {b1}
    Row = {1, 2, 3, 4, 5}
    NoRow = NoRow
    NoMember = NoMember
    Puller = {p1, p2}
    Periodic = {}
    NoPuller = NoPuller
    NoPull = NoPull
    NoView = NoView
    Rosters <- MCRosters
    Starts <- MCStarts
    LapseFuseFloor = 1
    LapseFuseDivisor = 2
    PullAttempts = 3
    DryRuns = {FALSE, TRUE}
    Bounds <- BoundsSafety
    e1 = e1
    e2 = e2
    e3 = e3
    d1 = d1
    b1 = b1
PROPERTIES BansCarried ManualAddsCarried MassAbsenceHeldBack FoldsComplete StoredAsReported RosterKeepsStanding LeadersFollowRoster
CHECK_DEADLOCK FALSE
