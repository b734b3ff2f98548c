SPECIFICATION Spec
CONSTANTS
    StId = {1, 2, 3, 4, 5}
    Email = {e1, e2, e3}
    Discord = {d1}
    NoDiscord = NoDiscord
    Body = {b1}
    Row = {1, 2, 3, 4, 5}
    NoRow = NoRow
    NoMember = NoMember
    Puller = {p1}
    Periodic = {}
    NoPuller = NoPuller
    NoPull = NoPull
    NoView = NoView
    Rosters <- MCRostersFold
    Starts <- MCStarts
    LapseFuseFloor = 1
    LapseFuseDivisor = 10
    PullAttempts = 3
    DryRuns = {FALSE}
    Bounds <- BoundsTwo
    e1 = e1
    e2 = e2
    e3 = e3
    d1 = d1
    b1 = b1
PROPERTIES FoldLosesNothing
CHECK_DEADLOCK FALSE
