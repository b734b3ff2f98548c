SPECIFICATION FairSpec
CONSTANTS
    Body = {1, 2, 3, 4}
    Address = {main, la, ea, lc, ec, x}
    Main = main
    NoAddress = NoAddress
    LeadersAddress <- MCLeaders
    EditorsAddress <- MCEditors
    Unnamable = {4}
    Cap = 2
    NoGroup = NoGroup
    HandLinks <- MCHandLinks
    Starts <- MCStarts
    Bounds <- MCBounds
    main = main
    la = la
    ea = ea
    lc = lc
    ec = ec
    x = x
INVARIANTS ArmedRunMintsWithinCap
PROPERTIES GreenMeansLinked InsecureLinkIsReported EventuallyLinked
