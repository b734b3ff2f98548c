SPECIFICATION FairSpec
CONSTANTS
    User = {1, 2, 3, 4, 5}
    First <- MCFirst
    Leader = {2}
    Puller = {p1, p2}
    Periodic = {p1}
    NoListing = NoListing
    PageSize = 2
    RateLimitAttempts = 2
    Bounds <- MCBounds
INVARIANTS ErrsByTheShifts
PROPERTIES EventuallyRestored
CHECK_DEADLOCK FALSE
