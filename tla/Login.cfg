SPECIFICATION Spec
CONSTANTS
    Visit = {1, 2, 3}
    Request = {r1, r2}
    Browser = {b1, b2}
    Member = {m1}
    Nothing = Nothing
    Rows <- MCRows
    Answers <- MCAnswers
    AuthRateLimit = 1
    Window = 2
    RateRetention = 2
    StateMaxAge = 2
    AssertionTTL = 1
    AbsoluteLifetime = 3
    IdleTimeout = 2
    MaxTime = 3
    Bounds <- MCBounds
SYMMETRY Browsers
INVARIANTS LandsWhereItBegan UncrossedLoginLands RateCap OutcomeAudited
PROPERTIES LoginImplementsAccess
CHECK_DEADLOCK FALSE
