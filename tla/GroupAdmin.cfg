SPECIFICATION FairSpec
CONSTANTS
    Group = {g1, g2}
    Member = {m1, m2}
    Op = {1, 2, 3}
    Nothing = Nothing
    g1 = g1
    g2 = g2
    m1 = m1
    m2 = m2
    Rosters <- MCRosters
    Bounds <- MCBounds
INVARIANTS PageFollows UndoneIsNotSent
PROPERTIES TombstonesSettle
CHECK_DEADLOCK FALSE
