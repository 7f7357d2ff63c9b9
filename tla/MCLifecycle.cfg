SPECIFICATION FairSpec
CONSTANTS
    c1 = c1
    c2 = c2
    p1 = p1
    p2 = p2
    t1 = t1
    Contents = {c1, c2}
    Paths = {p1, p2}
    Texts = {t1}
    OldDatabases <- Olds
    Visitors = {v1}
    MaxFetches = 3
    MaxRevision = 2
INVARIANTS
    LTypeOK
    CountsSurviveUpgrade
    SchemaInOrder
PROPERTIES
    StartEnds
    StopEnds
