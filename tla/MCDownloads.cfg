SPECIFICATION DSpec
CONSTANTS
    None = None
    Contents = {c1, c2}
    Paths = {p1, p2}
    Texts = {t1}
    Requests = {r1}
    Visitors = {v1}
    MaxFiles = 2
    MaxSubs = 2
    MaxRevision = 2
    MaxFetches = 2
SYMMETRY Symmetry
CONSTRAINT Slice
INVARIANTS
    DTypeOK
    CurrentCountExact
    CurrentFetchSucceeds
    CountersAgree
    NoDanglingRow
PROPERTIES
    SameFileKeepsCount
