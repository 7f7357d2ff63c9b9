SPECIFICATION FairSpec
CONSTANTS
    None = None
    Contents = {c1}
    Paths = {p1}
    Texts = {}
    Requests = {r1, r2}
    MaxFiles = 2
    MaxSubs = 1
    MaxRevision = 1
PROPERTIES
    RequestsEnd
