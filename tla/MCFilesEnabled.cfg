SPECIFICATION Spec
CONSTANTS
    None = None
    Contents = {c1}
    Paths = {p1}
    Texts = {}
    Requests = {r1, r2}
    MaxFiles = 1
    MaxSubs = 1
    MaxRevision = 1
INVARIANTS
    EnabledHasFile
