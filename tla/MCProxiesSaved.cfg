SPECIFICATION FairSpec
CONSTANTS
    Addrs = {a1, a2}
    Nobody = Nobody
    Environments <- SomeEnvironments
    Updates = {u1, u2}
    Visitors = {v1}
    Headers <- SomeHeaders
    CancelledSaves = FALSE
    MaxLists = 1
    MaxHops = 1
INVARIANTS
    SavedIsEffective
