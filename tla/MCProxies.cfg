SPECIFICATION Spec
CONSTANTS
    Addrs = {a1, a2, a3}
    Nobody = Nobody
    Environments <- SomeEnvironments
    Updates = {u1}
    Visitors = {v1}
    Headers <- SomeHeaders
    CancelledSaves = TRUE
    MaxLists = 2
    MaxHops = 3
SYMMETRY Symmetry
INVARIANTS
    TypeOK
    ReportersWereTrusted
    SteadyListRule
