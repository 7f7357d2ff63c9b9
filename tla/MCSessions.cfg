SPECIFICATION Spec
CONSTANTS
    Requests = {r1, r2, r3}
    Passwords = {p0, p1, p2}
    Initial = p0
    MaxTokens = 3
    MaxVersion = 3
SYMMETRY Symmetry
INVARIANTS
    TypeOK
    SessionsProvePassword
PROPERTIES
    RefusedStaysRefused
    SessionsEndForAReason
