SPECIFICATION Spec
CONSTANTS
    Addresses = {a1}
    Attempts = {t1, t2, t3}
    Limit = 3
    Period = 3
    MaxTime = 12
SYMMETRY Symmetry
INVARIANTS
    TypeOK
    GuessesPerWindow
PROPERTIES
    OnlyOverlapsLiftLocks
