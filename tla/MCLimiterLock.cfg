SPECIFICATION FairSpec
CONSTANTS
    Addresses = {a1}
    Attempts = {t1, t2}
    Limit = 2
    Period = 3
    MaxTime = 8
PROPERTIES
    FailuresKeepLocks
