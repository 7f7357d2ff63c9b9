SPECIFICATION FairSpec
CONSTANTS
    Requests = {r1, r2}
    Passwords = {p0, p1, p2}
    Initial = p0
    MaxTokens = 2
    MaxVersion = 3
PROPERTIES
    OnlyCurrentSessionsChange
