SPECIFICATION FairSpec
CONSTANTS
    Base = 2
    Places = 1
    Seconds = {1, 3}
    Day = 1
    Retentions = {0, 1, 2}
    Default = 1
    PageSize = 1
    MaxLogs = 3
    Watched = {2}
INVARIANTS
    TypeOK
    NothingSkipped
    ListedByTime
PROPERTIES
    RemovedAsSaved
    ExpiredAreRemoved
