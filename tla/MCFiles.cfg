SPECIFICATION Spec
CONSTANTS
    None = None
    Contents = {c1, c2}
    Paths = {p1, p2}
    Texts = {t1}
    Requests = {r1, r2}
    MaxFiles = 2
    MaxSubs = 2
    MaxRevision = 1
SYMMETRY Symmetry
CONSTRAINT Slice
INVARIANTS
    TypeOK
    RowHasBlob
    UploadKeepsItsId
    NoStrayUpload
    RequestKeepsItsSubscription
PROPERTIES
    ImplementsLibrary
    NewFileNewRevision
    ReplaceAllOrNone
    OnlyTogglesEnableEmpty
