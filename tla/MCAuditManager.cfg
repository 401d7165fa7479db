\* Each channel, a queue and a buffer that overflow, two processes; the readers of a
\* table of four rows of which they are given at most three.
SPECIFICATION MCSpec
CONSTANTS
    WDepth = 1
    MaxAttempts = 2
    FailureLimit = 1
    StaleAfter = 1
    RDepth = 1
    Routes <- MCRoutes
    Class = {"api", "admin"}
    ClassOf <- MCClassOf
    FlushAt = 2
    MaxPending = 2
    Rotation = 1
    Session = {"s1", "s2"}
    SessionOf <- MCSessionOf
    NoSession = "none"
    MaxFiles = 4
    MaxEvents = 3
    MaxStarts = 2
    MaxTime = 2
    Channels <- OneByOne
    Parts = {"channels", "readers"}
    Request = {1, 2, 3, 4}
    KindOf <- MCKindOf
    ReaderTime = 2
    DefaultRows = 2
    MaxRows = 3
    FollowBatch = 2
    SeenCap = 2
    PageLimit = 2
    DenyFactor = 2
    EvidenceRows = 6
    Limits = {1, 3}
    Filters <- MCFilters
    Sinces = {0, 2}
    Readers = {"none", "tail", "page"}
INVARIANTS FailuresAreLocal  SkipsAreExcused ListingsAgree
PROPERTIES CloseEnds
CHECK_DEADLOCK FALSE
