\* Three events through a queue of one; one crash or one failing operation, or a
\* bundle made meanwhile.
SPECIFICATION MCSpec
CONSTANTS
    MaxEvents = 3
    Depth = 1
    MaxRows = 1
    SaveEvery = 2
    Interval = 2
    Seconds = 2
    MaxCli = 1
    MaxMishaps = 1
    Stem = "audit"
    Day = 1
    Asked = {1}
    MaxAge = 2
    LogSeconds = 1
    Parts = {"log", "commands"}
INVARIANTS WholeLog ReadersAreRight
PROPERTIES KeepsOrder EveryEventIsTaken
CHECK_DEADLOCK FALSE
