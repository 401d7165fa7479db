\* A process with two watchers and a request; a disk of six blocks.
SPECIFICATION ProcessSpec
CONSTANTS
    Request = {r1}
    Kind = {"rest", "watch", "upgrade", "probe"}
    Watcher = {"profile", "disk"}
    Capacity = 6
    DefaultWarn = 4
    DefaultCrit = 5
    DefaultEmergency = 6
    Stuck = {2}
    MaxArchives = 3
    WorldChanges = 2
    Parts = {"life", "disk", "alerts"}
    Requests = {q1, q2}
    Sources = {"else"}
    Threshold = 2
    Window = 1
    LongPause = 2
    MissedBeats = 2
    FailureLimit = 1
    StaleAfter = 2
    Depth = 2
    AlertTime = 2
    MaxLate = 2
INVARIANTS  DropsAreMeasured BurstsAreTold
PROPERTIES StopsInTime AnswerFollowsDisk 
CHECK_DEADLOCK FALSE
