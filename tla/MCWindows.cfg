\* One starter, so that the checks before the inserts are never raced; ends,
\* expiry and requests race each other.
\*
\* With Starters = {start1, start2} and without SYMMETRY these INVARIANTs fail, one
\* at a time: OneOpenPause OneActivePerOwner BypassHasTimeLeft CloseNamesItsKind
\* StopReportIsTrue RefusalMeansRunning
SPECIFICATION WindowsSpec
CONSTANTS
    Starters = {start}
    Stoppers = {stop}
    Requests = {q1, q2}
    Durations = {1}
    MaxPauses = 2
    MaxTime = 2
    Enders = {end}
    TaskRequests = {q3}
    Owners = {"ana", "ben"}
    ProxyOwner = "ana"
    TaskDurations = {1, 2}
    MaxTasks = 2
    MaxTaskTime = 3
SYMMETRY Symmetry
INVARIANTS OneCurrentWindow GrantsPairWithCloses
PROPERTIES EndIsFinal
CHECK_DEADLOCK FALSE
