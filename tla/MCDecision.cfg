\* One request, and changes anywhere while it is evaluated.
SPECIFICATION Spec
CONSTANTS
    Requests = {r1}
    Configs <- WithAnomaly
    Profiles <- FewProfiles
    MaxChanges = 2
INVARIANTS StandingDenyHolds StandingTaskNarrows TrailTellsAnswer
CHECK_DEADLOCK FALSE
