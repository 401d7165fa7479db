\* Two answerers on a burst of two prompts, and a late prompt; or the detector
\* with four prompts, a window, a cool-down and a restart.
\*
\* With Shapes = {"get pods", "get meta"}, Blank = {}, Floored = {"get pods"},
\* Threshold = 1, Cooldown = 3, MaxTime = 2, DetectorRequests = {d1},
\* DetectorTime = 1 and DetectorRestarts = 0 these do not hold: AnsweredIsCovered,
\* ShapesAreLegal, ResolutionTellsRules, LateBurstIsOffered.
SPECIFICATION MCSpec
CONSTANTS
    Requests = {r1, r2, r3}
    DetectorRequests = {d1, d2, d3, d4}
    Answerers = {cli, mcp}
    McpAnswerers = {mcp}
    Shapes = {"get pods", "get meta", "no verb"}
    Blank = {"no verb"}
    Malformed = {"get meta"}
    Floored = {"get meta"}
    Decisions = {"10min", "none"}
    Threshold = 2
    Window = 1
    Cooldown = 2
    MaxTime = 1
    MaxRestarts = 0
    DetectorTime = 4
    DetectorRestarts = 1
    Ttl <- MCTtl
SYMMETRY Symmetry
INVARIANTS SeenIsCovered BurstsAreApart
CHECK_DEADLOCK FALSE
