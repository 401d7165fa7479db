\* Two setters and two reload calls, one after the other, with edits, failed acks and
\* a restart at any time; every way to write the file of denies, and a caller of
\* the endpoint.
\*
\* With SPECIFICATION MCSpec, Setters = {cli}, Admins = {h1}, MaxEdits = 0, MaxRestarts =
\* 0 and MaxCount = 3 these do not hold: AppliedWasTried, LastSwitchHolds,
\* KeptRulesAlwaysHold, CountersMirror and the properties CatchesUpAlways and
\* CatchesUpOnCreation.
SPECIFICATION MCCalmSpec
CONSTANTS
    Kinds = {"profile", "denies"}
    Names = {"dev", "readonly"}
    Startup = "dev"
    Setters = {cli, mcp}
    Admins = {h1, h2}
    MaxSignals = 2
    MaxEdits = 2
    MaxRestarts = 1
    Rule = {"hour", "day"}
    Never = 9
    Expires <- MCExpires
    DenyAdmins = {"a1"}
    Writes <- AllWrites
    MaxChanges = 3
    MaxCount = 0
    MaxTime = 1
INVARIANTS  KeptRulesHold
PROPERTIES ReloadsSettle
CHECK_DEADLOCK FALSE
