\* Any two commands, in any interleaving; and the store's file.
\*
\* With Includes <- MCOddIncludes, MaxBorn = 2 and MaxRestores = 2 these do not
\* hold: NothingIsLost, ExportIsFull, OpenSucceeds, UnfinishedIsRefused,
\* RestoredWhoeverLooks, PromptsPointHome and the property DefaultsOverwriteNothing.
SPECIFICATION MCSpec
CONSTANTS
    c1 = c1
    c2 = c2
    c3 = c3
    Cmd = {c1, c2}
    Shipped = "safe-default"
    Named = {"team", "team-2"}
    FullUser = "full-user"
    Row = {"r1"}
    Kinds <- AllKinds
    Parts = {"profiles", "store"}
    Openers = {"proxy", "other"}
    Proxy = "proxy"
    Columns = {"source"}
    Includes <- MCIncludes
    MaxBorn = 1
    MaxCrashes = 1
    MaxOpens = 3
    MaxRestores = 1
SYMMETRY CmdSymmetry
INVARIANTS OrgRulesAreTheirs AnswerWasApplied  OpenedIsCurrent RestoredIsBackup
CHECK_DEADLOCK FALSE
