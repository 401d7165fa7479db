\* What requests teach the proxy, and what the detector makes of habits.
\*
\* With Requests <- MCMoreRequests, Profile <- MCOtherProfile, Declarations <-
\* MCMoreDeclarations, MaxActs = 4 and Habits <- MCMoreHabits these do not hold:
\* RemovedStaysRemoved, SuggestedUnblocks, AnswerEnforcedNext, DryRunIsNoStricter,
\* SavedNotBroader, DeclarationNarrows, PreviewIsVerdict, ReviewIsWhole,
\* GeneratedDenyHolds, QuietIsFine, ModesAgree and the properties ApplyIsComplete and
\* BaselineIsKept.
SPECIFICATION MCSpec
CONSTANTS
    AllVerbs <- MCAllVerbs
    Cluster = "here"
    Requests <- MCRequests
    Profile <- MCProfile
    DefaultAllow = FALSE
    Words <- MCWords
    Texts <- MCTexts
    Generated <- MCGenerated
    Declarations <- MCDeclarations
    Shorthands <- MCShorthands
    Presets <- MCPresets
    DenyFiles <- MCDenyFiles
    OperatorRules <- MCOperatorRules
    OperatorAllows <- MCOperatorAllows
    Family <- MCFamily
    MinSupport = 2
    MaxRows = 3
    MaxActs = 3
    Goroutines = {g1, g2}
    Keys = {"k1", "k2", "secret"}
    Sensitive = {"secret"}
    Habits <- MCHabits
    PerHour = 2
    Day = 2
    Window = 6
    DecayNum = 2
    DecayDen = 3
    MinActions = 3
    MaxKeys = 1
    Parts = {"rules", "habits"}
INVARIANTS AllowsAreEndorsed AdviceHolds 
 
CHECK_DEADLOCK FALSE
