---------------------------- MODULE DiskPressure ----------------------------
(***************************************************************************)
(* The check of the disk that holds the audit files.  Once in a while it    *)
(* looks at the disk, under its lock, and when the disk is critical it      *)
(* makes the proxy refuse requests or removes the oldest archives, one      *)
(* after the other, until usage is below the warning threshold.             *)
(*                                                                          *)
(* The disk is counted in blocks, percentages too (of Capacity).  Other     *)
(* programs use and free blocks of it: they are external.                   *)
(***************************************************************************)
EXTENDS Integers, FiniteSets

CONSTANTS
    Capacity,                                   \* blocks of the disk
    DefaultWarn, DefaultCrit, DefaultEmergency, \* thresholds for what was not given
    Settings,     \* what the flags may say: [mode, warn, crit, emergency, warnFree, critFree, ignore]
    Stuck,        \* archives that cannot be removed
    MaxArchives,  \* archives ever made
    MaxChanges    \* changes of what others use, and looks at the disk that fail

VARIABLES
    set,          \* the settings, with defaults for what is missing
    other,        \* blocks others use
    log,          \* blocks of the audit log
    archives,     \* the archives that are there, by number
    made,         \* archives made so far
    at,           \* where the check is: "off", "idle", "list" or "drop"
    cands,        \* archives it may still remove
    full,         \* what its last look at the disk has said: not below the threshold
    status,       \* the status it has found
    refuse,       \* requests are refused
    moved,        \* others have changed the disk since that look
    needless,     \* an archive was removed that the look had not asked for
    unordered,    \* an archive was removed before an older one that could be
    lost,         \* requests served though the event did not fit
    changes       \* changes and failed looks so far

vars == <<set, other, log, archives, made, at, cands, full, moved, status, refuse,
          needless, unordered, lost, changes>>

disk == <<other, log, archives, made, changes>>
check == <<set, at, cands, full, status, refuse, needless, unordered>>

Modes == {"pause", "rotate", "archive"}
Used == other + log + Cardinality(archives)
Free == Capacity - Used
-----------------------------------------------------------------------------
\* NewDiskPressureStateFull: a threshold that is missing or below the one before
\* takes its default.
Normalize(s) ==
    LET warn == IF s.warn <= 0 THEN DefaultWarn ELSE s.warn
        crit == IF s.crit <= 0 \/ s.crit < warn THEN DefaultCrit ELSE s.crit
        emergency == IF s.emergency <= 0 \/ s.emergency < crit THEN DefaultEmergency
                     ELSE s.emergency
    IN [s EXCEPT !.warn = warn, !.crit = crit, !.emergency = emergency]

\* classifyDiskStatusFull: usage or the free blocks, whichever is worse.
DiskStatus ==
    CASE Used >= set.crit     -> "critical"
      [] Free <= set.critFree -> "critical"
      [] Used >= set.warn     -> "degraded"
      [] Free <= set.warnFree -> "degraded"
      [] OTHER                -> "ok"

\* classifyDiskStatusWithEmergency, on what statfs said.
Classify ==
    CASE set.ignore             -> "ignored"
      [] DiskStatus = "ok"      -> "ok"
      [] Used >= set.emergency  -> "emergency"
      [] Used >= set.crit       -> "critical"
      [] Used >= set.warn       -> "degraded"
      [] OTHER                  -> DiskStatus

Pressing == {"critical", "emergency"}

RefusesAtCritical(st) == set.mode = "pause" /\ st = "critical"

\* computeRefuseRequests
Refuses(st) == set.mode = "pause" /\ st \in Pressing

Init ==
    /\ set \in {Normalize(s) : s \in Settings}
    /\ other \in 0 .. Capacity /\ log = 0
    /\ archives = {} /\ made = 0
    /\ at = "off" /\ cands = {} /\ full = FALSE /\ moved = FALSE
    /\ status = "ok" /\ refuse = FALSE /\ needless = FALSE /\ unordered = FALSE
    /\ lost = 0 /\ changes = 0

\* No disk to check: nothing happens.
Rest ==
    /\ set = Normalize(CHOOSE s \in Settings : s.ignore)
    /\ other = 0 /\ log = 0 /\ archives = {} /\ made = 0
    /\ at = "none" /\ cands = {} /\ full = FALSE /\ moved = FALSE
    /\ status = "ok" /\ refuse = FALSE /\ needless = FALSE /\ unordered = FALSE
    /\ lost = 0 /\ changes = 0
-----------------------------------------------------------------------------
(* The disk: others, and the audit log that fills and is rotated (AuditLog). *)

Others ==
    /\ changes < MaxChanges /\ changes' = changes + 1
    /\ \E n \in 0 .. Capacity - log - Cardinality(archives) : n # other /\ other' = n
    /\ moved' = TRUE
    /\ UNCHANGED <<check, log, archives, made, lost>>

\* An event that does not fit is lost, and the request was served all the same.
WriteEvent ==
    IF Free > 0 THEN log' = log + 1 /\ UNCHANGED lost
    ELSE lost' = 1 /\ UNCHANGED log

Rotate ==
    /\ log > 0 /\ made < MaxArchives
    /\ log' = 0 /\ made' = made + 1
    /\ archives' = archives \cup {made'}
    /\ moved' = TRUE
    /\ UNCHANGED <<check, other, lost, changes>>

\* `kbounce logs purge`, in a process of its own: archives up to some age.
Purge ==
    \E n \in archives :
        /\ archives' = {a \in archives : a > n \/ a \in Stuck}
        /\ archives' # archives
        /\ moved' = TRUE
        /\ UNCHANGED <<check, other, log, made, lost, changes>>

\* The proxy asks before it evaluates; the check holds the lock from its look
\* at the disk to its last removal.
ServeRequest ==
    /\ at \in {"off", "idle"}
    /\ IF refuse THEN UNCHANGED <<log, lost>> ELSE log < 2 /\ WriteEvent
    /\ UNCHANGED <<check, other, archives, made, changes, moved>>
-----------------------------------------------------------------------------
(* The check *)

\* GetDiskStatus reports no error: a statfs that fails is a disk that is "degraded",
\* and not used at all.
Look(sees) ==
    IF sees THEN UNCHANGED changes ELSE changes < MaxChanges /\ changes' = changes + 1

\* statfs, the status, and the event of a transition; the first one at once.
Observe ==
    /\ at \in {"off", "idle"}
    /\ \E sees \in BOOLEAN :
         /\ Look(sees)
         /\ status' = IF sees \/ set.ignore THEN Classify ELSE "degraded"
    /\ refuse' = Refuses(status')
    /\ at' = IF status' \in Pressing /\ set.mode # "pause" THEN "list" ELSE "idle"
    /\ moved' = FALSE
    /\ IF status' # status /\ Free > 0 /\ ~set.ignore THEN log' = log + 1 ELSE UNCHANGED log
    /\ UNCHANGED <<set, other, archives, made, cands, full, needless, unordered, lost>>

\* dropOldestArchives reads the directory once, and sorts what it finds by age.
List ==
    /\ at = "list"
    /\ cands' = archives /\ at' = "drop" /\ full' = FALSE
    /\ UNCHANGED <<disk, set, moved, status, refuse, needless, unordered, lost>>

DropWithoutLooking ==
    /\ at = "drop" /\ ~full
    /\ IF cands = {} THEN at' = "idle" /\ UNCHANGED full ELSE full' = TRUE /\ UNCHANGED at
    /\ UNCHANGED <<disk, set, cands, moved, status, refuse, needless, unordered, lost>>

\* It looks again before each removal, at usage alone.
LookAgain ==
    /\ at = "drop" /\ ~full
    /\ moved' = FALSE
    /\ \E sees \in BOOLEAN :
         /\ Look(sees)
         /\ IF cands = {} \/ ~sees \/ Used < set.warn
            THEN at' = "idle" /\ cands' = {} /\ UNCHANGED full
            ELSE full' = TRUE /\ UNCHANGED <<at, cands>>
    /\ UNCHANGED <<other, log, archives, made, set, status, refuse, needless, unordered, lost>>

\* A removal that fails is passed over; so is a file that is gone.
Drop ==
    /\ at = "drop" /\ full
    /\ \E a \in cands :
         /\ \A b \in cands : a <= b
         /\ cands' = cands \ {a} /\ full' = FALSE
         /\ IF a \in Stuck \/ a \notin archives
            THEN UNCHANGED <<archives, needless, unordered>>
            ELSE /\ archives' = archives \ {a}
                 /\ needless' = (needless \/ (Used < set.warn /\ ~moved))
                 /\ unordered' = (unordered \/ \E b \in archives \ Stuck : b < a)
    /\ UNCHANGED <<other, log, made, changes, set, at, moved, status, refuse, lost>>
-----------------------------------------------------------------------------
Check == Observe \/ List \/ LookAgain \/ Drop

Next == Others \/ Rotate \/ Purge \/ ServeRequest \/ Check

\* The loop of the check runs as long as the proxy does.
Fairness == WF_vars(Check)

Spec == Init /\ [][Next]_vars /\ Fairness
-----------------------------------------------------------------------------
TypeOK ==
    /\ other \in 0 .. Capacity /\ log \in 0 .. Capacity /\ Used <= Capacity
    /\ archives \subseteq 1 .. made /\ made <= MaxArchives
    /\ set.mode \in Modes /\ at \in {"off", "idle", "list", "drop"}
    /\ status \in {"ok", "degraded", "critical", "emergency", "ignored"}

\* Audit history is given up sparingly: a check removes the oldest archives first,
\* and each because it had just found usage at the warning threshold: what is
\* removed below it others made needless since that look.
DropsAreMeasured == ~needless /\ ~unordered

\* The answer follows the disk.  A proxy that pauses serves again when the disk
\* stays out of danger, and refuses when usage stays critical; one that makes room
\* has removed what it can when usage stays critical.
Danger == Used >= set.crit \/ Free <= set.critFree

AnswerFollowsDisk ==
    /\ set.mode = "pause" /\ ~set.ignore =>
           (<>[]~Danger => <>[]~refuse) /\ (<>[](Used >= set.crit) => <>[]refuse)
    /\ set.mode # "pause" /\ ~set.ignore =>
           (<>[](Used >= set.crit) => []<>(archives \subseteq Stuck))
-----------------------------------------------------------------------------
(* What the code does not promise: MCProcessLimits.cfg *)

\* Few free blocks make the disk critical: but not when usage is between the two
\* thresholds, only when it is below both.
FloorReacts == set.mode = "pause" /\ ~set.ignore => (<>[]Danger => <>[]refuse)

\* A disk that is critical for its few free blocks, with usage below the warning
\* threshold, is not relieved: the removals look at usage alone.
CriticalIsRelieved ==
    set.mode # "pause" /\ ~set.ignore =>
        (<>[](status \in Pressing) => []<>(archives \subseteq Stuck))

\* A warning threshold above the default for critical leaves them out of order.
ThresholdsOrdered == set.warn <= set.crit /\ set.crit <= set.emergency

\* Between two checks the disk may fill: a proxy that pauses to keep its audit
\* complete serves requests whose events do not fit.
PauseKeepsEvents == set.mode = "pause" /\ ~set.ignore => lost = 0
=============================================================================
