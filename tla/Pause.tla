-------------------------------- MODULE Pause --------------------------------
(***************************************************************************)
(* Timed bypass windows: the pause_events table, the commands that open and *)
(* close a window (`kbounce pause start`, `pause stop`), the lookup every   *)
(* proxied request makes, and the open/close events the proxy derives from  *)
(* consecutive lookups.  Each command is a process of its own; every SQL    *)
(* statement is a step, because GetActivePause, StartPause and EndPause run *)
(* several of them outside any transaction.                                 *)
(***************************************************************************)
EXTENDS Integers, FiniteSets

CONSTANTS
    Starters,   \* processes that run `pause start`
    Stoppers,   \* processes that run `pause stop`
    Requests,   \* request goroutines of the proxy, reused one request at a time
    Durations,  \* the --for values used, in clock units
    MaxPauses,  \* bound on the rows of pause_events
    MaxTime     \* bound on the clock

\* What the constants must be; MCWindows assumes it of those it gives.
ConstantsAssumption ==
    /\ Durations \subseteq Nat \ {0}
    /\ MaxPauses \in Nat
    /\ MaxTime \in Nat \ {0}
    /\ IsFiniteSet(Requests)
    /\ Starters \cap Stoppers = {} /\ (Starters \cup Stoppers) \cap Requests = {}

Actors == Starters \cup Stoppers \cup Requests
Ids    == 1 .. MaxPauses
NoId   == 0

VARIABLES
    clock,      \* wall clock, in the whole seconds the table stores
    pauses,     \* pause_events: ends_at, ended_at_actual, end_kind; 0 and "" are NULL
    count,      \* the last id the table gave out
    loc,        \* the locals of each actor, see Idle
    lastSeen,   \* lastSeenPauseID of the proxy
    net         \* events the proxy emitted per pause: grants minus closes

vars  == <<clock, pauses, count, loc, lastSeen, net>>
table == <<pauses, count>>
audit == <<lastSeen, net>>

\* Where an actor is, the time it read, the rows there were when it expired
\* the due ones, what GetActivePause returned, the ends_at a starter computed,
\* what the Swap of a request returned and the end_kind in its close event.
Idle == [at |-> "idle", now |-> 0, swept |-> 0, active |-> NoId, ends |-> 0,
         prev |-> NoId, closed |-> ""]

NoPause == [ends |-> 0, ended |-> 0, kind |-> ""]

Rows == [ends : Nat, ended : Nat, kind : {"", "expired", "resumed_early"}]

Locals == [at : {"idle", "gc", "select", "insert", "update", "report", "observe", "emit",
                 "evaluate"},
           now : 0 .. MaxTime,
           swept : 0 .. MaxPauses,
           active : {NoId} \cup Ids,
           ends : Nat,
           prev : {NoId} \cup Ids,
           closed : {"", "unknown", "expired", "resumed_early"}]

TypeOK ==
    /\ clock \in 1 .. MaxTime
    /\ count \in 0 .. MaxPauses
    /\ pauses \in [Ids -> Rows]
    /\ loc \in [Actors -> Locals]
    /\ lastSeen \in {NoId} \cup Ids
    /\ net \in [Ids -> Int]

Init ==
    /\ clock = 1
    /\ pauses = [p \in Ids |-> NoPause]
    /\ count = 0
    /\ loc = [a \in Actors |-> Idle]
    /\ lastSeen = NoId
    /\ net = [p \in Ids |-> 0]

Tick ==
    /\ clock < MaxTime
    /\ clock' = clock + 1
    /\ UNCHANGED <<table, loc, audit>>

At(a, place)   == loc[a].at = place
Goto(a, place) == loc' = [loc EXCEPT ![a].at = place]
Leave(a)       == loc' = [loc EXCEPT ![a] = Idle]

-----------------------------------------------------------------------------
(* GetActivePause: read the clock, expire what is past due, select *)

Open(p) == p \in 1 .. count /\ pauses[p].ended = 0

Begin(a, ends) ==
    /\ At(a, "idle")
    /\ loc' = [loc EXCEPT ![a] = [Idle EXCEPT !.at = "gc", !.now = clock, !.ends = ends]]
    /\ UNCHANGED <<clock, table, audit>>

\* ends_at <= now is past due.
Due(p, t) == Open(p) /\ pauses[p].ends <= t

\* The row takes its own ends_at as its end, however late it is noticed.
ExpireDue(a) ==
    /\ At(a, "gc")
    /\ pauses' = [p \in Ids |->
                    IF Due(p, loc[a].now)
                    THEN [pauses[p] EXCEPT !.ended = pauses[p].ends, !.kind = "expired"]
                    ELSE pauses[p]]
    /\ loc' = [loc EXCEPT ![a].at = "select", ![a].swept = count]
    /\ UNCHANGED <<clock, count, audit>>

\* ORDER BY id DESC LIMIT 1.
Newest == IF \E p \in Ids : Open(p)
          THEN CHOOSE p \in Ids : Open(p) /\ \A q \in Ids : Open(q) => q <= p
          ELSE NoId

\* What each caller does with the answer of GetActivePause.
Continue(a, p) ==
    CASE a \in Starters /\ p = NoId -> loc' = [loc EXCEPT ![a].at = "insert"]
      [] a \in Stoppers /\ p # NoId -> loc' = [loc EXCEPT ![a].at = "update", ![a].active = p]
      [] a \in Requests             -> loc' = [loc EXCEPT ![a].at = "observe", ![a].active = p]
      [] OTHER                      -> Leave(a)

Select(a) ==
    /\ At(a, "select")
    /\ Continue(a, Newest)
    /\ UNCHANGED <<clock, table, audit>>

\* A statement fails (SQLITE_BUSY after the 5s timeout).  A command exits; a
\* request goes on as if no pause were active.
LookupFails(a) ==
    /\ At(a, "gc") \/ At(a, "select")
    /\ IF a \in Requests THEN Continue(a, NoId) ELSE Leave(a)
    /\ UNCHANGED <<clock, table, audit>>

-----------------------------------------------------------------------------
(* StartPause and EndPause *)

StartPause(c, d) == count < MaxPauses /\ Begin(c, clock + d)

InsertPause(c) ==
    /\ At(c, "insert")
    /\ count < MaxPauses
    /\ count' = count + 1
    /\ pauses' = [pauses EXCEPT ![count + 1] = [NoPause EXCEPT !.ends = loc[c].ends]]
    /\ Leave(c)
    /\ UNCHANGED <<clock, audit>>

StopPause(c) == Begin(c, 0)

UpdateUnguarded(c) ==
    /\ At(c, "update")
    /\ pauses' = [pauses EXCEPT ![loc[c].active] =
                    [@ EXCEPT !.ended = clock, !.kind = "resumed_early"]]
    /\ Goto(c, "report")
    /\ UNCHANGED <<clock, count, audit>>

\* UPDATE ... WHERE id = ? AND ended_at_actual IS NULL.  The number of rows is
\* not looked at: the id is reported as resumed early either way.
UpdatePause(c) ==
    /\ At(c, "update")
    /\ pauses' = IF Open(loc[c].active)
                 THEN [pauses EXCEPT ![loc[c].active] =
                         [@ EXCEPT !.ended = clock, !.kind = "resumed_early"]]
                 ELSE pauses
    /\ Goto(c, "report")
    /\ UNCHANGED <<clock, count, audit>>

\* The command prints the id and writes its admin-action audit event.
Report(c) ==
    /\ At(c, "report")
    /\ Leave(c)
    /\ UNCHANGED <<clock, table, audit>>

-----------------------------------------------------------------------------
(* A request: look the pause up, observe the transition, evaluate *)

Lookup(q) == Begin(q, 0)

\* lastSeenPauseID.Swap in observePauseTransition.
SwapOpenOnly(q) ==
    /\ At(q, "observe")
    /\ lastSeen' = IF loc[q].active = NoId THEN lastSeen ELSE loc[q].active
    /\ loc' = [loc EXCEPT ![q].at = IF lastSeen = loc[q].active THEN "evaluate" ELSE "emit",
                          ![q].prev = lastSeen]
    /\ UNCHANGED <<clock, table, net>>

Swap(q) ==
    /\ At(q, "observe")
    /\ lastSeen' = loc[q].active
    /\ loc' = [loc EXCEPT ![q].at = IF lastSeen = loc[q].active THEN "evaluate" ELSE "emit",
                          ![q].prev = lastSeen]
    /\ UNCHANGED <<clock, table, net>>

\* lookupClosedPauseKind: an open row has no end_kind to report.
ClosedKind(p) == IF pauses[p].kind = "" THEN "unknown" ELSE pauses[p].kind

\* The close of the previous window, then the grant of the new one.
Emit(q) ==
    /\ At(q, "emit")
    /\ net' = [p \in Ids |-> net[p] + (IF p = loc[q].active THEN 1 ELSE 0)
                                    - (IF p = loc[q].prev THEN 1 ELSE 0)]
    /\ loc' = [loc EXCEPT ![q].at = "evaluate",
                          ![q].closed = IF loc[q].prev = NoId THEN "" ELSE ClosedKind(loc[q].prev)]
    /\ UNCHANGED <<clock, table, lastSeen>>

\* EvaluateRequestFull goes on, in cooperative mode if it found a pause.
Evaluate(q) ==
    /\ At(q, "evaluate")
    /\ Leave(q)
    /\ UNCHANGED <<clock, table, audit>>

-----------------------------------------------------------------------------
Next ==
    \/ Tick
    \/ \E c \in Starters, d \in Durations : StartPause(c, d)
    \/ \E c \in Starters : InsertPause(c)
    \/ \E c \in Stoppers : StopPause(c) \/ UpdatePause(c) \/ Report(c)
    \/ \E q \in Requests : Lookup(q) \/ Swap(q) \/ Emit(q) \/ Evaluate(q)
    \/ \E a \in Actors : ExpireDue(a) \/ Select(a) \/ LookupFails(a)

Spec == Init /\ [][Next]_vars

-----------------------------------------------------------------------------
(* Properties *)

Looked(q) == loc[q].at \in {"observe", "emit", "evaluate"}

\* GetActivePause promises a pause that has not expired: a request is only ever
\* evaluated under a pause that had time left when the request looked.
BypassHasTimeLeft ==
    \A q \in Requests :
      (Looked(q) /\ loc[q].active # NoId) => pauses[loc[q].active].ends > loc[q].now

\* The auto-revert without a timer: the same for every pause that was in the
\* table when the lookup expired the rows past due.
BypassEndsOnTime ==
    \A q \in Requests :
      (Looked(q) /\ loc[q].active \in 1 .. loc[q].swept) =>
        pauses[loc[q].active].ends > loc[q].now

\* A window ends once: when it ended, and whether it expired or was resumed,
\* never changes afterwards, whoever expires or stops it at the same time.
EndStays == \A p \in Ids : pauses[p].ended # 0 => pauses'[p] = pauses[p]
EndIsFinal == [][EndStays]_pauses

\* No two `pause start` overlap: their checks would both find no open row.
OneStarter == \A c, d \in Starters : c = d

\* Nested windows are refused (StartPause), so at most one row is open.
OneOpenPause == \A p, q \in Ids : Open(p) /\ Open(q) => p = q

\* The audit trail pairs each grant with one close: outside of an emission in
\* flight, exactly the window last observed has a grant without a close.
GrantsPairWithCloses ==
    (\A q \in Requests : ~ At(q, "emit")) =>
      \A p \in Ids : net[p] = IF p = lastSeen THEN 1 ELSE 0

\* A close event tells an expiry from an early resume.
CloseNamesItsKind == \A q \in Requests : loc[q].closed # "unknown"

\* `pause stop` and its audit event report "resumed_early" for a window that
\* the table has as resumed early.
StopReportIsTrue ==
    \A c \in Stoppers : At(c, "report") => pauses[loc[c].active].kind = "resumed_early"
=============================================================================
