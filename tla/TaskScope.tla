------------------------------ MODULE TaskScope ------------------------------
(***************************************************************************)
(* Task scopes: the tasks table, the callers that open and end a task (the  *)
(* CLI and the MCP server, each a process of its own) and the lookup every  *)
(* proxied request makes for the owner the proxy was started with.  Every   *)
(* SQL statement is a step: AddTask, GetActiveTask and EndTask run outside  *)
(* any transaction, and so does the end command that calls two of them.     *)
(***************************************************************************)
EXTENDS Integers

CONSTANTS
    Owners,      \* owner slots
    ProxyOwner,  \* the slot the proxy evaluates requests in
    Starters,    \* callers of AddTask
    Enders,      \* callers of GetActiveTask and EndTask
    Requests,    \* request goroutines of the proxy, reused one request at a time
    Durations,   \* task lengths, in clock units
    MaxTasks,    \* bound on the rows of tasks
    MaxTime      \* bound on the clock

\* What the constants must be; MCWindows assumes it of those it gives.
ConstantsAssumption ==
    /\ ProxyOwner \in Owners
    /\ Durations \subseteq Nat \ {0}
    /\ MaxTasks \in Nat
    /\ MaxTime \in Nat \ {0}
    /\ Starters \cap Enders = {} /\ (Starters \cup Enders) \cap Requests = {}

Actors == Starters \cup Enders \cup Requests
Rowids == 1 .. MaxTasks
NoTask == 0

VARIABLES
    clock,  \* wall clock
    tasks,  \* the rows, by rowid
    count,  \* the last rowid
    loc     \* the locals of each actor, see Idle

vars == <<clock, tasks, count, loc>>

NoRow == [owner |-> "", started |-> 0, expires |-> 0, status |-> "none", ended |-> 0]

\* Where an actor is, the slot it works on, the scope a starter built, the task
\* a lookup selected, the time it began and the time it compared the expiry with.
Idle == [at |-> "idle", owner |-> "", scope |-> NoRow, task |-> NoTask, began |-> 0,
         now |-> 0]

Rows == [owner : Owners \cup {""}, started : Nat, expires : Nat,
         status : {"none", "active", "expired", "completed"}, ended : Nat]

Locals == [at : {"idle", "check", "insert", "refused", "select", "expiry", "expire", "end",
                 "evaluate"},
           owner : Owners \cup {""},
           scope : Rows,
           task : {NoTask} \cup Rowids,
           began : 0 .. MaxTime,
           now : 0 .. MaxTime]

TypeOK ==
    /\ clock \in 1 .. MaxTime
    /\ count \in 0 .. MaxTasks
    /\ tasks \in [Rowids -> Rows]
    /\ loc \in [Actors -> Locals]

Init ==
    /\ clock = 1
    /\ tasks = [t \in Rowids |-> NoRow]
    /\ count = 0
    /\ loc = [a \in Actors |-> Idle]

Tick ==
    /\ clock < MaxTime
    /\ clock' = clock + 1
    /\ UNCHANGED <<tasks, count, loc>>

At(a, place) == loc[a].at = place
Leave(a)     == loc' = [loc EXCEPT ![a] = Idle]

Active(t) == t \in 1 .. count /\ tasks[t].status = "active"

-----------------------------------------------------------------------------
(* AddTask *)

\* BuildScope stamps the scope before anything is asked of the table.
BuildScope(c, o, d) ==
    /\ At(c, "idle")
    /\ count < MaxTasks
    /\ loc' = [loc EXCEPT ![c] =
                 [Idle EXCEPT !.at = "check", !.owner = o,
                              !.scope = [owner |-> o, started |-> clock,
                                         expires |-> clock + d, status |-> "active",
                                         ended |-> 0]]]
    /\ UNCHANGED <<clock, tasks, count>>

\* The conflict check looks at the status column alone, not at expires_at.
CheckActive(c) ==
    /\ At(c, "check")
    /\ IF \E t \in Rowids : Active(t) /\ tasks[t].owner = loc[c].owner
       THEN loc' = [loc EXCEPT ![c].at = "refused", ![c].now = clock]
       ELSE loc' = [loc EXCEPT ![c].at = "insert"]
    /\ UNCHANGED <<clock, tasks, count>>

InsertTask(c) ==
    /\ At(c, "insert")
    /\ count < MaxTasks
    /\ count' = count + 1
    /\ tasks' = [tasks EXCEPT ![count + 1] = loc[c].scope]
    /\ Leave(c)
    /\ UNCHANGED clock

\* ErrActiveTaskExists reaches the caller.
Refuse(c) ==
    /\ At(c, "refused")
    /\ Leave(c)
    /\ UNCHANGED <<clock, tasks, count>>

-----------------------------------------------------------------------------
(* GetActiveTask *)

Lookup(a, o) ==
    /\ At(a, "idle")
    /\ loc' = [loc EXCEPT ![a] = [Idle EXCEPT !.at = "select", !.owner = o, !.began = clock]]
    /\ UNCHANGED <<clock, tasks, count>>

\* ORDER BY started_at DESC, rowid DESC LIMIT 1.
Later(t, u) == \/ tasks[t].started > tasks[u].started
               \/ tasks[t].started = tasks[u].started /\ t >= u

NewestOf(S) == IF S = {} THEN NoTask ELSE CHOOSE t \in S : \A u \in S : Later(t, u)

SelectableAnyStatus(o) == {t \in 1 .. count : tasks[t].owner = o}
Selectable(o) == {t \in 1 .. count : Active(t) /\ tasks[t].owner = o}

Found(a, t) ==
    CASE t # NoTask                    -> loc' = [loc EXCEPT ![a].at = "expiry", ![a].task = t]
      [] t = NoTask /\ a \in Requests  -> loc' = [loc EXCEPT ![a].at = "evaluate", ![a].task = NoTask]
      [] OTHER                         -> Leave(a)

SelectTask(a) ==
    /\ At(a, "select")
    /\ Found(a, NewestOf(Selectable(loc[a].owner)))
    /\ UNCHANGED <<clock, tasks, count>>

\* The statement fails: a command exits, a request goes on without a task.
LookupFails(a) ==
    /\ At(a, "select")
    /\ Found(a, NoTask)
    /\ UNCHANGED <<clock, tasks, count>>

\* IsExpired, on the row as it was selected.
IsExpired(t) == clock >= tasks[t].expires

CheckExpiry(a) ==
    /\ At(a, "expiry")
    /\ loc' = [loc EXCEPT ![a].now = clock,
                          ![a].at = IF IsExpired(loc[a].task) THEN "expire"
                                    ELSE IF a \in Requests THEN "evaluate"
                                    ELSE "end"]
    /\ UNCHANGED <<clock, tasks, count>>

\* EndTask: UPDATE ... WHERE task_id = ? AND status = 'active'.
EndRow(t, status) ==
    tasks' = IF Active(t)
             THEN [tasks EXCEPT ![t].status = status, ![t].ended = clock]
             ELSE tasks

\* The lookup that meets an expired task writes that back and reports none,
\* whether or not the write succeeded.
AutoExpire(a) ==
    /\ At(a, "expire")
    /\ EndRow(loc[a].task, "expired") \/ UNCHANGED tasks
    /\ Found(a, NoTask)
    /\ UNCHANGED <<clock, count>>

CompleteTask(a) ==
    /\ At(a, "end")
    /\ EndRow(loc[a].task, "completed")
    /\ Leave(a)
    /\ UNCHANGED <<clock, count>>

\* The request is evaluated under the task found, or under none.
Evaluate(q) ==
    /\ At(q, "evaluate")
    /\ Leave(q)
    /\ UNCHANGED <<clock, tasks, count>>

-----------------------------------------------------------------------------
Next ==
    \/ Tick
    \/ \E c \in Starters :
         \/ \E o \in Owners, d \in Durations : BuildScope(c, o, d)
         \/ CheckActive(c)
         \/ InsertTask(c)
         \/ Refuse(c)
    \/ \E e \in Enders : (\E o \in Owners : Lookup(e, o)) \/ CompleteTask(e)
    \/ \E q \in Requests : Lookup(q, ProxyOwner) \/ Evaluate(q)
    \/ \E a \in Enders \cup Requests :
         SelectTask(a) \/ LookupFails(a) \/ CheckExpiry(a) \/ AutoExpire(a)

Spec == Init /\ [][Next]_vars

-----------------------------------------------------------------------------
(* Properties *)

\* No two calls of AddTask overlap: their checks would both find no active task.
OneStarter == \A c, d \in Starters : c = d

\* AddTask's single-active-per-owner invariant.
OneActivePerOwner ==
    \A t, u \in Rowids :
      Active(t) /\ Active(u) /\ tasks[t].owner = tasks[u].owner => t = u

\* A task ends once: its final status and ended_at stay, however auto-expiry
\* and the end commands interleave.
EndStays ==
    \A t \in Rowids :
      tasks[t].status \in {"expired", "completed"} => tasks'[t] = tasks[t]
EndIsFinal == [][EndStays]_tasks

\* A request is narrowed only by a task of the proxy's own slot that had time
\* left when the request compared, and that had not ended when it arrived.
ScopeIsCurrent ==
    \A q \in Requests :
      LET t == loc[q].task IN
      (At(q, "evaluate") /\ t # NoTask) =>
        /\ tasks[t].owner = ProxyOwner
        /\ tasks[t].expires > loc[q].now
        /\ tasks[t].status # "active" => tasks[t].ended >= loc[q].began

\* ErrActiveTaskExists: an owner is refused because a task of its is running,
\* that is, one the active-task lookup would have shown at that moment.
RefusalMeansRunning ==
    \A c \in Starters :
      At(c, "refused") =>
        \E t \in Rowids : /\ tasks[t].owner = loc[c].owner
                          /\ tasks[t].status # "none"
                          /\ tasks[t].expires > loc[c].now
=============================================================================
