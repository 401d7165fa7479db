---------------------------- MODULE ProfileReload ----------------------------
(***************************************************************************)
(* Hot-swapping the active profile of a running proxy.  A profile switch    *)
(* (the "profile" answer to a burst) travels from the CLI or the MCP server *)
(* through the single profile_reload_signal row to a watcher in the proxy;  *)
(* POST /admin/profile/reload re-reads the active profile from profiles.yaml *)
(* in a request goroutine.  Both end in SetActiveProfile.                   *)
(***************************************************************************)
EXTENDS Naturals, FiniteSets

CONSTANTS
    Names,       \* profile names
    Startup,     \* the profile the proxy starts with
    Setters,     \* callers that answer a burst with a profile switch
    Admins,      \* goroutines of the reload handler, reused one call at a time
    MaxSignals,  \* bound on profile switches
    MaxEdits,    \* bound on edits of profiles.yaml
    MaxRestarts  \* bound on proxy restarts

\* What the constants must be; the module that instantiates this one assumes it.
ConstantsAssumption ==
    /\ Startup \in Names
    /\ MaxSignals \in Nat /\ MaxEdits \in Nat /\ MaxRestarts \in Nat

Missing == 0

VARIABLES
    file,     \* profiles.yaml: the version of each profile, or Missing
    edits,    \* edits so far; an edited profile takes the next number as version
    signal,   \* the signal row: profile_name, the request it is, applied_at set
    sent,     \* profile switches requested so far
    active,   \* the proxy's active profile pointer
    watcher,  \* the watcher goroutine: where it is and what it read
    setter,   \* the name each setter has validated
    admin,    \* each reload call: where it is, what it read, what it loaded
    tried,    \* the requests whose profile the watcher has tried to load
    restarts

vars == <<file, edits, signal, sent, active, watcher, setter, admin, tried, restarts>>

Versions == 0 .. MaxEdits + 1
Profiles == [name : Names, version : Versions \ {Missing}]
NoSignal == [name |-> Startup, id |-> 0, applied |-> TRUE]
Asleep   == [at |-> "idle", signal |-> NoSignal, loaded |-> [name |-> Startup, version |-> 1]]
NoCall   == [at |-> "idle", name |-> Startup, floor |-> 0, loaded |-> 0]

Signals  == [name : Names, id : 0 .. MaxSignals, applied : BOOLEAN]
Watchers == [at : {"idle", "load", "set", "ack"}, signal : Signals, loaded : Profiles]
Calls    == [at : {"idle", "load", "set", "ok"}, name : Names, floor : Versions,
             loaded : Versions]

TypeOK ==
    /\ file \in [Names -> Versions]
    /\ edits \in 0 .. MaxEdits
    /\ sent \in 0 .. MaxSignals
    /\ signal \in Signals
    /\ active \in Profiles
    /\ watcher \in Watchers
    /\ setter \in [Setters -> SUBSET Names]
    /\ admin \in [Admins -> Calls]
    /\ tried \subseteq 1 .. MaxSignals
    /\ restarts \in 0 .. MaxRestarts

Init ==
    /\ file = [n \in Names |-> 1]
    /\ edits = 0
    /\ signal = NoSignal
    /\ sent = 0
    /\ active = [name |-> Startup, version |-> 1]
    /\ watcher = Asleep
    /\ setter = [c \in Setters |-> {}]
    /\ admin = [h \in Admins |-> NoCall]
    /\ tried = {}
    /\ restarts = 0

-----------------------------------------------------------------------------
(* The file *)

\* `profile install`, `profile allow` or an editor writes a profile or drops it.
EditFile(n) ==
    /\ edits < MaxEdits
    /\ edits' = edits + 1
    /\ \E v \in {Missing, edits + 2} : file' = [file EXCEPT ![n] = v]
    /\ UNCHANGED <<signal, sent, active, watcher, setter, admin, tried, restarts>>

-----------------------------------------------------------------------------
(* A profile switch: validate the name, then upsert the row *)

ValidateName(c, n) ==
    /\ setter[c] = {}
    /\ sent < MaxSignals
    /\ file[n] # Missing
    /\ setter' = [setter EXCEPT ![c] = {n}]
    /\ UNCHANGED <<file, edits, signal, sent, active, watcher, admin, tried, restarts>>

SetSignal(c) ==
    /\ sent < MaxSignals
    /\ \E n \in setter[c] :
         signal' = [name |-> n, id |-> sent + 1, applied |-> FALSE]
    /\ sent' = sent + 1
    /\ setter' = [setter EXCEPT ![c] = {}]
    /\ UNCHANGED <<file, edits, active, watcher, admin, tried, restarts>>

-----------------------------------------------------------------------------
(* pollProfileReloadOnce *)

GetSignal ==
    /\ watcher.at = "idle"
    /\ ~ signal.applied
    /\ watcher' = [watcher EXCEPT !.at = "load", !.signal = signal]
    /\ UNCHANGED <<file, edits, signal, sent, active, setter, admin, tried, restarts>>

\* A profile that cannot be loaded is acked all the same.
LoadSignalled ==
    /\ watcher.at = "load"
    /\ tried' = tried \cup {watcher.signal.id}
    /\ LET n == watcher.signal.name IN
         watcher' = IF file[n] = Missing
                    THEN [watcher EXCEPT !.at = "ack"]
                    ELSE [watcher EXCEPT !.at = "set",
                                         !.loaded = [name |-> n, version |-> file[n]]]
    /\ UNCHANGED <<file, edits, signal, sent, active, setter, admin, restarts>>

SetNothing ==
    /\ watcher.at = "set"
    /\ watcher' = [watcher EXCEPT !.at = "ack"]
    /\ UNCHANGED <<file, edits, signal, sent, active, setter, admin, tried, restarts>>

SetSignalled ==
    /\ watcher.at = "set"
    /\ active' = watcher.loaded
    /\ watcher' = [watcher EXCEPT !.at = "ack"]
    /\ UNCHANGED <<file, edits, signal, sent, setter, admin, tried, restarts>>

\* UPDATE ... WHERE id = 1 AND applied_at IS NULL: whatever the row holds now.
AckSignal ==
    /\ watcher.at = "ack"
    /\ signal' = [signal EXCEPT !.applied = TRUE]
    /\ watcher' = Asleep
    /\ UNCHANGED <<file, edits, sent, active, setter, admin, tried, restarts>>

\* The error of the ack is dropped; the next poll meets the request again.
AckFails ==
    /\ watcher.at = "ack"
    /\ watcher' = Asleep
    /\ UNCHANGED <<file, edits, signal, sent, active, setter, admin, tried, restarts>>

-----------------------------------------------------------------------------
(* POST /admin/profile/reload *)

ReadActive(h) ==
    /\ admin[h].at = "idle"
    /\ admin' = [admin EXCEPT ![h] = [at |-> "load", name |-> active.name,
                                      floor |-> file[active.name], loaded |-> 0]]
    /\ UNCHANGED <<file, edits, signal, sent, active, watcher, setter, tried, restarts>>

\* 409 when the profile is gone from the file.
LoadActive(h) ==
    /\ admin[h].at = "load"
    /\ LET v == file[admin[h].name] IN
         admin' = [admin EXCEPT ![h] = IF v = Missing
                                       THEN NoCall
                                       ELSE [@ EXCEPT !.at = "set", !.loaded = v]]
    /\ UNCHANGED <<file, edits, signal, sent, active, watcher, setter, tried, restarts>>

SetActive(h) ==
    /\ admin[h].at = "set"
    /\ active' = [name |-> admin[h].name, version |-> admin[h].loaded]
    /\ admin' = [admin EXCEPT ![h].at = "ok"]
    /\ UNCHANGED <<file, edits, signal, sent, watcher, setter, tried, restarts>>

\* 200, reloaded: true.
Respond(h) ==
    /\ admin[h].at = "ok"
    /\ admin' = [admin EXCEPT ![h] = NoCall]
    /\ UNCHANGED <<file, edits, signal, sent, active, watcher, setter, tried, restarts>>

-----------------------------------------------------------------------------
\* The proxy comes back with the profile of its command line; it does not
\* start when the file has none of that name.
Restart ==
    /\ restarts < MaxRestarts
    /\ file[Startup] # Missing
    /\ restarts' = restarts + 1
    /\ active' = [name |-> Startup, version |-> file[Startup]]
    /\ watcher' = Asleep
    /\ admin' = [h \in Admins |-> NoCall]
    /\ UNCHANGED <<file, edits, signal, sent, setter, tried>>

Next ==
    \/ \E n \in Names : EditFile(n)
    \/ \E c \in Setters : (\E n \in Names : ValidateName(c, n)) \/ SetSignal(c)
    \/ GetSignal \/ LoadSignalled \/ SetSignalled \/ AckSignal \/ AckFails
    \/ \E h \in Admins : ReadActive(h) \/ LoadActive(h) \/ SetActive(h) \/ Respond(h)
    \/ Restart

Spec == Init /\ [][Next]_vars

\* The watcher polls every second for as long as the proxy runs, and SQLite
\* does not fail every time: the ack is retried by each following poll.
Fairness ==
    /\ WF_vars(GetSignal) /\ WF_vars(LoadSignalled) /\ WF_vars(SetSignalled)
    /\ SF_vars(AckSignal)

\* One operator at a time: who asks for a switch or a reload waits until the
\* one before is done.
Settled == signal.applied /\ watcher.at = "idle"
Calling == \E h \in Admins : admin[h].at # "idle"

Comes(h) == admin[h].at = "idle" /\ admin'[h].at # "idle"
OneAtATime == sent' # sent \/ (\E h \in Admins : Comes(h)) => Settled /\ ~ Calling

CalmSpec == Init /\ [][Next /\ OneAtATime]_vars /\ Fairness

-----------------------------------------------------------------------------
(* Properties *)

\* A switch that the row shows as applied was seen by the watcher.  One request
\* may supersede another, but none is marked applied unseen.
AppliedWasTried == (signal.id # 0 /\ signal.applied) => signal.id \in tried

\* The last switch decides: once it is applied and was loadable, the proxy runs
\* under the profile it names, whatever reload calls do.
LastSwitchHolds ==
    (signal.id \in tried /\ signal.applied /\ restarts = 0 /\ edits = 0) =>
        active.name = signal.name

\* A reload that answers 200 has put at least the version that was in the file
\* when the call came in to work.
ReloadTakesEffect ==
    \A h \in Admins : admin[h].at = "ok" => active.version >= admin[h].floor

\* Under one operator at a time: no switch is marked applied unseen by the watcher, the
\* last one decides whatever reload calls do, and a call that succeeds has put the
\* file that it found (AckProfileReload, pollProfileReloadOnce, profileReloadHandler).
SwitchesTakeHold == AppliedWasTried /\ LastSwitchHolds /\ ReloadTakesEffect

\* No switch stays pending: a profile that is gone from the file does not pin
\* the row, nor does a failed ack or a restart in between.
SwitchIsSettled == ~ signal.applied ~> signal.applied
=============================================================================
