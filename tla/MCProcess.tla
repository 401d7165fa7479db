------------------------------ MODULE MCProcess ------------------------------
(* The process, the check of its disk, and its alerts and beats.  What the check
   tells the process is whether to refuse a request, and the process makes of it
   what it makes of any request it answers itself; the alerts only see what is
   emitted: a behaviour is one of the three. *)
EXTENDS Integers, Sequences

CONSTANTS Request, Kind, Watcher, Parts,
          Capacity, DefaultWarn, DefaultCrit, DefaultEmergency, Stuck, MaxArchives, WorldChanges,
          Requests, Sources, Threshold, Window, LongPause, MissedBeats, FailureLimit, StaleAfter,
          Depth, AlertTime, MaxLate

VARIABLES part,
          conf, cmd, result, open, upstream, serve, listened, shutting, watching, stop,
          signalled, expired, req, touched,
          set, other, log, archives, made, at, cands, full, moved, status, refuse, needless,
          unordered, lost, changes,
          flags, alertClock, pause, opened, seenPause, source, served, emitter, times, firstAt, fired,
          unseen, degraded, age, unhealthy, hung, late, logState, writable, happened,
          uncounted, since, disordered, lastSeen, told
-----------------------------------------------------------------------------
Ok == [fault |-> "none", flag |-> "none", kube |-> "ok", inCluster |-> FALSE,
       bundle |-> "none", insecure |-> FALSE]

StartFaults ==
    {"preset", "mode", "policy", "prompts", "bind", "token", "store", "bundle", "profiles",
     "profile", "pair", "client", "audit", "disk", "anomaly", "keys", "clientCA", "port"}

\* Everything in order, with and without an upstream; one thing wrong; what the
\* flags and the kubeconfig say of the upstream.
MCConfig ==
    {Ok, [Ok EXCEPT !.kube = "none"]}
    \cup {[Ok EXCEPT !.fault = f] : f \in StartFaults}
    \cup {[Ok EXCEPT !.flag = u, !.bundle = b, !.insecure = i, !.kube = k, !.inCluster = (k = "none")] :
            u \in {"http", "https", "none"}, b \in {"none", "good", "bad"}, i \in BOOLEAN,
            k \in {"none", "ok", "badCA", "insecure"}}

Given(m) == [mode |-> m, warn |-> 0, crit |-> 0, emergency |-> 0, warnFree |-> 2,
             critFree |-> 1, ignore |-> FALSE]

\* Each mode as the flags' defaults have it; a disk so small that the floors bite
\* before the percentages; thresholds of one's own; the check switched off.
MCSettings ==
    {Given(m) : m \in {"pause", "rotate", "archive"}}
    \cup {[Given(m) EXCEPT !.critFree = 3, !.warnFree = 4] : m \in {"pause", "rotate"}}
    \cup {[Given("rotate") EXCEPT !.warn = 2, !.crit = 3], [Given("pause") EXCEPT !.warn = 6],
          [Given("pause") EXCEPT !.ignore = TRUE]}

\* The rules on a burst of requests under a pause; beats while the log's disk fails
\* and comes back and a channel hangs, with and without rules; two profiles.
Flags(r, b, l, n, out) == [rules |-> r, beats |-> b, log |-> l, requests |-> n, outside |-> out]
MCFlags ==
    {Flags(TRUE, FALSE, FALSE, 3, {"pause"}), Flags(TRUE, TRUE, TRUE, 0, {"disk", "hang"}),
     Flags(FALSE, TRUE, TRUE, 0, {"disk", "hang"}), Flags(TRUE, FALSE, TRUE, 1, {"profile"})}

L == INSTANCE ProxyLife WITH Config <- MCConfig, watcher <- watching
P == INSTANCE DiskPressure WITH Settings <- MCSettings, MaxChanges <- WorldChanges
A == INSTANCE Alerts WITH Settings <- MCFlags, set <- flags, log <- logState, disk <- writable,
                          stuck <- hung, changes <- happened, now <- alertClock,
                          MaxTime <- AlertTime, MaxChanges <- WorldChanges

ASSUME MCProcessAssumption == A!ConstantsAssumption

life == <<conf, cmd, result, open, upstream, serve, listened, shutting, watching, stop,
          signalled, expired, req, touched>>
diskcheck == <<set, other, log, archives, made, at, cands, full, moved, status, refuse, needless,
          unordered, lost, changes>>
alerts == <<flags, alertClock, pause, opened, seenPause, source, served, emitter, times, firstAt, fired,
          unseen, degraded, age, unhealthy, hung, late, logState, writable, happened,
          uncounted, since, disordered, lastSeen, told>>

\* The part a behaviour is not of stands still, in a state in which nothing of
\* it is enabled.
LifeInit == L!Init /\ P!Rest /\ A!Rest
DiskInit == P!Init /\ L!Rest /\ A!Rest
AlertInit == A!Init /\ L!Rest /\ P!Rest

ProcessInit ==
    \/ part = "life" /\ "life" \in Parts /\ LifeInit
    \/ part = "disk" /\ "disk" \in Parts /\ DiskInit
    \/ part = "alerts" /\ "alerts" \in Parts /\ AlertInit

ProcessNext ==
    \/ part = "life" /\ L!Next /\ UNCHANGED <<part, diskcheck, alerts>>
    \/ part = "disk" /\ P!Next /\ UNCHANGED <<part, life, alerts>>
    \/ part = "alerts" /\ A!Next /\ UNCHANGED <<part, life, diskcheck>>

\* As each module has it; the actions of a part that stands still are never enabled.
ProcessFairness ==
    /\ WF_life(L!CommandSteps) /\ WF_life(L!ServerSteps) /\ WF_life(L!Timeout)
    /\ \A w \in Watcher : WF_life(L!TickDone(w)) /\ SF_life(L!WatcherEnds(w))
    /\ \A r \in Request : WF_life(L!PipeEnds(r))
    /\ WF_diskcheck(P!Check)
    /\ \A g \in A!Emitters : WF_alerts(A!Emit(g))
    /\ WF_alerts(A!Beat) /\ WF_alerts(A!Watchdog) /\ WF_alerts(A!WriteLog) /\ WF_alerts(A!Pass)

ProcessSpec ==
    ProcessInit /\ [][ProcessNext]_<<part, life, diskcheck, alerts>> /\ ProcessFairness
-----------------------------------------------------------------------------
\* A clean stop leaves nothing behind (ProxyLife).
CleanStop == L!CleanStop

\* A signal ends a process that has listened (ProxyLife).
StopsInTime == L!StopsInTime

\* Archives are given up oldest first and only while the disk is full (DiskPressure).
DropsAreMeasured == P!DropsAreMeasured

\* Requests are refused, and archives removed, as the disk is (DiskPressure).
AnswerFollowsDisk == part = "disk" => P!AnswerFollowsDisk

\* Alerts count the grants they are about, each once, and no burst is missed (Alerts).
BurstsAreTold == A!BurstsAreTold

\* What /healthz says follows the log and the beats (Alerts).
HealthFollows == part = "alerts" => A!HealthFollows

EarlyStopIsClean == L!EarlyStopIsClean
FailureIsClean == L!FailureIsClean
PinnedIsVerified == L!PinnedIsVerified
SignalStops == L!SignalStops
EitherSideEnds == L!EitherSideEnds
ThresholdsOrdered == P!ThresholdsOrdered
PauseKeepsEvents == P!PauseKeepsEvents
CriticalIsRelieved == part = "disk" => P!CriticalIsRelieved

\* The help of --disk-pressure-crit-free-bytes: the floor "below which the mode
\* reacts".
FloorReacts == part = "disk" => P!FloorReacts
LongPauseIsTold == part = "alerts" => A!LongPauseIsTold
BurstsAreToldInAnyOrder == A!BurstsAreToldInAnyOrder
IdleIsHealthy == part = "alerts" => A!IdleIsHealthy

\* The rule's own words: it "fires when the underlying export channel's health
\* predicate trips".
DegradedIsAlerted == part = "alerts" => A!DegradedIsAlerted
=============================================================================
