------------------------------- MODULE Alerts -------------------------------
(***************************************************************************)
(* The alert rules and the heartbeat: a stage before the audit manager that *)
(* hands every event on, shows it to the rules one event at a time, and     *)
(* hands on the alerts they raise; a goroutine that emits a beat in every   *)
(* interval; a watchdog that looks at the last beat; and the health that    *)
(* /healthz reports from both and from the writes of the log.               *)
(*                                                                          *)
(* The window of a pause is one that operators open and close (Pause). Of   *)
(* the channels behind the manager only the log's queue is here (AuditLog). *)
(***************************************************************************)
EXTENDS Integers, Sequences, FiniteSets

CONSTANTS
    Requests,       \* goroutines of requests
    Sources,        \* where profiles come from, beside the approved ones
    Settings,       \* what the flags say: [rules, beats, log]; and what
                    \* happens around it: [requests, outside]
    Threshold,      \* admin_fallback_burst: more than so many grants ...
    Window,         \* ... in so much time
    LongPause,      \* pause_long
    MissedBeats,    \* heartbeat_gap
    FailureLimit,   \* consecutive failures of the log that still count as healthy
    StaleAfter,     \* intervals without a successful write that do
    Depth,          \* the log's queue
    MaxTime,        \* readings of the clock
    MaxLate,        \* beats that come late
    MaxChanges      \* changes of the disk, of the pause and of the profile

\* What the constants must be; the module that instantiates this one assumes it.
ConstantsAssumption ==
    /\ {Threshold, Window, LongPause, MissedBeats, FailureLimit, StaleAfter, Depth,
        MaxTime, MaxLate, MaxChanges} \subseteq Nat
    /\ StaleAfter > 1

VARIABLES
    set,        \* the settings of this process
    now,        \* the clock
    pause,      \* the window that is open, 0 if none is
    opened,     \* windows so far
    seenPause,  \* the window the last request met (observePauseTransition)
    source,     \* of the active profile
    served,     \* requests so far
    emitter,    \* each goroutine that emits: where it is and what it has to emit
    times,      \* admin_fallback_burst: the grants it remembers, with their places in since
    firstAt,    \* pause_long: when the tracked window began
    fired,      \* non_org_profile_install: the sources it has told of
    unseen,     \* heartbeat_gap: beats numbered since the one it saw last
    degraded,   \* audit_export_degraded: the state it saw last
    age,        \* intervals since the last beat began, -1 before the first
    unhealthy,  \* the heartbeat's mark
    stuck,      \* the emitter of beats hangs in a channel
    late,       \* late beats so far
    log,        \* of the log: queue, last write in order, failures in a row, age of the last success
    disk,       \* the log can be written
    changes,
    uncounted,  \* grants handed on, less those the burst alerts handed on have counted
    since,      \* times of the grants the burst rule saw after its last alert
    disordered, \* an event was observed after one with a later time
    lastSeen,   \* the time of the last event observed
    told        \* patterns of which an alert was handed on

vars == <<set, now, pause, opened, seenPause, source, served, emitter, times, firstAt, fired,
          unseen, degraded, age, unhealthy, stuck, late, log, disk, changes, uncounted,
          since, disordered, lastSeen, told>>

rulestate == <<times, firstAt, fired, unseen, degraded, since, disordered, lastSeen>>
beatstate == <<age, unhealthy, stuck, late>>
world == <<now, pause, opened, source, disk, changes>>
stream == <<log, uncounted, told>>

Beater == "heartbeater"
Emitters == Requests \cup {Beater}
Idle == [at |-> "idle", todo |-> <<>>, now |-> 0, fires |-> <<>>]
Local == "local"
Event(kind, src) == [kind |-> kind, source |-> src]
Alert(pattern, n) == [pattern |-> pattern, count |-> n]

\* isAdminFallbackEvent: decisions under a pause carry the mark, as the grant does.
IsFallback(ev) == ev.kind \in {"grant", "bypass"}

\* What buildAuditManager binds to the rules: BindHeartbeater, not BindStatusSource.
Bound == {"heartbeat"}

Capped(n, cap) == IF n > cap THEN cap ELSE n

Init ==
    /\ set \in Settings
    /\ now = 0 /\ pause = 0 /\ opened = 0 /\ seenPause = 0 /\ source = Local /\ served = 0
    /\ emitter = [g \in Emitters |-> Idle]
    /\ times = {} /\ firstAt = -1 /\ fired = {} /\ unseen = -1 /\ degraded = FALSE
    /\ age = -1 /\ unhealthy = FALSE /\ stuck = FALSE /\ late = 0
    /\ log = [queue |-> 0, ok |-> TRUE, fails |-> 0, age |-> 0, ever |-> FALSE]
    /\ disk = TRUE /\ changes = 0
    /\ uncounted = 0 /\ since = <<>> /\ disordered = FALSE /\ lastSeen = 0 /\ told = {}
-----------------------------------------------------------------------------
(* Health *)

\* computeAuditExportHealth, and evaluate of audit_export_degraded: a log that has
\* not been written yet has no age.
LogHealthy ==
    set.log =>
    /\ log.ok
    /\ log.fails <= FailureLimit
    /\ log.ever => log.age <= StaleAfter

\* The check that /healthz makes.
Healthz == LogHealthy /\ (set.beats => ~unhealthy)
-----------------------------------------------------------------------------
(* The rules.  Each sees the event and the time that was read before the lock. *)

\* Older grants fall out of the window; places tell grants of the same time apart.
Kept(t) == {g \in times : g.time >= t - Window}
WithNew(t) == Kept(t) \cup {[place |-> Len(since) + 1, time |-> t]}

BurstAgain(t) ==
    /\ times' = WithNew(t)
    /\ IF Cardinality(WithNew(t)) > Threshold THEN since' = <<>> ELSE since' = Append(since, t)

\* admin_fallback_burst: one alert per burst, then it starts anew.
Burst(t) ==
    IF Cardinality(WithNew(t)) > Threshold
    THEN times' = {} /\ since' = <<>>
    ELSE times' = WithNew(t) /\ since' = Append(since, t)

BurstFires(ev, t) ==
    IF IsFallback(ev) /\ Cardinality(WithNew(t)) > Threshold
    THEN <<Alert("admin_fallback_burst", Cardinality(WithNew(t)))>> ELSE <<>>

ObserveBurst(ev, t) == IF IsFallback(ev) THEN Burst(t) ELSE UNCHANGED <<times, since>>

\* pause_long: any event that is no grant ends the window it tracks.
LongFires(ev, t) ==
    IF IsFallback(ev) /\ firstAt >= 0 /\ t - firstAt >= LongPause
    THEN <<Alert("pause_long", 1)>> ELSE <<>>

ObserveLong(ev, t) ==
    firstAt' = CASE ~IsFallback(ev)                    -> -1
                 [] firstAt < 0 \/ LongFires(ev, t) # <<>> -> t
                 [] OTHER                              -> firstAt

\* non_org_profile_install, once for each source.
SourceFires(ev) ==
    IF ev.source \in Sources \ fired THEN <<Alert("non_org_profile_install", 1)>> ELSE <<>>

ObserveSource(ev) == fired' = fired \cup ({ev.source} \cap Sources)

\* unusual_high_risk_action: every enforced deny of one of its actions.
RiskFires(ev) == IF ev.kind = "risky" THEN <<Alert("unusual_high_risk_action", 1)>> ELSE <<>>

\* heartbeat_gap: the number of the beat against that of the one before.
Gap(ev) == ev.kind = "beat" /\ unseen > MissedBeats
GapFires(ev) == IF Gap(ev) THEN <<Alert("heartbeat_gap", 1)>> ELSE <<>>

ObserveBeat(ev) ==
    IF ev.kind = "beat" THEN unseen' = 0 /\ unhealthy' = Gap(ev)
    ELSE UNCHANGED <<unseen, unhealthy>>

\* audit_export_degraded: on the edge, if it was given a status to look at.
DegradedFires ==
    IF "status" \in Bound /\ ~LogHealthy /\ ~degraded
    THEN <<Alert("audit_export_degraded", 1)>> ELSE <<>>

ObserveDegraded == degraded' = ("status" \in Bound /\ ~LogHealthy)
-----------------------------------------------------------------------------
(* Emit *)

\* Manager.Emit: a full queue drops the event, and counts as a failed write.
Accept(l) ==
    IF ~set.log THEN l
    ELSE IF l.queue < Depth THEN [l EXCEPT !.queue = @ + 1]
    ELSE [l EXCEPT !.ok = FALSE, !.fails = Capped(@ + 1, FailureLimit + 1)]

\* The event is handed on before the rules see it.
Forward(g) ==
    /\ log' = Accept(log)
    /\ uncounted' = IF IsFallback(Head(emitter[g].todo)) THEN uncounted + 1 ELSE uncounted

Hand(g) ==
    LET e == emitter[g]
    IN  /\ e.at = "forward"
        /\ g = Beater => ~stuck
        /\ Forward(g)
        /\ emitter' = [emitter EXCEPT ![g] =
              IF set.rules THEN [e EXCEPT !.at = "observe", !.now = now]
              ELSE IF Len(e.todo) = 1 THEN Idle ELSE [e EXCEPT !.todo = Tail(@)]]
        /\ UNCHANGED <<set, seenPause, served, rulestate, beatstate, world, told>>

\* Under the engine's lock: every rule sees the event.
Observe(g) ==
    LET e == emitter[g]
        ev == Head(e.todo)
    IN  /\ e.at = "observe"
        /\ emitter' = [emitter EXCEPT ![g].at = "fire",
              ![g].fires = BurstFires(ev, e.now) \o LongFires(ev, e.now) \o SourceFires(ev)
                           \o RiskFires(ev) \o GapFires(ev) \o DegradedFires]
        /\ ObserveBurst(ev, e.now) /\ ObserveLong(ev, e.now) /\ ObserveSource(ev)
        /\ ObserveBeat(ev) /\ ObserveDegraded
        /\ disordered' = (disordered \/ e.now < lastSeen)
        /\ lastSeen' = IF e.now > lastSeen THEN e.now ELSE lastSeen
        /\ UNCHANGED <<set, seenPause, served, age, stuck, late, world, stream>>

\* Outside the lock: the alerts go where the event went, one after the other.
Fire(g) ==
    LET e == emitter[g]
    IN  /\ e.at = "fire"
        /\ IF e.fires # <<>>
             THEN /\ log' = Accept(log)
                  /\ told' = told \cup {Head(e.fires).pattern}
                  /\ uncounted' = IF Head(e.fires).pattern = "admin_fallback_burst"
                                  THEN uncounted - Head(e.fires).count ELSE uncounted
                  /\ emitter' = [emitter EXCEPT ![g].fires = Tail(@)]
             ELSE /\ UNCHANGED stream
                  /\ emitter' = [emitter EXCEPT ![g] =
                        IF Len(e.todo) = 1 THEN Idle
                        ELSE [e EXCEPT !.at = "forward", !.todo = Tail(@)]]
        /\ UNCHANGED <<set, seenPause, served, rulestate, beatstate, world>>

\* A request that meets a window for the first time tells of the change before
\* it is decided; what it decides carries the window and the profile's source.
Decide(r) ==
    /\ emitter[r] = Idle /\ served < set.requests
    /\ served' = served + 1 /\ seenPause' = pause
    /\ \E kind \in IF pause # 0 THEN {"bypass"} ELSE {"plain", "risky"} :
         emitter' = [emitter EXCEPT ![r].at = "forward",
            ![r].todo =
               (IF seenPause \notin {0, pause} THEN <<Event("pause_end", Local)>> ELSE <<>>)
               \o (IF pause \notin {0, seenPause} THEN <<Event("grant", Local)>> ELSE <<>>)
               \o <<Event(kind, source)>>]
    /\ UNCHANGED <<set, rulestate, beatstate, world, stream>>
-----------------------------------------------------------------------------
(* The heartbeat *)

\* A beat at once, then one in each interval.
Due == set.beats /\ emitter[Beater] = Idle /\ age # 0

\* emitOnce: the number and the time come before the event.
Beat ==
    /\ Due
    /\ age' = 0 /\ unseen' = IF set.rules /\ unseen >= 0 THEN unseen + 1 ELSE unseen
    /\ emitter' = [emitter EXCEPT ![Beater].at = "forward",
                                  ![Beater].todo = <<Event("beat", Local)>>]
    /\ UNCHANGED <<set, seenPause, served, times, firstAt, fired, degraded, since, disordered,
                   lastSeen, unhealthy, stuck, late, world, stream>>

\* A channel that takes its events at once, a recorder for one, may hang.
Hang ==
    /\ emitter[Beater].at = "forward" /\ ~stuck
    /\ "hang" \in set.outside /\ changes < MaxChanges /\ changes' = changes + 1
    /\ stuck' = TRUE
    /\ UNCHANGED <<set, now, pause, opened, seenPause, source, served, emitter, rulestate,
                   age, unhealthy, late, disk, stream>>

MarkOnce == unhealthy' = (unhealthy \/ age > 2)

Mark == unhealthy' = (age > 2)

Watchdog ==
    /\ set.beats /\ age >= 0
    /\ Mark
    /\ UNCHANGED <<set, seenPause, served, emitter, rulestate, age, stuck, late, world, stream>>
-----------------------------------------------------------------------------
(* The log's worker, and what happens outside *)

WriteLog ==
    /\ log.queue > 0
    /\ log' = IF disk
              THEN [queue |-> log.queue - 1, ok |-> TRUE, fails |-> 0, age |-> 0, ever |-> TRUE]
              ELSE [log EXCEPT !.queue = @ - 1, !.ok = FALSE,
                               !.fails = Capped(@ + 1, FailureLimit + 1)]
    /\ UNCHANGED <<set, seenPause, served, emitter, rulestate, beatstate, world, uncounted, told>>

\* Time passes.  Before a beat is due again the last one has been made and the
\* worker has written it, but for a few times when the process was slow.
Busy == Due \/ emitter[Beater].at \in {"observe", "fire"} \/ log.queue > 0
        \/ (emitter[Beater].at = "forward" /\ ~stuck)

Pass ==
    /\ now' = Capped(now + 1, MaxTime)
    /\ age' = IF age < 0 THEN age ELSE Capped(age + 1, 3)
    /\ log' = [log EXCEPT !.age = IF log.ever THEN Capped(@ + 1, StaleAfter + 1) ELSE @]
    /\ IF set.beats /\ Busy
         THEN late < MaxLate /\ late' = late + 1
         ELSE UNCHANGED late
    /\ set.beats \/ now < MaxTime
    /\ UNCHANGED <<set, pause, opened, seenPause, source, served, emitter, rulestate, unhealthy,
                   stuck, disk, changes, uncounted, told>>

Change ==
    /\ changes < MaxChanges /\ changes' = changes + 1
    /\ \/ "pause" \in set.outside /\ pause = 0 /\ opened' = opened + 1 /\ pause' = opened' /\ UNCHANGED <<source, disk>>
       \/ "pause" \in set.outside /\ pause # 0 /\ pause' = 0 /\ UNCHANGED <<opened, source, disk>>
       \/ "profile" \in set.outside /\ \E s \in Sources \cup {Local} : s # source /\ source' = s
                                         /\ UNCHANGED <<pause, opened, disk>>
       \/ "disk" \in set.outside /\ disk' = ~disk /\ UNCHANGED <<pause, opened, source>>
    /\ UNCHANGED <<set, now, seenPause, served, emitter, rulestate, beatstate, stream>>

Emit(g) == Hand(g) \/ Observe(g) \/ Fire(g)

Next ==
    \/ \E r \in Requests : Decide(r)
    \/ \E g \in Emitters : Emit(g)
    \/ Beat \/ Hang \/ Watchdog \/ WriteLog \/ Pass \/ Change

\* Tickers tick, the worker takes what is queued, and an Emit returns unless a
\* channel hangs.
Fairness ==
    /\ \A g \in Emitters : WF_vars(Emit(g))
    /\ WF_vars(Beat) /\ WF_vars(Watchdog) /\ WF_vars(WriteLog) /\ WF_vars(Pass)

Spec == Init /\ [][Next]_vars /\ Fairness

\* Nothing is enabled, in an instance that does not look at this module.
Rest ==
    /\ set = [rules |-> FALSE, beats |-> FALSE, log |-> FALSE, requests |-> 0, outside |-> {}]
    /\ now = MaxTime /\ pause = 0 /\ opened = 0 /\ seenPause = 0 /\ source = Local /\ served = 0
    /\ emitter = [g \in Emitters |-> Idle]
    /\ times = {} /\ firstAt = -1 /\ fired = {} /\ unseen = -1 /\ degraded = FALSE
    /\ age = -1 /\ unhealthy = FALSE /\ stuck = FALSE /\ late = 0
    /\ log = [queue |-> 0, ok |-> TRUE, fails |-> 0, age |-> 0, ever |-> FALSE]
    /\ disk = TRUE /\ changes = MaxChanges
    /\ uncounted = 0 /\ since = <<>> /\ disordered = FALSE /\ lastSeen = 0 /\ told = {}
-----------------------------------------------------------------------------
TypeOK ==
    /\ set \in Settings /\ now \in 0 .. MaxTime /\ pause \in 0 .. opened
    /\ Cardinality(times) <= Threshold /\ firstAt \in -1 .. MaxTime /\ fired \subseteq Sources
    /\ unseen \in -1 .. 1 /\ age \in -1 .. 3
    /\ log.queue \in 0 .. Depth /\ log.fails \in 0 .. FailureLimit + 1

\* Bursts are told exactly.  However requests interleave between reading the
\* clock, the rule and handing the alert on, the grants that alerts have counted
\* were handed on before, each counted once; and as long as events are observed
\* in the order of their times, no window holds more grants than the threshold
\* without an alert.
Unreported ==
    \E i \in DOMAIN since :
        Cardinality({j \in DOMAIN since : since[j] \in since[i] - Window .. since[i]}) > Threshold

BurstsAreTold == uncounted >= 0 /\ (disordered \/ ~Unreported)

\* /healthz follows the channels when beats are on: a proxy whose log can be
\* written again and whose beats go on becomes healthy and stays so, one whose
\* log cannot be written or whose beats hang becomes unhealthy, and late beats
\* leave no mark.
HealthFollows ==
    set.beats =>
        /\ <>[](disk /\ ~stuck) => <>[]Healthz
        /\ <>[](~disk \/ stuck) => <>[]~Healthz
-----------------------------------------------------------------------------
(* What the code does not do: MCProcessDegraded.cfg, MCProcessLimits.cfg *)

\* "fires when the underlying export channel's health predicate trips"
\* (alerts.go:1084): nothing gives the rule a status.
DegradedIsAlerted ==
    (set.rules /\ set.beats /\ <>[](~disk /\ ~stuck)) => <>("audit_export_degraded" \in told)

\* "the operator has been in a pause window for at least N minutes" (alerts.go:769):
\* a beat ends the window that the rule tracks.
LongPauseIsTold ==
    (/\ pause # 0 /\ opened = 1 /\ since # <<>>
     /\ since[Len(since)] - since[1] >= LongPause
     /\ \A g \in Requests : emitter[g] = Idle) => "pause_long" \in told

\* The rule drops what is older than the event it sees, which may not be the
\* latest one.
BurstsAreToldInAnyOrder == ~Unreported

\* A proxy without beats that has nothing to log becomes unhealthy.
IdleIsHealthy == (changes = 0 /\ log.queue = 0) => LogHealthy
=============================================================================
