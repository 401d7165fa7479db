-------------------------- MODULE DecisionReaders --------------------------
(***************************************************************************)
(* Those who read the decisions table.  The proxy adds a row per request,   *)
(* in the second in which it began to decide, when it has decided.  Two     *)
(* readers follow the table: `audit tail --follow` and the page at GET /.   *)
(* The others list it once: `audit tail`, GET /audit/events, `investigate`  *)
(* and `denies recent`, each with a window and a filter of its own.         *)
(***************************************************************************)
EXTENDS Naturals, SequencesExt

CONSTANTS
    Request,       \* what is decided, each once
    KindOf,        \* [Request -> [call, verb, agent, session, ns, verdict, enforced]]
    ReaderTime,    \* seconds
    DefaultRows,   \* RecentDecisions gives this many rows when asked for none (50),
    MaxRows,       \* and at most so many (1000)
    FollowBatch,   \* rows that the follower reads at a time (200),
    SeenCap,       \* and fingerprints that it keeps (4096)
    PageLimit,     \* events that the page asks for (200)
    DenyFactor,    \* `denies recent` looks through so many times the rows asked for (4)
    EvidenceRows,  \* rows that investigate asks for (10000)
    Limits,        \* limits that people ask for
    Filters,       \* filters that people ask with: [op, field, value]
    Sinces,        \* instants that people ask from; 0 is none
    Readers        \* who follows the table

ASSUME ReadersAssumption ==
    /\ {ReaderTime, DefaultRows, MaxRows, FollowBatch, SeenCap, PageLimit,
        DenyFactor, EvidenceRows} \subseteq Nat \ {0}
    /\ FollowBatch <= SeenCap /\ {FollowBatch, PageLimit} \subseteq 1 .. MaxRows
    /\ MaxRows <= EvidenceRows /\ Sinces \subseteq Nat
    /\ \A q \in Request : KindOf[q].verdict \in {"allow", "deny", "bypass"}
    /\ Limits \subseteq 1 .. MaxRows /\ Readers \subseteq {"none", "tail", "page"}

VARIABLES
    clock,     \* in seconds: the rows' times have no fraction (store.go:580)
    deciding,  \* requests whose time is taken and whose row is not written
    rows,      \* the table, [req, at]
    reader,    \* the one that follows
    at,        \* "off", "following", "waiting" for a response, "ended"
    want,      \* its filter
    cursor,    \* the latest second it has seen; of the page, lastTimeMs
    seen,      \* fingerprints, or event ids, it has shown
    answer,    \* the rows in the response on its way, and the table's length then
    shown,     \* history: what it showed, one set of rows after the other
    reads,     \* history: the length of the table at each read
    overrun    \* history: rows that were more than a batch behind at a read

table == <<clock, deciding, rows>>
state == <<reader, at, want, cursor, seen, answer>>
history == <<shown, reads, overrun>>
readers == <<table, state, history>>

NoAnswer == [ids |-> {}, rows |-> 0]

ReadersInit ==
    /\ clock = 1 /\ deciding = {} /\ rows = <<>>
    /\ reader \in Readers /\ at = "off" /\ want = {} /\ cursor = 0 /\ seen = {}
    /\ answer = NoAnswer /\ shown = <<>> /\ reads = {} /\ overrun = {}

-----------------------------------------------------------------------------
(* The table *)

\* The time is taken first; everything that a decision waits for comes after it.
Decide(q) ==
    /\ q \notin {d.req : d \in deciding} \cup {rows[i].req : i \in DOMAIN rows}
    /\ deciding' = deciding \cup {[req |-> q, at |-> clock]}
    /\ UNCHANGED <<clock, rows, state, history>>

RecordDecision(d) ==
    /\ deciding' = deciding \ {d} /\ rows' = Append(rows, d)
    /\ UNCHANGED <<clock, state, history>>

ClockTick ==
    /\ clock < ReaderTime /\ clock' = clock + 1
    /\ UNCHANGED <<deciding, rows, state, history>>

Kind(i) == KindOf[rows[i].req]
At(i) == rows[i].at

\* The newest rows.  They come newest first, whoever asks, and a reader keeps that
\* order or turns it round: a listing is the set of its rows.
RecentDecisions(n) ==
    LET k == IF n = 0 THEN DefaultRows ELSE n
    IN  {i \in DOMAIN rows : Len(rows) < i + k /\ Len(rows) < i + MaxRows}

-----------------------------------------------------------------------------
(* A row as an event, and filters on events *)

Unknown == "unknown"

k8sVerbToActivityID(verb) ==
    CASE verb \in {"get", "list", "watch"} -> 2
      [] verb = "create" -> 1
      [] verb \in {"update", "patch"} -> 3
      [] verb \in {"delete", "deletecollection"} -> 4
      [] verb = "" -> 0
      [] OTHER -> 99

\* Success is 1, failure 2: a deny that was not enforced succeeded.
mapVerdictToStatus(k) ==
    CASE k.verdict = "deny" -> IF k.enforced THEN 2 ELSE 1
      [] k.verdict \in {"allow", "bypass"} -> 1
      [] OTHER -> 0

buildActor(k) == IF k.agent \in {"", Unknown} THEN "" ELSE k.agent

Upper == [allow |-> "ALLOW", deny |-> "DENY", bypass |-> "BYPASS"]

\* The fields that filters know.  The type of a marker is not set on a decision.
FromDecision(i) ==
    LET k == Kind(i) IN
    [time       |-> At(i),
     activity   |-> k8sVerbToActivityID(k.verb),
     status     |-> mapVerdictToStatus(k),
     actor      |-> buildActor(k),
     operation  |-> k.verb,
     agent      |-> IF k.agent = "" THEN Unknown ELSE k.agent,
     session    |-> k.session,
     event_type |-> "",
     verdict    |-> Upper[k.verdict],
     enforced   |-> k.enforced,
     namespace  |-> k.ns]

Numeric == {"activity", "status"}
Supported == Numeric \cup {"actor", "operation", "agent", "session", "event_type", "verdict",
                           "enforced", "namespace"}

\* A regexp is the set of the values it matches; the empty one matches all.
EmptyRegexp == {}

Match(ev, f) ==
    CASE f.op = "="  -> ev[f.field] = f.value
      [] f.op = "~"  -> f.value = EmptyRegexp \/ ev[f.field] \in f.value
      [] f.op = ">=" -> f.field \in Numeric /\ ev[f.field] >= f.value
      [] f.op = "<=" -> f.field \in Numeric /\ ev[f.field] <= f.value

MatchAll(i, fs) == \A f \in fs : Match(FromDecision(i), f)

\* What the endpoint takes, and what the commands take.
ParseFilter(f) == f.field \in Supported /\ (f.op \in {">=", "<="} => f.value \in Nat)
ParseFilterExpr(f) == ParseFilter(f) /\ ~(f.op = "~" /\ f.value = EmptyRegexp)

-----------------------------------------------------------------------------
(* Listings, as sets of row ids *)

FirstOf(ids, n) == {i \in ids : Cardinality({j \in ids : i < j}) < n}
Chosen(ids, fs) == {i \in ids : MatchAll(i, fs)}
From(ids, since) == {i \in ids : At(i) >= since}

AuditTail(fs, limit) == Chosen(RecentDecisions(limit), fs)

\* A mutation: the page of answers is cut before the filter.
AuditEventsOfFew(fs, since, limit) == Chosen(From(RecentDecisions(limit), since), fs)

AuditEvents(fs, since, limit) ==
    FirstOf(Chosen(From(RecentDecisions(MaxRows), since), fs), limit)

Evidence(fs, since) == From(Chosen(RecentDecisions(EvidenceRows), fs), since)

IsDeny(i, session) ==
    Kind(i).verdict = "deny" /\ (session = "" \/ Kind(i).session = session)
RecentDenies(session, since, limit) ==
    FirstOf({i \in From(RecentDecisions(DenyFactor * limit), since) : IsDeny(i, session)}, limit)

-----------------------------------------------------------------------------
(* audit tail --follow *)

Fingerprint(i) == <<At(i), Kind(i).call, Kind(i).verdict>>
Latest(t, ids) == Max({t} \cup {At(i) : i \in ids})
Shows(ids) == shown' = IF ids = {} THEN shown ELSE Append(shown, ids)

\* A read of the first n rows, with a window of so many.
Reads(n, window) ==
    /\ reads' = reads \cup {n}
    /\ overrun' = overrun \cup {i \in 1 .. n - window : \A m \in reads : m < i}

StartFollow(limit, fs) ==
    LET initial == Chosen(RecentDecisions(limit), fs)
    IN  /\ reader = "tail" /\ at = "off" /\ at' = "following"
        /\ \A f \in fs : ParseFilterExpr(f)
        /\ want' = fs /\ cursor' = IF initial = {} THEN 0 ELSE At(Max(initial))
        /\ seen' = {Fingerprint(i) : i \in initial} /\ Shows(initial)
        /\ Reads(Len(rows), limit)
        /\ UNCHANGED <<table, reader, answer>>

\* A mutation: the rest of a second is taken as seen.
PassedWithSecond(i) == At(i) <= cursor

Passed(i) == At(i) < cursor

\* Rows are compared with what was shown before this read, not with each other.
PollFollow ==
    LET next  == RecentDecisions(FollowBatch)
        fresh == {i \in Chosen(next, want) : ~Passed(i) /\ Fingerprint(i) \notin seen}
        known == seen \cup {Fingerprint(i) : i \in fresh}
    IN  /\ reader = "tail" /\ at = "following"
        /\ Shows(fresh) /\ cursor' = Latest(cursor, fresh)
        /\ seen' = IF Cardinality(known) > SeenCap THEN {Fingerprint(i) : i \in next} ELSE known
        /\ Reads(Len(rows), FollowBatch)
        /\ UNCHANGED <<table, reader, at, want, answer>>

\* A signal, or a read that fails.
EndFollow ==
    /\ reader = "tail" /\ at = "following" /\ at' = "ended"
    /\ UNCHANGED <<table, reader, want, cursor, seen, answer, history>>

-----------------------------------------------------------------------------
(* The page *)

EventId(i) == <<At(i), FromDecision(i).actor, FromDecision(i).agent, Kind(i).verb>>

\* One request at a time, unless the page is paused; `since` is a millisecond after
\* the latest second seen, which leaves out the rest of that second.
PageAsk ==
    /\ reader = "page" /\ at \in {"off", "following"} /\ at' = "waiting"
    /\ answer' = [ids  |-> AuditEvents({}, IF cursor = 0 THEN 0 ELSE cursor + 1, PageLimit),
                  rows |-> Len(rows)]
    /\ UNCHANGED <<table, reader, want, cursor, seen, history>>

\* The rows are appended as they come, newest first, each id once.
PageLoad ==
    LET fresh == {i \in answer.ids :
                    /\ EventId(i) \notin seen
                    /\ \A j \in answer.ids : i < j => EventId(j) # EventId(i)}
    IN  /\ at = "waiting" /\ at' = "following" /\ answer' = NoAnswer
        /\ Shows(fresh) /\ cursor' = Latest(cursor, fresh)
        /\ seen' = seen \cup {EventId(i) : i \in fresh}
        /\ Reads(answer.rows, PageLimit)
        /\ UNCHANGED <<table, reader, want>>

\* No response, or one that is not 200.
PageLost ==
    /\ at = "waiting" /\ at' = "following" /\ answer' = NoAnswer
    /\ UNCHANGED <<table, reader, want, cursor, seen, history>>

\* The clear button.
PageClear ==
    /\ reader = "page" /\ seen # {} /\ seen' = {}
    /\ UNCHANGED <<table, reader, at, want, cursor, answer, history>>

Follow ==
    \/ \E limit \in Limits, fs \in Filters : StartFollow(limit, fs)
    \/ PollFollow
    \/ EndFollow
Page == PageAsk \/ PageLoad \/ PageLost \/ PageClear

ReadersNext ==
    \/ \E q \in Request : Decide(q)
    \/ \E d \in deciding : RecordDecision(d)
    \/ ClockTick \/ Follow \/ Page

ReadersSpec == ReadersInit /\ [][ReadersNext]_readers
-----------------------------------------------------------------------------
Shown == UNION ToSet(shown)

ReadersTypeOK ==
    /\ clock \in Nat \ {0} /\ deciding \subseteq [req : Request, at : Nat]
    /\ rows \in Seq([req : Request, at : Nat])
    /\ \A d \in deciding \cup ToSet(rows) : d.at \in 1 .. clock
    /\ cursor \in 0 .. clock /\ reads \subseteq 0 .. Len(rows) /\ Shown \subseteq DOMAIN rows

\* A follower skips a row only for a reason it cannot help: the row was recorded
\* behind one of a later second, it looks like one it has shown, or there were
\* too many at once.  The page misses what comes in later in a second it has seen.
ReadBefore(i) == {j \in DOMAIN rows : \E n \in reads : j <= n /\ n < i}

Excused(i) ==
    \/ i \in overrun
    \/ reader = "tail" /\ \E j \in ReadBefore(i) : At(j) > At(i) \/ Fingerprint(j) = Fingerprint(i)
    \/ reader = "page" /\ \E j \in ReadBefore(i) : At(j) >= At(i)
    \/ reader = "page" /\ \E j \in Shown : EventId(j) = EventId(i)

NoneIsSkipped ==
    \A i \in DOMAIN rows :
        (MatchAll(i, want) /\ \E n \in reads : i <= n) => i \in Shown \/ Excused(i)

\* And it shows none twice.
ShowsOnce == \A m, n \in DOMAIN shown : m # n => shown[m] \cap shown[n] = {}

SkipsAreExcused == NoneIsSkipped /\ ShowsOnce

\* Who asks two commands the same gets the same rows, as far back as the shorter
\* answer goes: they differ in how far back they look, not in what
\* they find (audit_events.go:4, denies.go:9).  A listing has nothing to do with those
\* who follow: they are asked for where nobody does.
DeniesOf(session) ==
    {[op |-> "=", field |-> "verdict", value |-> "DENY"]} \cup
    IF session = "" THEN {} ELSE {[op |-> "=", field |-> "session", value |-> session]}

Begins(ids, more) == ids \subseteq more /\ \A i \in ids, j \in more \ ids : j < i

ListingsAgree ==
    reader = "none" =>
      \A limit \in Limits, since \in Sinces :
        /\ \A fs \in Filters :
             /\ Begins(AuditTail(fs, limit), AuditEvents(fs, 0, limit))
             /\ Begins(AuditEvents(fs, since, limit), Evidence(fs, since))
        /\ \A session \in {KindOf[q].session : q \in Request} :
             LET denies == RecentDenies(session, since, limit)
                 events == AuditEvents(DeniesOf(session), since, limit)
             IN  Begins(denies, events) /\ (Len(rows) <= DenyFactor * limit => denies = events)
-----------------------------------------------------------------------------
(* What the code does not do: MCAuditManagerLimits.cfg *)

Missed(i) == MatchAll(i, want) /\ (\E n \in reads : i <= n) /\ i \notin Shown \cup overrun

\* "False-dupes can't happen across distinct rows because RecordDecision always
\* stamps a unique At timestamp" (audit_tail.go:337): it stamps a second.
FollowMissesOnlyLate ==
    reader = "tail" => \A i \in DOMAIN rows : Missed(i) => \E j \in ReadBefore(i) : At(j) > At(i)

\* "Walk oldest-first so we print in chronological order" (audit_tail.go:392): rows
\* of the second in which the first fill ended come after it.
FollowIsChronological ==
    reader = "tail" => 
        \A m, n \in DOMAIN shown : m < n => \A i \in shown[m], j \in shown[n] : i < j

\* "live audit stream" (events_ui.go:1): what comes in later in a second that the
\* page has seen is never asked for.
PageIsLive == reader = "page" => \A i \in DOMAIN rows : ~Missed(i)

\* "so a 24h-window pass against a busy proxy doesn't truncate. The SQLite store
\* caps internally at 10000" (investigate.go:370): it caps at 1000.
EvidenceIsWhole ==
    (reader = "none" /\ Len(rows) <= EvidenceRows) => Evidence({}, 0) = DOMAIN rows

\* "Limit caps the returned row count" (denies.go:126): it caps the rows looked
\* at too, and denies behind as many allowed requests are not found.
DeniesAreFound ==
    reader = "none" =>
      \A limit \in Limits :
        Cardinality(RecentDenies("", 0, limit)) < limit =>
          \A i \in DOMAIN rows :
            Kind(i).verdict = "deny" => i \in RecentDenies("", 0, limit)

\* "same filter language" (audit_events.go:5): the commands refuse an empty regexp.
FiltersAreTheSame ==
    Len(rows) > 0 => \A f \in UNION Filters : ParseFilter(f) => ParseFilterExpr(f)

\* "unmapped.iam_jit.event_type - DECISION / ..." (QUERYING-AUDIT-LOGS.md:305).
DecisionsHaveTheirType ==
    Len(rows) > 0 =>
        AuditTail({[op |-> "=", field |-> "event_type", value |-> "DECISION"]}, MaxRows) # {}
=============================================================================
