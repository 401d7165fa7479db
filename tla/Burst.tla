-------------------------------- MODULE Burst --------------------------------
(***************************************************************************)
(* Bursts of denied requests.  With --prompt-on-deny the proxy writes one   *)
(* pending_prompts row per denied request and feeds a detector, which       *)
(* records a burst_events row when enough prompts fall into its window.     *)
(* `prompts bulk-answer` and the MCP tool resolve a burst: they snapshot    *)
(* the pending (verb, resource) shapes, install one time-bounded ALLOW rule *)
(* for each, answer every pending prompt and stamp the burst.               *)
(*                                                                          *)
(* The bulk answer is deliberately no transaction, so each statement is a   *)
(* step.  A step of the detector is one critical section of its mutex,      *)
(* which it keeps while it writes its row.                                  *)
(***************************************************************************)
EXTENDS Naturals, Sequences, FiniteSets, FiniteSetsExt

CONSTANTS
    Requests,      \* requests; each has at most one prompt
    Answerers,     \* callers of bulk-answer, each a process of its own
    McpAnswerers,  \* those among them that are the MCP tool
    Shapes,        \* (verb, resource) tuples
    Blank,         \* the shapes that lack a half
    Malformed,     \* the shapes whose "resource:verb" is no legal pattern
    Floored,       \* the shapes a profile denies whatever the rules say
    Decisions,     \* the resolutions the answerers pick from
    Ttl,           \* how long the rules of a decision last
    Threshold,     \* prompts that make a burst
    Window,        \* and the time they have to fall into
    Cooldown,      \* silence after a burst
    MaxTime,       \* bound on the clock
    MaxRestarts    \* bound on the restarts of the proxy

TtlDecisions == {"session", "3h", "10min"}

\* What the constants must be; the modules that instantiate this one assume it.
ConstantsAssumption ==
    /\ McpAnswerers \subseteq Answerers
    /\ Blank \subseteq Shapes /\ Malformed \subseteq Shapes /\ Floored \subseteq Shapes
    /\ Decisions \subseteq TtlDecisions \cup {"profile", "none", "auto_expired"}
    /\ Ttl \in [TtlDecisions -> Nat \ {0}]
    /\ {Threshold, Window, Cooldown} \subseteq Nat \ {0}
    /\ MaxTime \in Nat \ {0} /\ MaxRestarts \in Nat

VARIABLES
    clock,
    req,        \* each request: where its goroutine is, its shape, the time it read
    prompts,    \* pending_prompts: status and answer_target, by request
    window,     \* the requests in the detector's window, in the order they came
    coolUntil,  \* end of the detector's silence, 0 when it is armed
    bursts,     \* burst_events: detected_at, the prompts counted, resolution_kind and
                \* resolved_at; also when the prompt that tripped it was stamped, and
                \* which run of the proxy it was
    rules,      \* the bulk-allow rules: shape, expires_at, burst
    job,        \* what each answerer is in the middle of
    restarts

vars == <<clock, req, prompts, window, coolUntil, bursts, rules, job, restarts>>
store    == <<prompts, bursts, rules>>
detector == <<window, coolUntil>>

NoPrompt == [status |-> "none", target |-> ""]
Fresh    == [at |-> "idle", shape |-> "", now |-> 0]
Idle     == [at |-> "idle", decision |-> "", burst |-> 0, now |-> 0, shapes |-> {}, seen |-> {}]

Unresolved == ""

TypeOK ==
    /\ clock \in 1 .. MaxTime
    /\ req \in [Requests -> [at : {"idle", "insert", "stamp", "feed", "done"},
                             shape : Shapes \cup {""}, now : 0 .. MaxTime]]
    /\ prompts \in [Requests -> [status : {"none", "pending", "answered"},
                                 target : Decisions \cup {"", "single"}]]
    /\ window \in Seq(Requests)
    /\ coolUntil \in 0 .. MaxTime + Cooldown
    /\ bursts \in Seq([at : 1 .. MaxTime, by : SUBSET Requests,
                       kind : Decisions \cup {Unresolved}, resolved : 0 .. MaxTime,
                       trip : 1 .. MaxTime, run : 0 .. MaxRestarts])
    /\ rules \subseteq [shape : Shapes, expires : Nat, burst : Nat]
    /\ job \in [Answerers -> [at : {"idle", "snapshot", "install", "flip", "resolve"},
                              decision : Decisions \cup {""}, burst : Nat, now : 0 .. MaxTime,
                              shapes : SUBSET Shapes, seen : SUBSET Requests]]
    /\ restarts \in 0 .. MaxRestarts

Init ==
    /\ clock = 1
    /\ req = [r \in Requests |-> Fresh]
    /\ prompts = [r \in Requests |-> NoPrompt]
    /\ window = <<>>
    /\ coolUntil = 0
    /\ bursts = <<>>
    /\ rules = {}
    /\ job = [o \in Answerers |-> Idle]
    /\ restarts = 0

Tick ==
    /\ clock < MaxTime
    /\ clock' = clock + 1
    /\ UNCHANGED <<req, store, detector, job, restarts>>

-----------------------------------------------------------------------------
(* A request: denied, prompted, fed to the detector *)

\* LoadRuleSet skips a rule from the second on in which it expires.
RuleAllows(s) == \E rule \in rules : rule.shape = s /\ rule.expires > clock

\* EvaluateRequestFull denies; what it lets through leaves no trace here.
Deny(r, s) ==
    /\ req[r].at = "idle"
    /\ s \in Floored \/ ~ RuleAllows(s)
    /\ req' = [req EXCEPT ![r].at = "insert", ![r].shape = s]
    /\ UNCHANGED <<clock, store, detector, job, restarts>>

\* AddPendingPrompt; when it fails the detector is not fed.
InsertPrompt(r) ==
    /\ req[r].at = "insert"
    /\ \/ /\ prompts' = [prompts EXCEPT ![r].status = "pending"]
          /\ req' = [req EXCEPT ![r].at = "stamp"]
       \/ /\ req' = [req EXCEPT ![r].at = "done"]
          /\ UNCHANGED prompts
    /\ UNCHANGED <<clock, detector, bursts, rules, job, restarts>>

\* OnPromptEnqueued reads the clock before it has the mutex.
Stamp(r) ==
    /\ req[r].at = "stamp"
    /\ req' = [req EXCEPT ![r].at = "feed", ![r].now = clock]
    /\ UNCHANGED <<clock, store, detector, job, restarts>>

-----------------------------------------------------------------------------
(* The detector *)

\* The stale entries at the head go, those behind a fresh one stay.
Pruned(w, now) ==
    LET Stale(i) == req[w[i]].now + Window < now
        kept     == {i \in 1 .. Len(w) : ~ Stale(i)}
    IN  IF kept = {} THEN <<>> ELSE SubSeq(w, Min(kept), Len(w))

RecordBurst(r, w) ==
    bursts' = Append(bursts, [at |-> clock, by |-> {w[i] : i \in 1 .. Len(w)},
                              kind |-> Unresolved, resolved |-> 0,
                              trip |-> req[r].now, run |-> restarts])

Silenced(now) == coolUntil # 0 /\ now < coolUntil

ReArmedKeeps == window

\* A cool-down that ran out takes what the window had gathered with it.
ReArmed == IF coolUntil = 0 THEN window ELSE <<>>

CoolsFrom(now) == now + Cooldown

\* onPromptAt.  The silence starts even if the row cannot be written.
Feed(r) ==
    LET now == req[r].now
        w   == Pruned(Append(ReArmed, r), now)
    IN
    /\ req[r].at = "feed"
    /\ req' = [req EXCEPT ![r].at = "done"]
    /\ IF Silenced(now)
       THEN window' = Pruned(window, now) /\ UNCHANGED <<coolUntil, bursts>>
       ELSE /\ window' = w
            /\ IF Len(w) < Threshold
               THEN coolUntil' = 0 /\ UNCHANGED bursts
               ELSE /\ coolUntil' = CoolsFrom(now)
                    /\ RecordBurst(r, w) \/ UNCHANGED bursts
    /\ UNCHANGED <<clock, prompts, rules, job, restarts>>

-----------------------------------------------------------------------------
(* Answering *)

Pending == {r \in Requests : prompts[r].status = "pending"}

\* `prompts answer` on one row; what else it does concerns profiles.yaml.
AnswerOne(r) ==
    /\ r \in Pending
    /\ prompts' = [prompts EXCEPT ![r] = [status |-> "answered", target |-> "single"]]
    /\ UNCHANGED <<clock, req, detector, bursts, rules, job, restarts>>

Open(i) == i \in 1 .. Len(bursts) /\ bursts[i].kind = Unresolved

\* LatestUnresolvedBurst, then the branches of applyBulkAnswer.  A profile
\* switch first writes its reload signal.  The CLI turns auto_expired down.
BeginBulk(o, d) ==
    /\ job[o].at = "idle"
    /\ d = "auto_expired" => o \in McpAnswerers
    /\ \E i \in 1 .. Len(bursts) : Open(i)
    /\ job' = [job EXCEPT ![o] =
                 [Idle EXCEPT !.at = IF d \in TtlDecisions THEN "snapshot" ELSE "flip",
                              !.decision = d,
                              !.burst = Max({i \in 1 .. Len(bursts) : Open(i)}),
                              !.now = clock]]
    /\ UNCHANGED <<clock, req, store, detector, restarts>>

\* SnapshotPendingPromptShapes leaves out the shapes that lack a half.
Snapshot(o) ==
    /\ job[o].at = "snapshot"
    /\ job' = [job EXCEPT ![o].at = "install", ![o].seen = Pending,
                          ![o].shapes = {req[r].shape : r \in Pending} \ Blank]
    /\ UNCHANGED <<clock, req, store, detector, restarts>>

InstallSkipsMalformed(o) ==
    /\ job[o].at = "install"
    /\ \E s \in job[o].shapes :
         /\ job' = [job EXCEPT ![o].shapes = @ \ {s}]
         /\ IF s \in Malformed
            THEN UNCHANGED rules
            ELSE rules' = rules \cup {[shape |-> s, burst |-> job[o].burst,
                                       expires |-> job[o].now + Ttl[job[o].decision]]}
    /\ UNCHANGED <<clock, req, prompts, detector, bursts, restarts>>

\* AddTimeBoundedRule for one shape.  A pattern ParsePattern refuses ends the
\* whole answer; the rules already in stay.
InstallRule(o) ==
    /\ job[o].at = "install"
    /\ \E s \in job[o].shapes :
         IF s \in Malformed
         THEN job' = [job EXCEPT ![o] = Idle] /\ UNCHANGED rules
         ELSE /\ rules' = rules \cup {[shape |-> s, burst |-> job[o].burst,
                                       expires |-> job[o].now + Ttl[job[o].decision]]}
              /\ job' = [job EXCEPT ![o].shapes = @ \ {s}]
    /\ UNCHANGED <<clock, req, prompts, detector, bursts, restarts>>

\* BulkAnswerPendingPrompts: every prompt pending now, seen or not.
FlipPending(o) ==
    /\ job[o].at = "flip" \/ (job[o].at = "install" /\ job[o].shapes = {})
    /\ prompts' = [r \in Requests |->
                     IF r \in Pending
                     THEN [status |-> "answered", target |-> job[o].decision]
                     ELSE prompts[r]]
    /\ job' = [job EXCEPT ![o].at = "resolve"]
    /\ UNCHANGED <<clock, req, detector, bursts, rules, restarts>>

\* UPDATE ... WHERE id = ? AND resolved_at IS NULL.  Nobody resets the detector.
ResolveBurst(o) ==
    /\ job[o].at = "resolve"
    /\ bursts' = IF Open(job[o].burst)
                 THEN [bursts EXCEPT ![job[o].burst].kind = job[o].decision,
                                      ![job[o].burst].resolved = clock]
                 ELSE bursts
    /\ job' = [job EXCEPT ![o] = Idle]
    /\ UNCHANGED <<clock, req, prompts, detector, rules, restarts>>

\* A statement fails, or the process dies.
AnswererStops(o) ==
    /\ job[o].at # "idle"
    /\ job' = [job EXCEPT ![o] = Idle]
    /\ UNCHANGED <<clock, req, store, detector, restarts>>

-----------------------------------------------------------------------------
\* The detector starts empty; the rows stay.
RestartProxy ==
    /\ restarts < MaxRestarts
    /\ restarts' = restarts + 1
    /\ window' = <<>>
    /\ coolUntil' = 0
    /\ req' = [r \in Requests |-> IF req[r].at = "idle" THEN req[r]
                                  ELSE [req[r] EXCEPT !.at = "done"]]
    /\ UNCHANGED <<clock, store, job>>

Next ==
    \/ Tick
    \/ \E r \in Requests :
         \/ \E s \in Shapes : Deny(r, s)
         \/ InsertPrompt(r)
         \/ Stamp(r)
         \/ Feed(r)
         \/ AnswerOne(r)
    \/ \E o \in Answerers :
         \/ \E d \in Decisions : BeginBulk(o, d)
         \/ Snapshot(o)
         \/ InstallRule(o)
         \/ FlipPending(o)
         \/ ResolveBurst(o)
         \/ AnswererStops(o)
    \/ RestartProxy

Spec == Init /\ [][Next]_vars

-----------------------------------------------------------------------------
(* Properties *)

\* A burst counts enough prompts, and no prompt makes two bursts: the window is
\* emptied when the detector is armed again, and by a restart.
BurstsCountFreshPrompts ==
    \A i \in 1 .. Len(bursts) :
      /\ Cardinality(bursts[i].by) >= Threshold
      /\ \A j \in 1 .. i - 1 : bursts[i].by \cap bursts[j].by = {}

\* One proxy records two bursts only with a cool-down after the prompt that
\* tripped the first, in whatever order stamped prompts reach the detector.
BurstsAreSpaced ==
    \A i, j \in 1 .. Len(bursts) :
      (i < j /\ bursts[i].run = bursts[j].run) => bursts[j].at >= bursts[i].trip + Cooldown

\* No prompt counts for two bursts, and two bursts of one proxy are a cool-down
\* apart, in whatever order stamped prompts reach the detector (burst.go:123).
BurstsAreApart == BurstsCountFreshPrompts /\ BurstsAreSpaced

\* A bulk answer that was not broken off has a rule of its burst for every
\* prompt it saw pending, before it answers any: no prompt is lost to a
\* failed or half-done installation.
SeenIsCovered ==
    \A o \in Answerers :
      (job[o].at = "resolve" /\ job[o].decision \in TtlDecisions) =>
        \A r \in job[o].seen :
          req[r].shape \notin Blank =>
            \E rule \in rules : rule.shape = req[r].shape /\ rule.burst = job[o].burst

\* "Install bulk-allow rules ... across every currently-pending prompt in one
\* shot": a prompt answered with a rule lifetime has a rule.
AnsweredIsCovered ==
    \A r \in DOMAIN prompts :
      (prompts[r].target \in TtlDecisions /\ req[r].shape \notin Blank) =>
        \E rule \in rules : rule.shape = req[r].shape

\* The resolution kind tells the truth about the rules: a burst resolved
\* without a rule change has none.
ResolutionTellsRules ==
    \A i \in 1 .. Len(bursts) :
      bursts[i].kind = "none" => ~ \E rule \in rules : rule.burst = i

\* What the snapshot hands over can be installed.
ShapesAreLegal == \A o \in Answerers : job[o].shapes \cap Malformed = {}

\* With a burst resolved the detector starts afresh: enough prompts stamped
\* since, within a window, are a burst to act on.
LateBurstIsOffered ==
    \A i \in 1 .. Len(bursts) :
      LET late == {r \in Pending : /\ req[r].at = "done"
                                   /\ req[r].now > bursts[i].resolved
                                   /\ req[r].now + Window >= clock}
      IN  (~ Open(i) /\ Cardinality(late) >= Threshold) => \E j \in 1 .. Len(bursts) : Open(j)
=============================================================================
