------------------------------- MODULE Decision -------------------------------
(***************************************************************************)
(* One proxied request, from the handler to the client's answer.  A request *)
(* goroutine reads the layers that decide - the active profile, the dynamic *)
(* denies, the pause, the task, the rules - at different moments, some from *)
(* memory and some with a query of its own, while operators change them.    *)
(* It records the decision, emits the audit event, enqueues a prompt and    *)
(* only then answers the client.                                            *)
(*                                                                          *)
(* A layer is modelled by what it says of the request at hand.  How the     *)
(* layers come to change, how they expire and how a synchronous prompt is   *)
(* answered are the subject of Pause, TaskScope, ProfileReload, Burst and   *)
(* SyncPrompt.                                                              *)
(***************************************************************************)
EXTENDS Naturals, FiniteSets

CONSTANTS
    Requests,    \* request goroutines
    Configs,     \* how the proxy may be started
    Profiles,    \* what profiles say of the request: see ProfileDenies
    MaxChanges   \* bound on the changes operators make

Hits == {"impersonation", "keyword", "exception", "cluster", "verb", "exempt",
         "subresource_write", "log", "allow_rule"}

ASSUME ConstantsAssumption ==
    /\ Configs \subseteq [transparent : BOOLEAN, default_allow : BOOLEAN,
                          prompt_on_deny : BOOLEAN, sync_prompt : BOOLEAN,
                          anomaly_block : BOOLEAN]
    /\ Profiles \subseteq [full_user : BOOLEAN, hits : SUBSET Hits]
    /\ MaxChanges \in Nat

VARIABLES
    config,    \* the command line; it never changes
    profile,   \* the active profile
    dynamic,   \* a dynamic deny rule matches the request
    pause,     \* a pause is active
    task,      \* the effects of the active task's rules that match, or NoTask
    rules,     \* the effects of the global rules that match
    refusing,  \* the disk-pressure breaker is open
    changes,
    loc,       \* the locals of each request: see Unborn
    held       \* the layers that have not changed since the request came in

layers == <<profile, dynamic, pause, task, rules, refusing>>
vars   == <<config, layers, changes, loc, held>>

NoTask  == {"none"}
Effects == SUBSET {"allow", "deny"}
Layers  == {"profile", "dynamic", "task", "rules"}

Kinds == {"unclassifiable", "meta", "resource"}

\* Where a request is, what it is, what it read, the observation (verdict,
\* source, enforced), what it left behind and what the client got.
Unborn == [at |-> "idle", kind |-> "resource", dry |-> FALSE,
           profile |-> [full_user |-> TRUE, hits |-> {}],
           dynamic |-> FALSE, paused |-> FALSE, task |-> NoTask, rules |-> {}, failed |-> {},
           verdict |-> "", source |-> "", enforced |-> FALSE,
           row |-> "", event |-> "", prompt |-> FALSE, outcome |-> ""]

Places   == {"idle", "profile", "dynamic", "pause", "floors", "task", "task_deny", "rules", "compose",
             "record", "emit", "prompt", "answer", "sync", "done"}
Sources  == {"", "unclassifiable", "profile", "meta_discovery", "dynamic", "profile_allow",
             "task", "global", "default", "anomaly_block"}
Outcomes == {"", "unavailable", "forbidden", "forwarded", "forwarded_on_answer", "refused"}

Locals ==
    [at : Places, kind : Kinds, dry : BOOLEAN,
     profile : Profiles \cup {Unborn.profile},
     dynamic : BOOLEAN, paused : BOOLEAN,
     task : Effects \cup {NoTask}, rules : Effects,
     failed : SUBSET {"task", "rules"},
     verdict : {"", "allow", "deny"}, source : Sources, enforced : BOOLEAN,
     row : {"", "allow", "deny", "unwritten"}, event : {"", "allow", "deny"},
     prompt : BOOLEAN, outcome : Outcomes]

TypeOK ==
    /\ config \in Configs
    /\ profile \in Profiles
    /\ dynamic \in BOOLEAN /\ pause \in BOOLEAN /\ refusing \in BOOLEAN
    /\ task \in Effects \cup {NoTask}
    /\ rules \in Effects
    /\ changes \in 0 .. MaxChanges
    /\ held \in [Requests -> SUBSET Layers]
    /\ loc \in [Requests -> Locals]

Init ==
    /\ config \in Configs
    /\ profile \in Profiles
    /\ dynamic \in BOOLEAN /\ pause \in BOOLEAN
    /\ task \in Effects \cup {NoTask}
    /\ rules \in Effects
    /\ refusing = FALSE
    /\ changes = 0
    /\ loc = [r \in Requests |-> Unborn]
    /\ held = [r \in Requests |-> {}]

-----------------------------------------------------------------------------
(* The pure parts *)

\* A rule set's verdict: a deny beats an allow, whatever their order.
RuleVerdict(effects) ==
    CASE "deny" \in effects                        -> "deny"
      [] "allow" \in effects /\ "deny" \notin effects -> "allow"
      [] OTHER                                     -> "none"

\* Profile.Evaluate abstains for full-user and for dry runs.
Abstains(p, dry) == p.full_user \/ dry

\* An exception lifts keyword denies, an exemption verb denies; neither lifts
\* any other.  Writes to a log subresource are not counted as writes.
ProfileDenies(p, dry) ==
    /\ ~ Abstains(p, dry)
    /\ \/ "impersonation" \in p.hits
       \/ "keyword" \in p.hits /\ "exception" \notin p.hits
       \/ "cluster" \in p.hits
       \/ "verb" \in p.hits /\ "exempt" \notin p.hits
       \/ "subresource_write" \in p.hits /\ "log" \notin p.hits

\* allow_rules are looked at when no profile layer denied.
ProfileAllows(p, dry) ==
    ~ Abstains(p, dry) /\ ~ ProfileDenies(p, dry) /\ "allow_rule" \in p.hits

Enforcing(r) == config.transparent /\ ~ loc[r].paused

-----------------------------------------------------------------------------
(* Operators and clocks change the layers *)

Touched(layer) == held' = [r \in Requests |-> held[r] \ {layer}]

Change ==
    /\ changes < MaxChanges
    /\ changes' = changes + 1
    /\ \/ /\ profile' \in Profiles \ {profile}
          /\ Touched("profile") /\ UNCHANGED <<dynamic, pause, task, rules, refusing>>
       \/ /\ dynamic' = ~ dynamic
          /\ Touched("dynamic") /\ UNCHANGED <<profile, pause, task, rules, refusing>>
       \/ /\ pause' = ~ pause
          /\ UNCHANGED <<held, profile, dynamic, task, rules, refusing>>
       \/ /\ task' \in (Effects \cup {NoTask}) \ {task}
          /\ Touched("task") /\ UNCHANGED <<profile, dynamic, pause, rules, refusing>>
       \/ /\ rules' \in Effects \ {rules}
          /\ Touched("rules") /\ UNCHANGED <<profile, dynamic, pause, task, refusing>>
       \/ /\ refusing' = ~ refusing
          /\ UNCHANGED <<held, profile, dynamic, pause, task, rules>>
    /\ UNCHANGED <<config, loc>>

-----------------------------------------------------------------------------
(* handle: the breaker, then the two snapshots from memory *)

Quiet == UNCHANGED <<config, layers, changes, held>>

Arrive(r, kind, dry) ==
    /\ loc[r].at = "idle"
    /\ loc' = [loc EXCEPT ![r] =
                 IF refusing
                 THEN [@ EXCEPT !.at = "done", !.outcome = "unavailable"]
                 ELSE [@ EXCEPT !.at = "profile", !.kind = kind, !.dry = dry]]
    /\ held' = [held EXCEPT ![r] = Layers]
    /\ UNCHANGED <<config, layers, changes>>

ReadProfile(r) ==
    /\ loc[r].at = "profile"
    /\ loc' = [loc EXCEPT ![r].at = "dynamic", ![r].profile = profile]
    /\ Quiet

ReadDynamic(r) ==
    /\ loc[r].at = "dynamic"
    /\ loc' = [loc EXCEPT ![r].at = "pause", ![r].dynamic = dynamic]
    /\ Quiet

-----------------------------------------------------------------------------
(* EvaluateRequestFull *)

\* A lookup that fails counts as no pause.
LookupPause(r) ==
    /\ loc[r].at = "pause"
    /\ \E seen \in {pause, FALSE} : loc' = [loc EXCEPT ![r].at = "floors", ![r].paused = seen]
    /\ Quiet

\* The observation of a deny terminal.
Denied(r, source) ==
    loc' = [loc EXCEPT ![r].at = "record", ![r].verdict = "deny", ![r].source = source,
                       ![r].enforced = Enforcing(r)]

\* An allow terminal, with the anomaly hook that may tighten it.  A block is
\* enforced in every mode.
Allowed(r, source) ==
    \/ loc' = [loc EXCEPT ![r].at = "record", ![r].verdict = "allow", ![r].source = source]
    \/ /\ config.anomaly_block
       /\ loc' = [loc EXCEPT ![r].at = "record", ![r].verdict = "deny",
                             ![r].source = "anomaly_block", ![r].enforced = TRUE]

FloorsAllowFirst(r) ==
    LET q == loc[r] IN
    /\ q.at = "floors"
    /\ \/ q.kind = "unclassifiable" /\ Denied(r, "unclassifiable")
       \/ /\ q.kind # "unclassifiable"
          /\ IF ProfileDenies(q.profile, q.dry)
             THEN Denied(r, "profile")
             ELSE \/ q.kind = "meta" /\ Allowed(r, "meta_discovery")
                  \/ /\ q.kind = "resource"
                     /\ IF ProfileAllows(q.profile, q.dry) THEN Allowed(r, "profile_allow")
                        ELSE IF q.dynamic THEN Denied(r, "dynamic")
                        ELSE loc' = [loc EXCEPT ![r].at = "task"]
    /\ Quiet

\* The floors, in order: a request that cannot be parsed, the profile's denies,
\* the discovery calls, the dynamic denies, the profile's allow rules.
Floors(r) ==
    LET q == loc[r] IN
    /\ q.at = "floors"
    /\ \/ q.kind = "unclassifiable" /\ Denied(r, "unclassifiable")
       \/ /\ q.kind # "unclassifiable"
          /\ IF ProfileDenies(q.profile, q.dry)
             THEN Denied(r, "profile")
             ELSE \/ q.kind = "meta" /\ Allowed(r, "meta_discovery")
                  \/ /\ q.kind = "resource"
                     /\ IF q.dynamic THEN Denied(r, "dynamic")
                        ELSE IF ProfileAllows(q.profile, q.dry) THEN Allowed(r, "profile_allow")
                        ELSE loc' = [loc EXCEPT ![r].at = "task"]
    /\ Quiet

\* A lookup that fails counts as no task.
LookupTask(r) ==
    /\ loc[r].at = "task"
    /\ \/ loc' = [loc EXCEPT ![r].at = "task_deny", ![r].task = task]
       \/ loc' = [loc EXCEPT ![r].at = "task_deny", ![r].failed = @ \cup {"task"}]
    /\ Quiet

TaskDenies(r) ==
    /\ loc[r].at = "task_deny"
    /\ IF "deny" \in loc[r].task
       THEN Denied(r, "task")
       ELSE loc' = [loc EXCEPT ![r].at = "rules"]
    /\ Quiet

\* LoadRuleSet; a query that fails counts as no rules.
LoadRules(r) ==
    /\ loc[r].at = "rules"
    /\ \/ loc' = [loc EXCEPT ![r].at = "compose", ![r].rules = rules]
       \/ loc' = [loc EXCEPT ![r].at = "compose", ![r].failed = @ \cup {"rules"}]
    /\ Quiet

DefaultUnderTask(r, global) ==
    LET q == loc[r] IN
    CASE global = "deny"                                        -> Denied(r, "global")
      [] q.task # NoTask /\ global # "deny" /\ "allow" \in q.task -> Allowed(r, "task")
      [] global = "allow" /\ "allow" \notin q.task              -> Allowed(r, "global")
      [] OTHER -> IF config.default_allow THEN Allowed(r, "default") ELSE Denied(r, "default")

\* A global deny first; under a task, what neither the task nor a global rule
\* allows is out of scope; without one the default policy has the last word.
GlobalAndTask(r, global) ==
    LET q == loc[r] IN
    CASE global = "deny"                                        -> Denied(r, "global")
      [] q.task # NoTask /\ global # "deny" /\ "allow" \in q.task -> Allowed(r, "task")
      [] global = "allow" /\ "allow" \notin q.task              -> Allowed(r, "global")
      [] q.task # NoTask /\ global = "none" /\ "allow" \notin q.task -> Denied(r, "task")
      [] OTHER -> IF config.default_allow THEN Allowed(r, "default") ELSE Denied(r, "default")

Compose(r) ==
    /\ loc[r].at = "compose"
    /\ GlobalAndTask(r, RuleVerdict(loc[r].rules))
    /\ Quiet

-----------------------------------------------------------------------------
(* The trail, then the answer *)

\* writeDecision; a write that fails leaves decision id 0 and is only counted.
WriteDecision(r) ==
    /\ loc[r].at = "record"
    /\ \E row \in {loc[r].verdict, "unwritten"} :
         loc' = [loc EXCEPT ![r].at = "emit", ![r].row = row]
    /\ Quiet

EmitAuditEvent(r) ==
    /\ loc[r].at = "emit"
    /\ loc' = [loc EXCEPT ![r].at = "prompt", ![r].event = loc[r].verdict]
    /\ Quiet

Recorded(r) == loc[r].row \in {"allow", "deny"}

\* The guards of maybeEnqueuePrompt: the mode asked for, not the effective one.
PromptDue(r) ==
    /\ config.prompt_on_deny /\ ~ config.sync_prompt
    /\ config.transparent
    /\ loc[r].verdict = "deny" /\ Recorded(r)
    /\ ~ loc[r].paused

\* AddPendingPrompt may fail; that is only counted too.
MaybeEnqueuePrompt(r) ==
    /\ loc[r].at = "prompt"
    /\ \E prompt \in {PromptDue(r), FALSE} :
         loc' = [loc EXCEPT ![r].at = "answer", ![r].prompt = prompt]
    /\ Quiet

Finish(r, outcome) == loc' = [loc EXCEPT ![r].at = "done", ![r].outcome = outcome]

\* A block that is decided after the record was written.
RespondTightens(r) ==
    /\ loc[r].at = "answer"
    /\ IF ~ loc[r].enforced
       THEN \/ Finish(r, "forwarded")
            \/ Finish(r, "refused")
            \/ config.anomaly_block /\ Finish(r, "forbidden")
       ELSE IF config.sync_prompt /\ config.transparent /\ Recorded(r)
            THEN loc' = [loc EXCEPT ![r].at = "sync"]
            ELSE Finish(r, "forbidden")
    /\ Quiet

\* handle, after the evaluation.  What is passed on ends in the observation
\* body, upstream, or in a refusal (host mismatch, bad gateway).
Respond(r) ==
    /\ loc[r].at = "answer"
    /\ IF ~ loc[r].enforced
       THEN Finish(r, "forwarded") \/ Finish(r, "refused")
       ELSE IF config.sync_prompt /\ config.transparent /\ Recorded(r)
            THEN loc' = [loc EXCEPT ![r].at = "sync"]
            ELSE Finish(r, "forbidden")
    /\ Quiet

\* handleSyncPromptDeny: see SyncPrompt.
AnswerSync(r) ==
    /\ loc[r].at = "sync"
    /\ \E outcome \in {"forwarded_on_answer", "refused", "forbidden"} : Finish(r, outcome)
    /\ Quiet

-----------------------------------------------------------------------------
Next ==
    \/ Change
    \/ \E r \in Requests :
         \/ \E kind \in Kinds, dry \in BOOLEAN : Arrive(r, kind, dry)
         \/ ReadProfile(r)
         \/ ReadDynamic(r)
         \/ LookupPause(r)
         \/ Floors(r)
         \/ LookupTask(r)
         \/ TaskDenies(r)
         \/ LoadRules(r)
         \/ Compose(r)
         \/ WriteDecision(r)
         \/ EmitAuditEvent(r)
         \/ MaybeEnqueuePrompt(r)
         \/ Respond(r)
         \/ AnswerSync(r)

Spec == Init /\ [][Next]_vars
-----------------------------------------------------------------------------
(* Properties *)

\* What no exception, exemption or allow rule of a profile lifts.
HardFloor(p, dry) ==
    ~ Abstains(p, dry) /\ {"impersonation", "cluster"} \cap p.hits # {}

Standing(r, layer) == layer \in held[r] /\ layer \notin loc[r].failed

\* A deny that stood from before the request came in until it was answered is
\* enforced, however the other layers changed in between and whatever they
\* allow: the profile's over everything, the dynamic deny over everything but
\* discovery, task and global denies over all but a profile allow rule.
StandingDenyHolds ==
    \A r \in Requests :
      LET q == loc[r]
          ruled == q.kind = "resource" /\ ~ ProfileAllows(q.profile, q.dry)
      IN
      (q.outcome = "forwarded" /\ Enforcing(r)) =>
        /\ ~ (Standing(r, "profile") /\ ProfileDenies(profile, q.dry))
        /\ ~ (Standing(r, "profile") /\ HardFloor(profile, q.dry))
        /\ ~ (Standing(r, "dynamic") /\ dynamic /\ q.kind = "resource")
        /\ ~ (Standing(r, "task") /\ ruled /\ "deny" \in task)
        /\ ~ (Standing(r, "rules") /\ ruled /\ "deny" \in rules)

\* With a task active the default policy is out of reach: what the task does not
\* allow needs a global or a profile allow.
StandingTaskNarrows ==
    \A r \in Requests :
      (loc[r].source = "default" /\ loc[r].verdict = "allow" /\ Standing(r, "task")) =>
        task = NoTask

\* The trail agrees with the answer: what was recorded or exported as allowed is
\* never refused by the proxy's own decision, and a recorded deny that is
\* forwarded was not to be enforced.
TrailTellsAnswer ==
    \A r \in Requests :
      LET q == loc[r] IN
      /\ q.outcome = "forbidden" => q.event = "deny" /\ q.row \in {"deny", "unwritten"}
      /\ q.outcome = "forwarded" =>
           /\ q.event = q.verdict /\ q.row \in {q.verdict, "unwritten"}
           /\ q.verdict = "deny" => ~ Enforcing(r)

\* An asynchronous prompt is only raised for a request the client is refused.
PromptMeansForbidden ==
    \A r \in Requests :
      (loc[r].prompt /\ loc[r].outcome # "") =>
        loc[r].outcome = "forbidden" /\ loc[r].row = "deny"

\* Verdicts are advisory in cooperative mode and during a pause.
AdvisoryNeverBlocks ==
    \A r \in Requests : loc[r].outcome = "forbidden" => Enforcing(r)
=============================================================================
