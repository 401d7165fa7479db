------------------------------ MODULE Learning ------------------------------
(***************************************************************************)
(* How denied and allowed requests become policy.  A request is decided and *)
(* recorded; operators answer the prompt of a deny, follow the command that *)
(* is suggested for it, write rules, presets, profile allows and dynamic    *)
(* denies, or let the recommender turn what was allowed into rules or a     *)
(* profile; agents open tasks and ask what a request would get; the next    *)
(* requests are decided by what came of it.                                 *)
(*                                                                          *)
(* The active profile is one local profile: `filed` are its allow rules in  *)
(* profiles.yaml, `loaded` those of the running proxy.  How a reload gets   *)
(* from one to the other is in ProfileReload, how writers of the file race  *)
(* each other in ProfilesFile.                                              *)
(***************************************************************************)
EXTENDS Matching

CONSTANTS
    Cluster,       \* the cluster the proxy was started for
    Requests,      \* raw requests that clients send
    Profile,       \* the denies of the active profile
    Generated,     \* those in it that a generator wrote
    DefaultAllow,  \* the default policy
    Declarations,  \* what an agent may declare for a task
    Shorthands,    \* lists of shorthand rules for a task
    OperatorRules, \* rules an operator may add
    Presets,       \* rules that come with the program
    DenyFiles,     \* files of dynamic denies
    OperatorAllows,\* profile allows an operator may add
    Family,        \* of a name: the prefix it shares with others
    MinSupport,    \* rows before a rule is recommended
    MaxRows, MaxActs

\* The action of the command that the listing of recent denies suggests: the
\* group in front of the resource.
SuggestedAction == "group/resource"

\* No resource has a slash in it, and a colon only that of a discovery call; rules
\* of operators and presets do not come from a task or a saved profile.
ASSUME LearningAssumption ==
    /\ {MinSupport, MaxRows, MaxActs} \subseteq Nat /\ DefaultAllow \in BOOLEAN
    /\ Requests \subseteq [method : STRING, path : Seq(STRING), query : SUBSET STRING,
                           impersonated : BOOLEAN]
    /\ \A raw \in Requests :
         Parse(raw).kind = "resource" => Parse(raw).resource \notin {"meta", SuggestedAction}
    /\ FromGenerator(Profile, Generated).targets \subseteq {"resource_name", "namespace", "cluster"}
    /\ \A rule \in OperatorRules \cup UNION Presets : rule.origin \notin {"task", "saved"}

VARIABLES
    rows,     \* the decisions table: [raw, verdict, source, task]
    prompts,  \* rows with a pending prompt
    rules,    \* the rules table
    filed, loaded,
    task,     \* the rules of the active task, none if there is none
    denies,   \* the patterns of the dynamic denies in force
    job,      \* rules that a command has still to insert
    answered, \* history: rows whose prompt was answered with the profile
    acts,     \* history: what was asked for, [resource, verbs, nss, by]
    removed,  \* history: recommended rules that an operator removed
    count     \* acts so far

table == <<rows, prompts>>
policy == <<rules, filed, loaded, task, denies, job>>
history == <<answered, acts, removed>>
vars == <<table, policy, history, count>>

Init ==
    /\ rows = <<>> /\ prompts = {} /\ rules = {} /\ filed = {} /\ loaded = {}
    /\ task = {} /\ denies = {} /\ job = {} /\ answered = {} /\ acts = {} /\ removed = {} /\ count = 0

-----------------------------------------------------------------------------
(* A request *)

Active == FromGenerator(Profile, Generated)

Allow(source) == [verdict |-> "allow", source |-> source]
Deny(source)  == [verdict |-> "deny", source |-> source]

\* EvaluateRequestFull without pauses, which Decision has.
Decide(r) ==
    LET global == RuleSetEvaluate(rules, r)
        scope  == RuleSetEvaluate(task, r)
        Under  == RuleSetEvaluate({x \in task : x.effect = "allow"}, r)
    IN  IF r.kind = "malformed" THEN Deny("unclassifiable")
        ELSE IF ProfileDenies(Active, r, Cluster) THEN Deny("profile")
        ELSE IF r.kind = "meta" THEN Allow("meta")
        ELSE IF DenyMatches(denies, r, Cluster) THEN Deny("dynamic")
        ELSE IF ProfileAllows(Active, loaded, r) THEN Allow("profile_allow")
        ELSE IF scope = "deny" THEN Deny("task")
        ELSE IF global = "deny" THEN Deny("global")
        ELSE IF Under = "allow" THEN Allow("task")
        ELSE IF global = "allow" THEN Allow("global")
        ELSE IF task # {} THEN Deny("task")
        ELSE IF DefaultAllow THEN Allow("default") ELSE Deny("default")

Floors == {"unclassifiable", "profile", "meta", "dynamic", "profile_allow"}

\* The row carries the task that was active after the floors; `during` is that
\* there was one.  A denied request of a transparent proxy leaves a prompt.
Request(raw) ==
    LET d == Decide(Parse(raw)) IN
    /\ Len(rows) < MaxRows
    /\ rows' = Append(rows, [raw |-> raw, verdict |-> d.verdict, source |-> d.source,
                             task |-> task # {} /\ d.source \notin Floors, during |-> task # {}])
    /\ prompts' = IF d.verdict = "deny" THEN prompts \cup {Len(rows')} ELSE prompts
    /\ UNCHANGED <<policy, history, count>>

\* toolDecide: the profile as the agent's server loaded it, and the rules.  It
\* knows no headers and no cluster.
Preview(raw, allows) ==
    LET r == Parse([raw EXCEPT !.impersonated = FALSE])
        global == RuleSetEvaluate(rules, r)
    IN  IF r.kind = "malformed" THEN Deny("unclassifiable")
        ELSE IF ProfileDenies(Active, r, None) THEN Deny("profile")
        ELSE IF ProfileAllows(Active, allows, r) THEN Allow("profile_allow")
        ELSE IF global # "none" THEN [verdict |-> global, source |-> "global"]
        ELSE IF DefaultAllow THEN Allow("default") ELSE Deny("default")

-----------------------------------------------------------------------------
(* Operators *)

Act == count < MaxActs /\ count' = count + 1

Remember(resource, verbs, nss, by) ==
    acts' = acts \cup {[resource |-> resource, verbs |-> verbs, nss |-> nss, by |-> by]}

\* Permissions among rules; of an operator's, scopes are remembered too.
RememberRules(added) ==
    acts' = acts \cup {[resource |-> x.resource, verbs |-> x.verbs, nss |-> x.nss,
                        by |-> x.origin] : x \in {y \in added : y.effect = "allow"}}

\* Store.AddRule
Accepted(rule) == ParsePattern(rule.resource) /\ rule.effect \in {"allow", "deny"}

\* newRulesAddCmd and toolAddRule, of a rule that is not in the table yet.
AddRule(rule) ==
    /\ Act /\ Accepted(rule) /\ rule \notin rules
    /\ rules' = rules \cup {rule}
    /\ RememberRules({rule})
    /\ UNCHANGED <<table, filed, loaded, task, denies, job, answered, removed>>

\* newRulesRemoveCmd and toolRemoveRule
RemoveRule(rule) ==
    /\ Act /\ rules' = rules \ {rule}
    /\ removed' = IF rule.origin = "recommendation" THEN removed \cup {rule} ELSE removed
    /\ UNCHANGED <<table, filed, loaded, task, denies, job, answered, acts>>

\* toolApplyPreset: a rule at a time, as ApplyNext.
ApplyPreset(preset) ==
    /\ job = {} /\ Act
    /\ job' = {[rule |-> x, support |-> 0] : x \in preset \ rules}
    /\ RememberRules(preset)
    /\ UNCHANGED <<table, rules, filed, loaded, task, denies, answered, removed>>

\* newProfileAllowCmd
ProfileAllow(rule) ==
    /\ Act /\ filed' = filed \cup {rule}
    /\ Remember(rule.resource, rule.verbs, rule.target, "user")
    /\ UNCHANGED <<table, rules, loaded, task, denies, job, answered, removed>>

\* The resource of the allow rule of an answered prompt: "decision-N" for a
\* request that could not be parsed.
PromptResource(r) ==
    IF r.resource # None THEN r.resource ELSE IF r.verb # None THEN "*" ELSE "decision"

PromptPatternOfMethod(r) ==
    [resource |-> PromptResource(r),
     verbs |-> IF r.verb = None THEN AllVerbs ELSE {r.method}, target |-> Any]

\* Its verb is "*" if there is none.
PromptPattern(r) ==
    [resource |-> PromptResource(r),
     verbs |-> IF r.verb = None THEN AllVerbs ELSE {r.verb}, target |-> Any]

\* newPromptsAnswerCmd.  Any kind of answer but "profile" changes no policy.
Answer(p) ==
    LET rule == PromptPattern(Parse(rows[p].raw)) IN
    /\ Act /\ prompts' = prompts \ {p}
    /\ \/ UNCHANGED <<filed, answered, acts>>
       \/ /\ filed' = filed \cup {rule} /\ answered' = answered \cup {p}
          /\ Remember(rule.resource, rule.verbs, Any, "user")
    /\ UNCHANGED <<rows, rules, loaded, task, denies, job, removed>>

\* The command that is suggested for a row: the target is namespace and name.
SuggestedTarget(r) == IF r.ns = None THEN Any ELSE {r.ns}
Suggested(p) ==
    LET r == Parse(rows[p].raw) IN
    /\ rows[p].verdict = "deny" /\ {r.ns, r.name} # {None}
    /\ Act
    /\ filed' = filed \cup {[resource |-> SuggestedAction, verbs |-> {r.verb},
                             target |-> SuggestedTarget(r)]}
    /\ UNCHANGED <<table, rules, loaded, task, denies, job, history>>

Reload == /\ loaded # filed /\ loaded' = filed
          /\ UNCHANGED <<table, rules, filed, task, denies, job, history, count>>

\* A rewritten file of dynamic denies; one that is not valid changes nothing.
LoadDenies(file) ==
    /\ Act /\ denies' = IF Valid(file) THEN Patterns(file) ELSE denies
    /\ UNCHANGED <<table, rules, filed, loaded, task, job, history>>

-----------------------------------------------------------------------------
(* Tasks *)

TaskRule(resource, verbs, nss, names, effect) ==
    [resource |-> resource, verbs |-> verbs, nss |-> nss, names |-> names, effect |-> effect,
     origin |-> "task"]

\* BuildScope and AddTask: one rule that is not right refuses the task.
OpenTask(scope) ==
    /\ Act /\ task = {} /\ scope # {} /\ \A rule \in scope : ParsePattern(rule.resource)
    /\ task' = scope
    /\ UNCHANGED <<table, rules, filed, loaded, denies, job, answered, removed>>

\* newTasksStartCmd: a scope of a shorthand with characters no name has is an
\* error of the whole list.
StartTask(list) ==
    /\ \A x \in list : x.formed
    /\ OpenTask({TaskRule(x.resource, x.verbs, x.nss, x.names, x.effect) : x \in list})
    /\ RememberRules(task')

\* toolScopeSelfForTask: several namespaces are no scope.
Declared(d) ==
    LET nss == IF Cardinality(d.nss) = 1 THEN d.nss ELSE Any IN
    {TaskRule(x, v, nss, Any, "allow") : x \in d.resources, v \in d.verbs}
        \cup {TaskRule("*", v, Any, Any, "deny") : v \in d.denied}

ScopeSelf(d) ==
    /\ d.resources # {} /\ d.verbs # {}
    /\ OpenTask(Declared(d))
    /\ acts' = acts \cup {[resource |-> x, verbs |-> v, nss |-> d.nss, by |-> "task"] :
                           x \in d.resources, v \in d.verbs}

\* newTasksEndCmd and toolEndTask
EndTask == /\ task # {} /\ Act /\ task' = {}
           /\ UNCHANGED <<table, rules, filed, loaded, denies, job, history>>

\* TaskReviewSummary: the rows with a task.
Review == {i \in DOMAIN rows : rows[i].task}

-----------------------------------------------------------------------------
(* The recommender *)

HasResource(i) == Parse(rows[i].raw).resource # None

ObservedUnderTasks(from) == {i \in from .. Len(rows) : rows[i].verdict = "allow" /\ HasResource(i)}

\* Allowed rows outside of tasks that have a resource, from a point in time on.
Observed(from) ==
    {i \in from .. Len(rows) : rows[i].verdict = "allow" /\ ~rows[i].task /\ HasResource(i)}

Kind(i) == LET r == Parse(rows[i].raw) IN <<r.resource, r.verb>>

\* The scope of a group: a name all rows share or the prefix they share, if half
\* of the rows have one.
Prefix(values, support, observed) ==
    IF values = {} \/ 2 * observed < support THEN Any
    ELSE IF Cardinality(values) = 1 THEN values
    ELSE IF Cardinality({Family[v] : v \in values}) = 1
    THEN {v \in DOMAIN Family : Family[v] = Family[CHOOSE u \in values : TRUE]}
    ELSE Any

PrefixOf(group, field) ==
    LET seen == {i \in group : Parse(rows[i].raw)[field] # None}
    IN  Prefix({Parse(rows[i].raw)[field] : i \in seen}, Cardinality(group), Cardinality(seen))

Recommended(group) ==
    LET r == Parse(rows[CHOOSE i \in group : TRUE].raw) IN
        [resource |-> r.resource, verbs |-> {r.verb}, effect |-> "allow",
         nss |-> PrefixOf(group, "ns"), names |-> PrefixOf(group, "name"), origin |-> "recommendation"]

\* dedupReason: the same rule, of any origin, is in the table.
IsKnown(rule) == \E x \in rules : [x EXCEPT !.origin = rule.origin] = rule

Synthesize(from) ==
    LET kinds  == {Kind(i) : i \in Observed(from)}
        Group(k) == {i \in Observed(from) : Kind(i) = k}
        recs   == {[rule |-> Recommended(Group(k)), support |-> Cardinality(Group(k))] :
                   k \in {x \in kinds : Cardinality(Group(x)) >= MinSupport}}
    IN  {x \in recs : ~IsKnown(x.rule)}

\* rules recommend --apply, of all recommendations or those of --apply-only.
RecommendApply(from) ==
    /\ job = {} /\ Act
    /\ \E chosen \in SUBSET Synthesize(from) : chosen # {} /\ job' = chosen
    /\ UNCHANGED <<table, rules, filed, loaded, task, denies, history>>

\* applyRecommendations, one row at a time, the best supported first.  A rule
\* that AddRule refuses ends it, and a preset.
ApplyNext ==
    \E x \in job :
        /\ \A y \in job : y.support <= x.support
        /\ IF Accepted(x.rule)
           THEN job' = job \ {x} /\ rules' = rules \cup {x.rule}
           ELSE job' = {} /\ UNCHANGED rules
        /\ UNCHANGED <<table, filed, loaded, task, denies, history, count>>

\* rules recommend --save-as-profile, with the name of the active profile.  The
\* scopes of the recommendations are left behind.
RecommendSave(from) ==
    /\ Act
    /\ \E chosen \in SUBSET Synthesize(from) :
         /\ chosen # {}
         /\ filed' = filed \cup {[resource |-> x.rule.resource, verbs |-> x.rule.verbs,
                                  target |-> Any] : x \in chosen}
         /\ acts' = acts \cup {[resource |-> x.rule.resource, verbs |-> x.rule.verbs,
                                nss |-> Any, by |-> "saved"] : x \in chosen}
    /\ UNCHANGED <<table, rules, loaded, task, denies, job, answered, removed>>

Next ==
    \/ \E raw \in Requests : Request(raw)
    \/ \E rule \in OperatorRules : AddRule(rule)
    \/ \E rule \in rules : RemoveRule(rule)
    \/ \E rule \in OperatorAllows : ProfileAllow(rule)
    \/ \E p \in prompts : Answer(p)
    \/ \E p \in DOMAIN rows : Suggested(p)
    \/ \E preset \in Presets : ApplyPreset(preset)
    \/ \E file \in DenyFiles : LoadDenies(file)
    \/ \E list \in Shorthands : StartTask(list)
    \/ \E d \in Declarations : ScopeSelf(d)
    \/ Reload \/ EndTask
    \/ \E from \in DOMAIN rows : RecommendApply(from) \/ RecommendSave(from)
    \/ ApplyNext

Spec == Init /\ [][Next]_vars
-----------------------------------------------------------------------------
(* What learning promises *)

Allowed(i, source) == rows[i].verdict = "allow" /\ rows[i].source = source

\* The namespace a path is below: .../namespaces/{ns}/ and something in it.
BelowNamespace(raw, ns) ==
    LET p == raw.path
        At(i) == Len(p) >= i + 2 /\ p[i] = "namespaces" /\ p[i + 1] = ns
    IN  \/ At(3) /\ p[1] = "api"
        \/ At(4) /\ p[1] = "apis"

\* What was asked for names the resource and the verb of a request, and its scope
\* the namespace the path is below.
Named(act, raw) == act.resource \in {"*", Parse(raw).resource} /\ Parse(raw).verb \in act.verbs
Endorses(act, raw) ==
    Named(act, raw) /\ (act.nss = Any \/ \E ns \in act.nss : BelowNamespace(raw, ns))

\* What was asked for but is not a task's, and of that what operators named
\* themselves: a saved profile repeats what was observed.
Lasting == {act \in acts : act.by # "task"}
Own == {act \in Lasting : act.by # "saved"}

LearnedIsEndorsed ==
    ~DefaultAllow =>
    \A i \in DOMAIN rows :
        /\ Allowed(i, "profile_allow") => \E act \in Lasting : Endorses(act, rows[i].raw)
        /\ Allowed(i, "profile_allow") \/ Allowed(i, "global") =>
             \E act \in Own : Named(act, rows[i].raw)
        /\ Allowed(i, "task") => \E act \in acts \ Lasting : Endorses(act, rows[i].raw)

DenyReachesBelow ==
    \A raw \in Requests : \A t \in denies :
        (t.kind = "namespace" /\ \E ns \in t.names : BelowNamespace(raw, ns))
            => Decide(Parse(raw)).verdict = "deny"

\* Under a default deny nothing is learned that nobody had allowed: however long
\* the chain of requests, recommendations, presets, saved profiles and reloads,
\* a request that a rule allows is of a resource and verb an operator once
\* named, and one that the profile allows too, which is also below a namespace
\* they named; one that a task allows is in what some task declared.  So an allow for a
\* namespace never covers the namespace object, and what was allowed under a
\* task never becomes a lasting rule.  And while a namespace is denied
\* dynamically, nothing below it is allowed by any of these
\* (recommender.Synthesize, profile.matchAnyAllowRule, parser.parseResourceTail,
\* dynamicdeny.Match).
AllowsAreEndorsed == LearnedIsEndorsed /\ DenyReachesBelow

\* An answer that allows through the profile works: once the proxy has loaded
\* the profile, the request that was denied and asked about is allowed, whatever
\* rules, tasks and other allows there are; except where allow rules do not
\* reach, which is what could not be parsed, what the profile itself or a
\* dynamic rule denies, and a dry run.
AnsweredIsAllowed ==
    \A p \in answered :
        LET r == Parse(rows[p].raw) IN
        PromptPattern(r) \in loaded =>
            \/ r.kind = "malformed" \/ r.dry \/ ProfileDenies(Active, r, Cluster) \/ Active.full
            \/ DenyMatches(denies, r, Cluster)
            \/ Decide(r).verdict = "allow"

\* With the profile the proxy has, and where only profile and rules decide, a
\* preview is the verdict.
PreviewAgrees ==
    \A raw \in Requests :
        LET r == Parse(raw) IN
        \/ r.kind = "meta" \/ task # {} \/ DenyMatches(denies, r, Cluster)
        \/ r.impersonated \/ Active.clusters # {} \/ "cluster" \in Active.targets
        \/ Preview(raw, loaded).verdict = Decide(r).verdict

\* What the proxy's commands and tools say of a request comes true: an answer
\* that allows it, and a preview of its verdict (cli.newPromptsAnswerCmd,
\* profileallow.AddProfileAllowRule, mcp.toolDecide, EvaluateRequestFull).
AdviceHolds == AnsweredIsAllowed /\ PreviewAgrees

-----------------------------------------------------------------------------
(* Statements of the repository that the code does not keep; each fails.    *)

\* "the ready-to-copy-paste profile-allow command that would unblock the same
\* call" (profileallow/denies.go): its action names "group/resource", which no
\* request has for a resource.
SuggestedUnblocks ==
    \A p \in DOMAIN rows :
        LET r == Parse(rows[p].raw) IN
        [resource |-> SuggestedAction, verbs |-> {r.verb}, target |-> SuggestedTarget(r)] \in loaded
            => Decide(r).verdict = "allow" \/ ProfileDenies(Active, r, Cluster) \/ r.dry

\* "An operator who removed a recommended rule does not want it back"
\* (recommender.go): only what is in the table is left out.
RemovedStaysRemoved == \A rule \in removed : \A x \in job : x.rule # rule

\* "ENFORCED on the next decision" (cli/prompts.go): the running proxy keeps the
\* profile it has loaded until it reloads.
AnswerEnforcedNext ==
    \A p \in answered :
        LET r == Parse(rows[p].raw) IN
        (PromptPattern(r) \in filed /\ r.kind = "resource" /\ ~r.dry /\ ~ProfileDenies(Active, r, Cluster))
            => Decide(r).verdict = "allow"

\* "on first error we stop", and what was inserted before stays: a run of
\* --apply that ends early leaves a part of its rules.
ApplyIsComplete ==
    [][\A x \in job : x \notin job' => x.rule \in rules']_vars

\* A dry run is never held to more than the request itself.
DryRunIsNoStricter ==
    \A raw \in Requests :
        Decide(Parse([raw EXCEPT !.query = @ \cup {"dryRun"}])).verdict = "deny"
            => Decide(Parse(raw)).verdict = "deny"

\* A saved profile allows no more than the rules it was saved from.
SavedNotBroader ==
    \A act \in acts : act.by = "saved" =>
        \A i \in DOMAIN rows : Endorses(act, rows[i].raw) /\ rows[i].verdict = "deny" => FALSE

\* "opens a task that narrows decisions to that declaration" (mcp/tools.go): of
\* two namespaces it keeps none.
DeclarationNarrows == LearnedIsEndorsed

\* "kbounce_decide returns the same verdict the live proxy would" (mcp/server.go),
\* even with the profile of the file: it asks no task and no dynamic rule, and
\* has no case for what kubectl asks at start.
PreviewIsVerdict ==
    \A raw \in Requests : Preview(raw, filed).verdict = Decide(Parse(raw)).verdict

\* "decisions during the task reference the active task_id" (tasks/tasks.go):
\* those of the floors do not, and a review leaves them out.
ReviewIsWhole == \A i \in DOMAIN rows : rows[i].during => i \in Review

\* "a keyword match on the resource name covers e.g. secrets" (profile.go): the
\* keywords are looked for in the name of the object, not in its resource.
GeneratedDenyHolds ==
    \A raw \in Requests : \A g \in Generated :
        g.bouncer = "kbounce" /\ Parse(raw).resource \in g.resources => Decide(Parse(raw)).verdict = "deny"
=============================================================================
