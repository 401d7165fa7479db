--------------------------- MODULE LearningProofs ---------------------------
(***************************************************************************)
(* Proofs about Learning, for any requests, profile, rules, presets, files  *)
(* of denies and allows, and any number of rows and acts.  Inv is inductive. *)
(***************************************************************************)
EXTENDS Learning, FiniteSetTheorems, SequenceTheorems, TLAPS

-----------------------------------------------------------------------------
(* The parser *)

\* What a resource request takes from its path.
LEMMA ResourceFields ==
    ASSUME NEW raw, NEW group, NEW version, NEW s
    PROVE  LET r == Resource(raw, group, version, s)
           IN  /\ r.kind = "resource" /\ r.ns = ResourceTail(s).ns
               /\ r.resource = ResourceTail(s).resource
               /\ r.verb = InferVerb(raw, ResourceTail(s))
  BY DEF Resource

LEMMA TailNamespace ==
    ASSUME NEW s
    PROVE  ResourceTail(s).ns = IF s[1] = "namespaces" /\ Len(s) >= 3 THEN s[2] ELSE None
  BY DEF ResourceTail, ClusterScopedTail

\* What is left of a path behind its root.
LEMMA TailOfPath ==
    ASSUME NEW p \in Seq(STRING), NEW i \in {3, 4}, Len(p) >= i
    PROVE  LET s == SubSeq(p, i, Len(p))
           IN  /\ s \in Seq(STRING) /\ Len(s) = Len(p) - i + 1
               /\ s[1] = p[i]
               /\ Len(s) >= 2 => s[2] = p[i + 1]
  <1>1. \A j \in i .. Len(p) : p[j] \in STRING
    BY ElementOfSeq
  <1>2. /\ SubSeq(p, i, Len(p)) \in Seq(STRING)
        /\ Len(SubSeq(p, i, Len(p))) = IF i <= Len(p) THEN Len(p) - i + 1 ELSE 0
        /\ \A j \in 1 .. Len(p) - i + 1 : SubSeq(p, i, Len(p))[j] = p[i + j - 1]
    BY <1>1, SubSeqProperties
  <1> QED
    BY <1>2

\* The verb of a resource request is never empty.
LEMMA VerbIsThere == ASSUME NEW raw, NEW t PROVE InferVerb(raw, t) # None
  BY DEF InferVerb, None

\* A request is of one of three kinds.
LEMMA ParsedKinds ==
    ASSUME NEW raw
    PROVE  LET r == Parse(raw)
           IN  /\ r.kind \in {"meta", "malformed", "resource"}
               /\ r.kind = "meta" => r.resource = "meta" /\ r.ns = None /\ r.verb = "get"
               /\ r.kind = "malformed" => r.resource = None /\ r.ns = None
               /\ r.kind = "resource" => r.verb # None
  <1>1. \A group, version, s : /\ Resource(raw, group, version, s).kind = "resource"
                               /\ Resource(raw, group, version, s).verb # None
    BY ResourceFields, VerbIsThere
  <1>2. Malformed.kind = "malformed" /\ Malformed.resource = None /\ Malformed.ns = None
    BY DEF Malformed
  <1> DEFINE Meta == [Malformed EXCEPT !.kind = "meta", !.method = "GET", !.resource = "meta",
                                       !.verb = "get", !.impersonated = raw.impersonated]
  <1>3. Meta.kind = "meta" /\ Meta.resource = "meta" /\ Meta.ns = None /\ Meta.verb = "get"
    BY DEF Malformed
  <1> HIDE DEF Meta
  <1>4. \/ Parse(raw) = Meta \/ Parse(raw) = Malformed
        \/ Parse(raw) = Resource(raw, "core", raw.path[2], SubSeq(raw.path, 3, Len(raw.path)))
        \/ Parse(raw) = Resource(raw, raw.path[2], raw.path[3], SubSeq(raw.path, 4, Len(raw.path)))
    BY DEF Parse, Meta
  <1> QED
    BY <1>1, <1>2, <1>3, <1>4

\* A request with a namespace is for something below that namespace.
LEMMA NamespaceIsAbove ==
    ASSUME NEW raw \in Requests, Parse(raw).ns # None
    PROVE  BelowNamespace(raw, Parse(raw).ns)
  <1> DEFINE p == raw.path
             Below(i) == Resource(raw, IF i = 3 THEN "core" ELSE p[2],
                                  IF i = 3 THEN p[2] ELSE p[3], SubSeq(p, i, Len(p)))
  <1>1. p \in Seq(STRING) /\ Len(p) \in Nat
    BY LearningAssumption
  <1>2. Parse(raw).kind = "resource"
    BY ParsedKinds
  <1>3. /\ Malformed.kind # "resource"
        /\ [Malformed EXCEPT !.kind = "meta", !.method = "GET", !.resource = "meta",
                             !.verb = "get", !.impersonated = raw.impersonated].kind # "resource"
    BY DEF Malformed
  <1>4. \/ p[1] = "api" /\ Len(p) >= 3 /\ Parse(raw) = Below(3)
        \/ p[1] = "apis" /\ Len(p) >= 4 /\ Parse(raw) = Below(4)
    BY <1>2, <1>3 DEF Parse
  <1>5. ASSUME NEW i \in {3, 4}, Len(p) >= i, Parse(raw) = Below(i)
        PROVE  Len(p) >= i + 2 /\ p[i] = "namespaces" /\ p[i + 1] = Parse(raw).ns
    <2> DEFINE s == SubSeq(p, i, Len(p))
    <2>1. Parse(raw).ns = ResourceTail(s).ns
      BY <1>5, ResourceFields
    <2>2. s[1] = "namespaces" /\ Len(s) >= 3 /\ Parse(raw).ns = s[2]
      BY <2>1, TailNamespace
    <2>3. Len(s) = Len(p) - i + 1 /\ s[1] = p[i] /\ (Len(s) >= 2 => s[2] = p[i + 1])
      BY <1>1, <1>5, TailOfPath
    <2> QED
      BY <1>1, <2>2, <2>3
  <1> QED
    BY <1>4, <1>5 DEF BelowNamespace

\* A request for something below a namespace has that namespace.
LEMMA BelowHasNamespace ==
    ASSUME NEW raw \in Requests, NEW ns, BelowNamespace(raw, ns)
    PROVE  Parse(raw).kind = "resource" /\ Parse(raw).ns = ns
  <1> DEFINE p == raw.path
             Below(i) == Resource(raw, IF i = 3 THEN "core" ELSE p[2],
                                  IF i = 3 THEN p[2] ELSE p[3], SubSeq(p, i, Len(p)))
  <1>1. p \in Seq(STRING) /\ Len(p) \in Nat
    BY LearningAssumption
  <1>2. PICK i \in {3, 4} : /\ Len(p) >= i + 2 /\ p[i] = "namespaces" /\ p[i + 1] = ns
                            /\ p[1] = IF i = 3 THEN "api" ELSE "apis"
    BY DEF BelowNamespace
  <1>3. p # <<>> /\ ~ClassifyMetaPath(raw)
    BY <1>1, <1>2 DEF ClassifyMetaPath
  <1>4. Parse(raw) = Below(i)
    BY <1>1, <1>2, <1>3 DEF Parse
  <1> DEFINE s == SubSeq(p, i, Len(p))
  <1>5. Len(s) = Len(p) - i + 1 /\ s[1] = p[i] /\ (Len(s) >= 2 => s[2] = p[i + 1])
    BY <1>1, <1>2, TailOfPath
  <1>6. s[1] = "namespaces" /\ Len(s) >= 3 /\ s[2] = ns
    BY <1>1, <1>2, <1>5
  <1>7. ResourceTail(s).ns = ns
    BY <1>6, TailNamespace
  <1> QED
    BY <1>4, <1>7, ResourceFields

-----------------------------------------------------------------------------
(* What lets a request through *)

\* A rule set allows by a rule that matches.
LEMMA AllowedByRule ==
    ASSUME NEW set, NEW r, RuleSetEvaluate(set, r) = "allow"
    PROVE  \E x \in set : x.effect = "allow" /\ Matches(x, r)
  BY DEF RuleSetEvaluate

LEMMA NoRules == ASSUME NEW r PROVE RuleSetEvaluate({}, r) = "none"
  BY DEF RuleSetEvaluate

Sources == {"unclassifiable", "profile", "meta", "dynamic", "profile_allow", "task", "global",
            "default"}

\* A verdict to allow has a source that says why.
LEMMA DecideAllows ==
    ASSUME NEW r
    PROVE  LET d == Decide(r)
           IN  /\ d.verdict \in {"allow", "deny"} /\ d.source \in Sources
               /\ d.verdict = "allow" =>
                    \/ d.source = "meta" /\ r.kind = "meta"
                    \/ d.source = "profile_allow" /\ ProfileAllows(Active, loaded, r)
                    \/ d.source = "task"
                         /\ \E x \in task : x.effect = "allow" /\ Matches(x, r)
                    \/ d.source = "global"
                         /\ \E x \in rules : x.effect = "allow" /\ Matches(x, r)
                    \/ d.source = "default" /\ DefaultAllow
  <1> DEFINE global == RuleSetEvaluate(rules, r)
             scope == RuleSetEvaluate(task, r)
             under == RuleSetEvaluate({x \in task : x.effect = "allow"}, r)
             denied == ProfileDenies(Active, r, Cluster)
             dynamic == DenyMatches(denies, r, Cluster)
             allowed == ProfileAllows(Active, loaded, r)
  <1>1. Decide(r) =
          IF r.kind = "malformed" THEN Deny("unclassifiable")
          ELSE IF denied THEN Deny("profile")
          ELSE IF r.kind = "meta" THEN Allow("meta")
          ELSE IF dynamic THEN Deny("dynamic")
          ELSE IF allowed THEN Allow("profile_allow")
          ELSE IF scope = "deny" THEN Deny("task")
          ELSE IF global = "deny" THEN Deny("global")
          ELSE IF under = "allow" THEN Allow("task")
          ELSE IF global = "allow" THEN Allow("global")
          ELSE IF task # {} THEN Deny("task")
          ELSE IF DefaultAllow THEN Allow("default") ELSE Deny("default")
    BY DEF Decide
  <1>2. global = "allow" => \E x \in rules : x.effect = "allow" /\ Matches(x, r)
    BY AllowedByRule
  <1>3. under = "allow" => \E x \in task : x.effect = "allow" /\ Matches(x, r)
    BY AllowedByRule
  <1>4. \A source : /\ Allow(source).verdict = "allow" /\ Allow(source).source = source
                    /\ Deny(source).verdict = "deny" /\ Deny(source).source = source
    BY DEF Allow, Deny
  <1>5. allowed => ProfileAllows(Active, loaded, r)
    OBVIOUS
  <1> HIDE DEF global, scope, under, denied, dynamic, allowed
  <1>6. Decide(r).verdict \in {"allow", "deny"} /\ Decide(r).source \in Sources
    <2>1. Decide(r) \in {Deny("unclassifiable"), Deny("profile"), Allow("meta"), Deny("dynamic"),
                         Allow("profile_allow"), Deny("task"), Deny("global"), Allow("task"),
                         Allow("global"), Allow("default"), Deny("default")}
      BY <1>1, Zenon
    <2> QED
      BY <1>4, <2>1, SMT DEF Sources
  <1>7. Decide(r).verdict = "allow" =>
          \/ r.kind = "meta" /\ Decide(r) = Allow("meta")
          \/ allowed /\ Decide(r) = Allow("profile_allow")
          \/ under = "allow" /\ Decide(r) = Allow("task")
          \/ global = "allow" /\ Decide(r) = Allow("global")
          \/ DefaultAllow /\ Decide(r) = Allow("default")
    BY <1>1, <1>4, Zenon
  <1> QED
    BY <1>2, <1>3, <1>4, <1>5, <1>6, <1>7, Zenon

-----------------------------------------------------------------------------
(* The tables *)

Rows == [raw : Requests, verdict : {"allow", "deny"}, source : Sources, task : BOOLEAN,
         during : BOOLEAN]

Tables == /\ rows \in Seq(Rows)
          /\ prompts \subseteq DOMAIN rows /\ answered \subseteq DOMAIN rows

LEMMA InitTables == Init => Tables
  BY DEF Init, Tables

\* What a request appends, and that the rows before stay.
LEMMA RequestAppends ==
    ASSUME Tables, NEW raw \in Requests, Request(raw)
    PROVE  LET d == Decide(Parse(raw))
               row == [raw |-> raw, verdict |-> d.verdict, source |-> d.source,
                       task |-> task # {} /\ d.source \notin Floors, during |-> task # {}]
           IN  /\ rows' = Append(rows, row) /\ row \in Rows
               /\ rows' \in Seq(Rows) /\ DOMAIN rows' = DOMAIN rows \cup {Len(rows) + 1}
               /\ rows'[Len(rows) + 1] = row /\ Len(rows') = Len(rows) + 1
               /\ \A i \in DOMAIN rows : rows'[i] = rows[i]
  <1> DEFINE d == Decide(Parse(raw))
             row == [raw |-> raw, verdict |-> d.verdict, source |-> d.source,
                     task |-> task # {} /\ d.source \notin Floors, during |-> task # {}]
  <1>1. rows' = Append(rows, row)
    BY DEF Request
  <1>2. d.verdict \in {"allow", "deny"} /\ d.source \in Sources
    BY DecideAllows
  <1>3. row \in Rows
    BY <1>2 DEF Rows
  <1>4. rows \in Seq(Rows)
    BY DEF Tables
  <1> HIDE DEF row
  <1>5. /\ rows' \in Seq(Rows) /\ Len(rows') = Len(rows) + 1
        /\ rows'[Len(rows) + 1] = row
        /\ \A i \in 1 .. Len(rows) : rows'[i] = rows[i]
    BY <1>1, <1>3, <1>4
  <1>6. DOMAIN rows = 1 .. Len(rows) /\ DOMAIN rows' = 1 .. Len(rows')
    BY <1>4, <1>5
  <1>7. DOMAIN rows' = DOMAIN rows \cup {Len(rows) + 1}
    BY <1>4, <1>5, <1>6
  <1> QED
    BY <1>1, <1>3, <1>5, <1>6, <1>7 DEF row

LEMMA StepTables == Tables /\ [Next]_vars => Tables'
  <1> SUFFICES ASSUME Tables, [Next]_vars PROVE Tables'
    OBVIOUS
  <1>1. CASE \E raw \in Requests : Request(raw)
    <2>1. PICK raw \in Requests : Request(raw)
      BY <1>1
    <2>2. /\ rows' \in Seq(Rows) /\ DOMAIN rows' = DOMAIN rows \cup {Len(rows) + 1}
          /\ Len(rows') = Len(rows) + 1
      BY <2>1, RequestAppends
    <2>3. prompts' \subseteq prompts \cup {Len(rows')} /\ answered' = answered
      BY <2>1 DEF Request, history
    <2> QED
      BY <2>2, <2>3 DEF Tables
  <1>2. CASE \E p \in prompts : Answer(p)
    <2>1. rows' = rows /\ prompts' \subseteq prompts /\ answered' \subseteq answered \cup prompts
      BY <1>2 DEF Answer
    <2> QED
      BY <2>1 DEF Tables
  <1>3. CASE UNCHANGED <<rows, prompts, answered>>
    BY <1>3 DEF Tables
  <1>4. ASSUME NEW x, AddRule(x) \/ RemoveRule(x) \/ ProfileAllow(x) \/ Suggested(x)
                       \/ ApplyPreset(x) \/ LoadDenies(x) \/ RecommendApply(x) \/ RecommendSave(x)
        PROVE  UNCHANGED <<rows, prompts, answered>>
    BY <1>4 DEF table, history, AddRule, RemoveRule, ProfileAllow, Suggested, ApplyPreset,
                LoadDenies, RecommendApply, RecommendSave
  <1>5. ASSUME NEW x, StartTask(x) \/ ScopeSelf(x) \/ EndTask \/ Reload \/ ApplyNext
        PROVE  UNCHANGED <<rows, prompts, answered>>
    BY <1>5 DEF table, history, StartTask, OpenTask, ScopeSelf, EndTask, Reload, ApplyNext
  <1>6. CASE UNCHANGED vars
    BY <1>3, <1>6 DEF vars, table, history
  <1>7. CASE Next
    BY <1>1, <1>2, <1>3, <1>4, <1>5, <1>7 DEF Next
  <1> QED
    BY <1>6, <1>7

-----------------------------------------------------------------------------
(* Where rules, allows and tasks come from *)

\* An operator named the resource and all of the verbs.
Covered(resource, verbs) ==
    \E act \in Own : act.resource \in {"*", resource} /\ verbs \subseteq act.verbs

\* Rules in the table or about to be inserted.
AllRules == rules \cup {x.rule : x \in job}

RulesAreCovered ==
    \A x \in AllRules :
        x.effect = "allow" /\ ParsePattern(x.resource) => Covered(x.resource, x.verbs)

\* An allow, but for a suggested one, is also what was asked for, scope and all.
AsAsked(y) ==
    \E act \in Lasting :
        act.resource = y.resource /\ act.verbs = y.verbs /\ act.nss = y.target

AllowsAreCovered ==
    \A y \in filed \cup loaded : y.resource # SuggestedAction =>
        AsAsked(y) /\ (ParsePattern(y.resource) => Covered(y.resource, y.verbs))

Declares(x) ==
    \E act \in acts \ Lasting :
        act.resource = x.resource /\ act.verbs = x.verbs /\ act.nss = x.nss

TaskIsDeclared == \A x \in task : x.effect = "allow" => Declares(x)

\* An allowed row has a source that accounts for it: something asked for that is not
\* a task's, of that something operators named, or something a task declared.
Trusted(row, asked, own, declared) ==
    row.verdict = "allow" =>
        /\ row.source \in {"meta", "profile_allow", "global", "task"}
        /\ row.source = "meta" => Parse(row.raw).kind = "meta"
        /\ row.source = "profile_allow" => \E act \in asked : Endorses(act, row.raw)
        /\ row.source \in {"profile_allow", "global"} => \E act \in own : Named(act, row.raw)
        /\ row.source = "task" => row.task /\ \E act \in declared : Endorses(act, row.raw)

RowsAreTrusted == \A i \in DOMAIN rows : Trusted(rows[i], Lasting, Own, acts \ Lasting)

Chain == RulesAreCovered /\ AllowsAreCovered /\ TaskIsDeclared /\ RowsAreTrusted

\* What each part needs of a step.
LEMMA MoreActs ==
    ASSUME acts \subseteq acts'
    PROVE  Own \subseteq Own' /\ Lasting \subseteq Lasting' /\ acts \ Lasting \subseteq (acts \ Lasting)'
  BY DEF Own, Lasting

LEMMA CoveredStays ==
    ASSUME acts \subseteq acts', NEW resource, NEW verbs, Covered(resource, verbs)
    PROVE  Covered(resource, verbs)'
  BY MoreActs DEF Covered

LEMMA RulesFrom ==
    ASSUME RulesAreCovered, acts \subseteq acts',
           \A x \in AllRules' \ AllRules :
               x.effect = "allow" /\ ParsePattern(x.resource) => Covered(x.resource, x.verbs)'
    PROVE  RulesAreCovered'
  <1> SUFFICES ASSUME NEW x \in AllRules', x.effect = "allow", ParsePattern(x.resource)
               PROVE  Covered(x.resource, x.verbs)'
    BY DEF RulesAreCovered
  <1>1. CASE x \notin AllRules
    BY <1>1
  <1>2. CASE x \in AllRules
    BY <1>2, CoveredStays DEF RulesAreCovered
  <1> QED
    BY <1>1, <1>2

LEMMA AllowsFrom ==
    ASSUME AllowsAreCovered, acts \subseteq acts',
           \A y \in (filed \cup loaded)' \ (filed \cup loaded) : y.resource # SuggestedAction =>
               AsAsked(y)' /\ (ParsePattern(y.resource) => Covered(y.resource, y.verbs)')
    PROVE  AllowsAreCovered'
  <1> SUFFICES ASSUME NEW y \in (filed \cup loaded)', y.resource # SuggestedAction
               PROVE  AsAsked(y)' /\ (ParsePattern(y.resource) => Covered(y.resource, y.verbs)')
    BY DEF AllowsAreCovered
  <1>1. CASE y \notin filed \cup loaded
    BY <1>1
  <1>2. CASE y \in filed \cup loaded
    <2>1. AsAsked(y) /\ (ParsePattern(y.resource) => Covered(y.resource, y.verbs))
      BY <1>2 DEF AllowsAreCovered
    <2>2. AsAsked(y)'
      BY <2>1, MoreActs DEF AsAsked
    <2> QED
      BY <2>1, <2>2, CoveredStays
  <1> QED
    BY <1>1, <1>2

LEMMA TaskFrom ==
    ASSUME TaskIsDeclared, acts \subseteq acts', task' \subseteq task
    PROVE  TaskIsDeclared'
  <1> SUFFICES ASSUME NEW x \in task', x.effect = "allow" PROVE Declares(x)'
    BY DEF TaskIsDeclared
  <1>1. Declares(x)
    BY DEF TaskIsDeclared
  <1> QED
    BY <1>1, MoreActs DEF Declares

LEMMA TrustStays ==
    ASSUME NEW row, NEW asked, NEW own, NEW declared, Trusted(row, asked, own, declared),
           NEW more, NEW ours, NEW theirs,
           asked \subseteq more, own \subseteq ours, declared \subseteq theirs
    PROVE  Trusted(row, more, ours, theirs)
  BY DEF Trusted

LEMMA RowsStay ==
    ASSUME RowsAreTrusted, acts \subseteq acts', rows' = rows
    PROVE  RowsAreTrusted'
  BY TrustStays, MoreActs DEF RowsAreTrusted

-----------------------------------------------------------------------------
(* A request *)

\* What matches a rule for a resource and a verb is named by who named these.
LEMMA CoveredIsNamed ==
    ASSUME NEW raw, NEW x, Covered(x.resource, x.verbs),
           x.resource \in {"*", Parse(raw).resource}, Parse(raw).verb \in x.verbs
    PROVE  \E act \in Own : Named(act, raw)
  BY DEF Covered, Named

\* A scope that a request is in names the namespace its path is below.
LEMMA ScopeIsAbove ==
    ASSUME NEW raw \in Requests, NEW nss, InScope(Parse(raw).ns, nss)
    PROVE  nss = Any \/ \E ns \in nss : BelowNamespace(raw, ns)
  BY NamespaceIsAbove DEF InScope

LEMMA ResourceIsPlain ==
    ASSUME NEW raw \in Requests
    PROVE  Parse(raw).resource # SuggestedAction
  <1>1. Parse(raw).kind = "resource" => Parse(raw).resource # SuggestedAction
    BY LearningAssumption
  <1> QED
    BY <1>1, ParsedKinds DEF SuggestedAction, None

LEMMA AllowedIsTrusted ==
    ASSUME ~DefaultAllow, RulesAreCovered, AllowsAreCovered, TaskIsDeclared,
           NEW raw \in Requests, NEW row, row.raw = raw,
           row.verdict = Decide(Parse(raw)).verdict, row.source = Decide(Parse(raw)).source,
           row.task = (task # {} /\ Decide(Parse(raw)).source \notin Floors)
    PROVE  Trusted(row, Lasting, Own, acts \ Lasting)
  <1> DEFINE r == Parse(raw)
             d == Decide(r)
  <1> SUFFICES ASSUME d.verdict = "allow"
               PROVE  Trusted(row, Lasting, Own, acts \ Lasting)
    BY DEF Trusted
  <1>1. \/ d.source = "meta" /\ r.kind = "meta"
        \/ d.source = "profile_allow" /\ ProfileAllows(Active, loaded, r)
        \/ d.source = "task" /\ \E x \in task : x.effect = "allow" /\ Matches(x, r)
        \/ d.source = "global" /\ \E x \in rules : x.effect = "allow" /\ Matches(x, r)
    BY DecideAllows
  <1>2. CASE d.source = "meta" /\ r.kind = "meta"
    BY <1>2 DEF Trusted
  <1>3. CASE d.source = "profile_allow" /\ ProfileAllows(Active, loaded, r)
    <2>1. PICK y \in loaded : AllowRuleMatches(y, r)
      BY <1>3 DEF ProfileAllows
    <2>2. /\ InScope(r.ns, y.target) /\ ParsePattern(y.resource)
          /\ y.resource \in {"*", r.resource} /\ r.verb \in y.verbs
      BY <2>1 DEF AllowRuleMatches
    <2>3. y.resource # SuggestedAction
      BY <2>2, ResourceIsPlain DEF SuggestedAction
    <2>4. AsAsked(y) /\ Covered(y.resource, y.verbs)
      BY <2>1, <2>2, <2>3 DEF AllowsAreCovered
    <2>5. \E act \in Own : Named(act, raw)
      BY <2>2, <2>4, CoveredIsNamed
    <2>6. PICK act \in Lasting :
            act.resource = y.resource /\ act.verbs = y.verbs /\ act.nss = y.target
      BY <2>4 DEF AsAsked
    <2>7. Endorses(act, raw)
      BY <2>2, <2>6, ScopeIsAbove DEF Endorses, Named
    <2> QED
      BY <1>3, <2>5, <2>7 DEF Trusted
  <1>4. CASE d.source = "task" /\ \E x \in task : x.effect = "allow" /\ Matches(x, r)
    <2>1. PICK x \in task : x.effect = "allow" /\ Matches(x, r)
      BY <1>4
    <2>2. PICK act \in acts \ Lasting :
            act.resource = x.resource /\ act.verbs = x.verbs /\ act.nss = x.nss
      BY <2>1 DEF TaskIsDeclared, Declares
    <2>3. /\ x.resource \in {"*", r.resource} /\ r.verb \in x.verbs
          /\ InScope(r.ns, x.nss)
      BY <2>1 DEF Matches
    <2>4. Endorses(act, raw)
      BY <2>2, <2>3, ScopeIsAbove DEF Endorses, Named
    <2>5. row.task
      BY <1>4, <2>1 DEF Floors
    <2> QED
      BY <1>4, <2>4, <2>5 DEF Trusted
  <1>5. CASE d.source = "global" /\ \E x \in rules : x.effect = "allow" /\ Matches(x, r)
    <2>1. PICK x \in rules : x.effect = "allow" /\ Matches(x, r)
      BY <1>5
    <2>2. ParsePattern(x.resource) /\ x.resource \in {"*", r.resource} /\ r.verb \in x.verbs
      BY <2>1 DEF Matches
    <2>3. Covered(x.resource, x.verbs)
      BY <2>1, <2>2 DEF RulesAreCovered, AllRules
    <2>4. \E act \in Own : Named(act, raw)
      BY <2>2, <2>3, CoveredIsNamed
    <2> QED
      BY <1>5, <2>4 DEF Trusted
  <1> QED
    BY <1>1, <1>2, <1>3, <1>4, <1>5

LEMMA RequestKeeps ==
    ASSUME ~DefaultAllow, Tables, Chain, NEW raw \in Requests, Request(raw)
    PROVE  Chain'
  <1> DEFINE d == Decide(Parse(raw))
             row == [raw |-> raw, verdict |-> d.verdict, source |-> d.source,
                     task |-> task # {} /\ d.source \notin Floors, during |-> task # {}]
  <1>1. acts' = acts /\ rules' = rules /\ job' = job /\ filed' = filed /\ loaded' = loaded
          /\ task' = task
    BY DEF Request, policy, history
  <1>2. RulesAreCovered' /\ AllowsAreCovered' /\ TaskIsDeclared'
    BY <1>1 DEF Chain, RulesAreCovered, AllRules, AllowsAreCovered, TaskIsDeclared, Covered,
                AsAsked, Declares, Own, Lasting
  <1>3. Trusted(row, Lasting, Own, acts \ Lasting)
    BY AllowedIsTrusted DEF Chain
  <1>4. /\ DOMAIN rows' = DOMAIN rows \cup {Len(rows) + 1} /\ rows'[Len(rows) + 1] = row
        /\ \A i \in DOMAIN rows : rows'[i] = rows[i]
    BY RequestAppends
  <1> HIDE DEF row
  <1>5. \A i \in DOMAIN rows' : Trusted(rows'[i], Lasting, Own, acts \ Lasting)
    BY <1>3, <1>4 DEF Chain, RowsAreTrusted
  <1>6. Lasting' = Lasting /\ Own' = Own /\ (acts \ Lasting)' = acts \ Lasting
    BY <1>1 DEF Lasting, Own
  <1> QED
    BY <1>2, <1>5, <1>6 DEF Chain, RowsAreTrusted

-----------------------------------------------------------------------------
(* The other steps *)

\* Each part from what a step adds to it.
LEMMA ChainFrom ==
    ASSUME Chain, acts \subseteq acts', rows' = rows, TaskIsDeclared',
           \A x \in AllRules' \ AllRules :
               x.effect = "allow" /\ ParsePattern(x.resource) => Covered(x.resource, x.verbs)',
           \A y \in (filed \cup loaded)' \ (filed \cup loaded) : y.resource # SuggestedAction =>
               AsAsked(y)' /\ (ParsePattern(y.resource) => Covered(y.resource, y.verbs)')
    PROVE  Chain'
  <1>1. RulesAreCovered'
    BY RulesFrom DEF Chain
  <1>2. AllowsAreCovered'
    BY AllowsFrom DEF Chain
  <1>3. RowsAreTrusted'
    BY RowsStay DEF Chain
  <1> QED
    BY <1>1, <1>2, <1>3 DEF Chain

\* A step that adds no rule, no allow and no task.
LEMMA ChainStays ==
    ASSUME Chain, acts \subseteq acts', rows' = rows, task' \subseteq task,
           AllRules' \subseteq AllRules, (filed \cup loaded)' \subseteq filed \cup loaded
    PROVE  Chain'
  <1>1. TaskIsDeclared'
    BY TaskFrom DEF Chain
  <1> QED
    BY <1>1, ChainFrom

\* Rules that are remembered as an operator's are covered.
LEMMA RememberedIsCovered ==
    ASSUME NEW added, RememberRules(added), \A x \in added : x.origin \notin {"task", "saved"},
           NEW x \in added, x.effect = "allow"
    PROVE  Covered(x.resource, x.verbs)'
  <1> DEFINE act == [resource |-> x.resource, verbs |-> x.verbs, nss |-> x.nss, by |-> x.origin]
  <1>1. act \in acts'
    BY DEF RememberRules
  <1>2. act \in Own'
    BY <1>1 DEF Own, Lasting
  <1> QED
    BY <1>2 DEF Covered

LEMMA AddRuleKeeps ==
    ASSUME Chain, NEW rule \in OperatorRules, AddRule(rule)
    PROVE  Chain'
  <1>1. acts \subseteq acts' /\ rows' = rows /\ task' = task /\ filed' = filed /\ loaded' = loaded
    BY DEF AddRule, RememberRules, table
  <1>2. AllRules' \subseteq AllRules \cup {rule}
    BY DEF AddRule, AllRules
  <1>3. rule.origin \notin {"task", "saved"}
    BY LearningAssumption
  <1>4. rule.effect = "allow" => Covered(rule.resource, rule.verbs)'
    BY <1>3, RememberedIsCovered DEF AddRule
  <1>5. TaskIsDeclared'
    BY <1>1, TaskFrom DEF Chain
  <1> QED
    BY <1>1, <1>2, <1>4, <1>5, ChainFrom

LEMMA ApplyPresetKeeps ==
    ASSUME Chain, NEW preset \in Presets, ApplyPreset(preset)
    PROVE  Chain'
  <1>1. acts \subseteq acts' /\ rows' = rows /\ task' = task /\ filed' = filed /\ loaded' = loaded
    BY DEF ApplyPreset, RememberRules, table
  <1>2. AllRules' \subseteq AllRules \cup preset
    BY DEF ApplyPreset, AllRules
  <1>3. \A x \in preset : x.origin \notin {"task", "saved"}
    BY LearningAssumption
  <1>4. \A x \in preset : x.effect = "allow" => Covered(x.resource, x.verbs)'
    BY <1>3, RememberedIsCovered DEF ApplyPreset
  <1>5. TaskIsDeclared'
    BY <1>1, TaskFrom DEF Chain
  <1> QED
    BY <1>1, <1>2, <1>4, <1>5, ChainFrom

\* An allow that is remembered with its scope.
LEMMA RememberedIsAsked ==
    ASSUME NEW y, Remember(y.resource, y.verbs, y.target, "user")
    PROVE  AsAsked(y)' /\ Covered(y.resource, y.verbs)'
  <1> DEFINE act == [resource |-> y.resource, verbs |-> y.verbs, nss |-> y.target, by |-> "user"]
  <1>1. act \in Own' /\ act \in Lasting'
    BY DEF Remember, Own, Lasting
  <1> QED
    BY <1>1 DEF AsAsked, Covered

\* One allow is added to the file.
LEMMA AllowKeeps ==
    ASSUME Chain, acts \subseteq acts', rows' = rows, task' = task, AllRules' = AllRules,
           NEW y, filed' \subseteq filed \cup {y}, loaded' = loaded,
           y.resource # SuggestedAction => AsAsked(y)' /\ Covered(y.resource, y.verbs)'
    PROVE  Chain'
  <1>1. TaskIsDeclared'
    BY TaskFrom DEF Chain
  <1> QED
    BY <1>1, ChainFrom

LEMMA ProfileAllowKeeps ==
    ASSUME Chain, NEW rule \in OperatorAllows, ProfileAllow(rule)
    PROVE  Chain'
  <1>1. /\ acts \subseteq acts' /\ rows' = rows /\ task' = task /\ AllRules' = AllRules
        /\ filed' = filed \cup {rule} /\ loaded' = loaded
    BY DEF ProfileAllow, Remember, table, AllRules
  <1>2. AsAsked(rule)' /\ Covered(rule.resource, rule.verbs)'
    BY RememberedIsAsked DEF ProfileAllow
  <1> QED
    BY <1>1, <1>2, AllowKeeps

LEMMA AnswerKeeps ==
    ASSUME Chain, NEW p, Answer(p)
    PROVE  Chain'
  <1> PICK rule : rule = PromptPattern(Parse(rows[p].raw))
    OBVIOUS
  <1>1. rows' = rows /\ task' = task /\ AllRules' = AllRules /\ loaded' = loaded
    BY DEF Answer, AllRules
  <1>2. CASE UNCHANGED <<filed, answered, acts>>
    BY <1>1, <1>2, ChainStays
  <1>3. CASE filed' = filed \cup {rule} /\ Remember(rule.resource, rule.verbs, Any, "user")
    <2>1. rule.target = Any
      BY DEF PromptPattern
    <2>2. AsAsked(rule)' /\ Covered(rule.resource, rule.verbs)'
      BY <1>3, <2>1, RememberedIsAsked
    <2>3. acts \subseteq acts'
      BY <1>3 DEF Remember
    <2> QED
      BY <1>1, <1>3, <2>2, <2>3, AllowKeeps
  <1> QED
    BY <1>2, <1>3 DEF Answer

LEMMA SuggestedKeeps ==
    ASSUME Chain, NEW p, Suggested(p)
    PROVE  Chain'
  <1> DEFINE r == Parse(rows[p].raw)
             rule == [resource |-> SuggestedAction, verbs |-> {r.verb},
                      target |-> SuggestedTarget(r)]
  <1>1. /\ acts' = acts /\ rows' = rows /\ task' = task /\ AllRules' = AllRules
        /\ filed' = filed \cup {rule} /\ loaded' = loaded
    BY DEF Suggested, table, history, AllRules
  <1>2. rule.resource = SuggestedAction
    OBVIOUS
  <1> HIDE DEF rule
  <1> QED
    BY <1>1, <1>2, AllowKeeps

\* A recommendation is for what was allowed outside of tasks, so that an operator
\* had named it, or for a discovery call, whose rule matches nothing.
LEMMA RecommendedIsCovered ==
    ASSUME Tables, Chain, NEW from \in DOMAIN rows, NEW x \in Synthesize(from)
    PROVE  ParsePattern(x.rule.resource) => Covered(x.rule.resource, x.rule.verbs)
  <1>1. PICK k \in {Kind(i) : i \in Observed(from)} :
          x.rule = Recommended({i \in Observed(from) : Kind(i) = k})
    BY DEF Synthesize
  <1> DEFINE group == {i \in Observed(from) : Kind(i) = k}
             i == CHOOSE i \in group : TRUE
             r == Parse(rows[i].raw)
  <1>2. i \in group
    BY <1>1
  <1>3. x.rule.resource = r.resource /\ x.rule.verbs = {r.verb}
    BY <1>1 DEF Recommended
  <1>4. i \in DOMAIN rows /\ rows[i].verdict = "allow" /\ ~rows[i].task
    <2>1. rows \in Seq(Rows) /\ DOMAIN rows = 1 .. Len(rows)
      BY DEF Tables
    <2>2. i \in from .. Len(rows) /\ rows[i].verdict = "allow" /\ ~rows[i].task
      BY <1>2 DEF Observed
    <2> QED
      BY <2>1, <2>2
  <1> HIDE DEF i
  <1>5. Trusted(rows[i], Lasting, Own, acts \ Lasting)
    BY <1>4 DEF Chain, RowsAreTrusted
  <1>6. CASE rows[i].source = "meta"
    <2>1. r.resource = "meta"
      BY <1>4, <1>5, <1>6, ParsedKinds DEF Trusted
    <2> QED
      BY <1>3, <2>1 DEF ParsePattern
  <1>7. CASE rows[i].source # "meta"
    <2>1. PICK act \in Own : Named(act, rows[i].raw)
      BY <1>4, <1>5, <1>7 DEF Trusted
    <2> QED
      BY <1>3, <2>1 DEF Covered, Named
  <1> QED
    BY <1>6, <1>7

LEMMA RecommendApplyKeeps ==
    ASSUME Tables, Chain, NEW from \in DOMAIN rows, RecommendApply(from)
    PROVE  Chain'
  <1>1. acts' = acts /\ rows' = rows /\ task' = task /\ filed' = filed /\ loaded' = loaded
    BY DEF RecommendApply, table, history
  <1>2. AllRules' \subseteq AllRules \cup {x.rule : x \in Synthesize(from)}
    BY DEF RecommendApply, AllRules
  <1>3. \A x \in {y.rule : y \in Synthesize(from)} :
          ParsePattern(x.resource) => Covered(x.resource, x.verbs)
    BY RecommendedIsCovered
  <1>4. \A x \in {y.rule : y \in Synthesize(from)} :
          ParsePattern(x.resource) => Covered(x.resource, x.verbs)'
    BY <1>1, <1>3, CoveredStays
  <1>5. TaskIsDeclared'
    BY <1>1, TaskFrom DEF Chain
  <1> QED
    BY <1>1, <1>2, <1>4, <1>5, ChainFrom

LEMMA RecommendSaveKeeps ==
    ASSUME Tables, Chain, NEW from \in DOMAIN rows, RecommendSave(from)
    PROVE  Chain'
  <1>1. rows' = rows /\ task' = task /\ loaded' = loaded /\ AllRules' = AllRules
    BY DEF RecommendSave, table, AllRules
  <1>2. PICK chosen \in SUBSET Synthesize(from) :
          /\ filed' = filed \cup {[resource |-> x.rule.resource, verbs |-> x.rule.verbs,
                                   target |-> Any] : x \in chosen}
          /\ acts' = acts \cup {[resource |-> x.rule.resource, verbs |-> x.rule.verbs,
                                 nss |-> Any, by |-> "saved"] : x \in chosen}
    BY DEF RecommendSave
  <1>3. acts \subseteq acts'
    BY <1>2
  <1>4. ASSUME NEW x \in chosen, NEW y, y = [resource |-> x.rule.resource,
                                             verbs |-> x.rule.verbs, target |-> Any]
        PROVE  AsAsked(y)' /\ (ParsePattern(y.resource) => Covered(y.resource, y.verbs)')
    <2> DEFINE act == [resource |-> x.rule.resource, verbs |-> x.rule.verbs, nss |-> Any,
                       by |-> "saved"]
    <2>1. act \in acts'
      BY <1>2
    <2>2. act \in Lasting'
      BY <2>1 DEF Lasting
    <2>3. AsAsked(y)'
      BY <1>4, <2>2 DEF AsAsked
    <2>4. ParsePattern(y.resource) => Covered(y.resource, y.verbs)
      BY <1>4, RecommendedIsCovered
    <2> QED
      BY <1>3, <2>3, <2>4, CoveredStays
  <1>5. TaskIsDeclared'
    BY <1>1, <1>3, TaskFrom DEF Chain
  <1> QED
    BY <1>1, <1>2, <1>3, <1>4, <1>5, ChainFrom

\* What a task declares is remembered; a rule of a task for a request is in it.
LEMMA StartTaskKeeps ==
    ASSUME Chain, NEW list, StartTask(list)
    PROVE  Chain'
  <1>1. /\ acts \subseteq acts' /\ rows' = rows /\ filed' = filed /\ loaded' = loaded
        /\ AllRules' = AllRules
    BY DEF StartTask, OpenTask, RememberRules, table, AllRules
  <1>2. ASSUME NEW x \in task', x.effect = "allow" PROVE Declares(x)'
    <2> DEFINE act == [resource |-> x.resource, verbs |-> x.verbs, nss |-> x.nss,
                       by |-> x.origin]
    <2>1. act \in acts'
      BY <1>2 DEF StartTask, RememberRules
    <2>2. x.origin = "task"
      BY DEF StartTask, OpenTask, TaskRule
    <2>3. act \in (acts \ Lasting)'
      BY <2>1, <2>2 DEF Lasting
    <2> QED
      BY <2>3 DEF Declares
  <1>3. TaskIsDeclared'
    BY <1>2 DEF TaskIsDeclared
  <1> QED
    BY <1>1, <1>3, ChainFrom

\* A declaration is of no namespace or of one; of two, the task has none.
OneNamespace == \A d \in Declarations : IsFiniteSet(d.nss) /\ Cardinality(d.nss) <= 1

LEMMA DeclaredScope ==
    ASSUME OneNamespace, NEW d \in Declarations
    PROVE  (IF Cardinality(d.nss) = 1 THEN d.nss ELSE Any) = d.nss
  <1>1. IsFiniteSet(d.nss) /\ Cardinality(d.nss) \in Nat /\ Cardinality(d.nss) <= 1
    BY FS_CardinalityType DEF OneNamespace
  <1>2. Cardinality(d.nss) = 0 => d.nss = {}
    BY <1>1, FS_EmptySet
  <1> QED
    BY <1>1, <1>2 DEF Any

LEMMA ScopeSelfKeeps ==
    ASSUME OneNamespace, Chain, NEW d \in Declarations, ScopeSelf(d)
    PROVE  Chain'
  <1>1. /\ acts \subseteq acts' /\ rows' = rows /\ filed' = filed /\ loaded' = loaded
        /\ AllRules' = AllRules
    BY DEF ScopeSelf, OpenTask, table, AllRules
  <1>2. ASSUME NEW x \in task', x.effect = "allow" PROVE Declares(x)'
    <2>1. x \in Declared(d)
      BY DEF ScopeSelf, OpenTask
    <2>2. PICK name \in d.resources, verbs \in d.verbs :
            x.resource = name /\ x.verbs = verbs /\ x.nss = d.nss
      BY <1>2, <2>1, DeclaredScope DEF Declared, TaskRule
    <2> DEFINE act == [resource |-> name, verbs |-> verbs, nss |-> d.nss, by |-> "task"]
    <2>3. act \in acts'
      BY DEF ScopeSelf
    <2>4. act \in (acts \ Lasting)'
      BY <2>3 DEF Lasting
    <2> QED
      BY <2>2, <2>4 DEF Declares
  <1>3. TaskIsDeclared'
    BY <1>2 DEF TaskIsDeclared
  <1> QED
    BY <1>1, <1>3, ChainFrom

\* The steps that add nothing.
LEMMA OthersKeep ==
    ASSUME Chain, NEW x,
           RemoveRule(x) \/ LoadDenies(x) \/ EndTask \/ Reload \/ ApplyNext \/ UNCHANGED vars
    PROVE  Chain'
  <1>1. CASE RemoveRule(x)
    <2>1. /\ acts' = acts /\ rows' = rows /\ task' = task /\ filed' = filed /\ loaded' = loaded
          /\ AllRules' \subseteq AllRules
      BY <1>1 DEF RemoveRule, table, AllRules
    <2> QED
      BY <2>1, ChainStays
  <1>2. CASE LoadDenies(x)
    <2>1. /\ acts' = acts /\ rows' = rows /\ task' = task /\ filed' = filed /\ loaded' = loaded
          /\ AllRules' = AllRules
      BY <1>2 DEF LoadDenies, table, history, AllRules
    <2> QED
      BY <2>1, ChainStays
  <1>3. CASE EndTask
    <2>1. /\ acts' = acts /\ rows' = rows /\ task' = {} /\ filed' = filed /\ loaded' = loaded
          /\ AllRules' = AllRules
      BY <1>3 DEF EndTask, table, history, AllRules
    <2> QED
      BY <2>1, ChainStays
  <1>4. CASE Reload
    <2>1. /\ acts' = acts /\ rows' = rows /\ task' = task /\ filed' = filed /\ loaded' = filed
          /\ AllRules' = AllRules
      BY <1>4 DEF Reload, table, history, AllRules
    <2> QED
      BY <2>1, ChainStays
  <1>5. CASE ApplyNext
    <2>1. /\ acts' = acts /\ rows' = rows /\ task' = task /\ filed' = filed /\ loaded' = loaded
      BY <1>5 DEF ApplyNext, table, history
    <2>2. AllRules' \subseteq AllRules
      BY <1>5 DEF ApplyNext, AllRules
    <2> QED
      BY <2>1, <2>2, ChainStays
  <1>6. CASE UNCHANGED vars
    <2>1. /\ acts' = acts /\ rows' = rows /\ task' = task /\ filed' = filed /\ loaded' = loaded
          /\ AllRules' = AllRules
      BY <1>6 DEF vars, table, policy, history, AllRules
    <2> QED
      BY <2>1, ChainStays
  <1> QED
    BY <1>1, <1>2, <1>3, <1>4, <1>5, <1>6

-----------------------------------------------------------------------------
(* The theorems *)

Inv == Tables /\ (~DefaultAllow => Chain)

LEMMA InitInv == Init => Inv
  <1> SUFFICES ASSUME Init PROVE Tables /\ Chain
    BY DEF Inv
  <1>1. /\ RulesAreCovered /\ AllowsAreCovered /\ TaskIsDeclared /\ RowsAreTrusted
    BY DEF Init, RulesAreCovered, AllRules, AllowsAreCovered, TaskIsDeclared, RowsAreTrusted
  <1> QED
    BY <1>1, InitTables DEF Chain

LEMMA StepInv == ASSUME OneNamespace PROVE Inv /\ [Next]_vars => Inv'
  <1> SUFFICES ASSUME Tables, ~DefaultAllow, Chain, [Next]_vars PROVE Chain'
    BY StepTables DEF Inv
  <1>1. ASSUME NEW raw \in Requests, Request(raw) PROVE Chain'
    BY <1>1, RequestKeeps
  <1>2. ASSUME NEW rule \in OperatorRules, AddRule(rule) PROVE Chain'
    BY <1>2, AddRuleKeeps
  <1>3. ASSUME NEW rule \in OperatorAllows, ProfileAllow(rule) PROVE Chain'
    BY <1>3, ProfileAllowKeeps
  <1>4. ASSUME NEW p, Answer(p) PROVE Chain'
    BY <1>4, AnswerKeeps
  <1>5. ASSUME NEW p, Suggested(p) PROVE Chain'
    BY <1>5, SuggestedKeeps
  <1>6. ASSUME NEW preset \in Presets, ApplyPreset(preset) PROVE Chain'
    BY <1>6, ApplyPresetKeeps
  <1>7. ASSUME NEW list, StartTask(list) PROVE Chain'
    BY <1>7, StartTaskKeeps
  <1>8. ASSUME NEW d \in Declarations, ScopeSelf(d) PROVE Chain'
    BY <1>8, ScopeSelfKeeps
  <1>9. ASSUME NEW from \in DOMAIN rows, RecommendApply(from) \/ RecommendSave(from)
        PROVE  Chain'
    BY <1>9, RecommendApplyKeeps, RecommendSaveKeeps
  <1>10. ASSUME NEW x, RemoveRule(x) \/ LoadDenies(x) PROVE Chain'
    BY <1>10, OthersKeep
  <1>11. CASE EndTask \/ Reload \/ ApplyNext \/ UNCHANGED vars
    BY <1>11, OthersKeep
  <1> QED
    BY <1>1, <1>2, <1>3, <1>4, <1>5, <1>6, <1>7, <1>8, <1>9, <1>10, <1>11 DEF Next

\* The invariant, as long as no declaration is of two namespaces.
THEOREM Invariance == ASSUME OneNamespace PROVE Spec => []Inv
  BY InitInv, StepInv, PTL DEF Spec

\* Rows keep their type, and prompts and answers are of rows that there are.
THEOREM TypeCorrect == Spec => []Tables
  BY InitTables, StepTables, PTL DEF Spec

\* A dynamic deny of a namespace reaches everything below it, whatever else there is.
LEMMA DeniedBelow == DenyReachesBelow
  <1> SUFFICES ASSUME NEW raw \in Requests, NEW t \in denies, t.kind = "namespace",
                      NEW ns \in t.names, BelowNamespace(raw, ns)
               PROVE  Decide(Parse(raw)).verdict = "deny"
    BY DEF DenyReachesBelow
  <1>1. Parse(raw).kind = "resource" /\ Parse(raw).ns = ns
    BY BelowHasNamespace
  <1>2. DenyMatches(denies, Parse(raw), Cluster)
    BY <1>1 DEF DenyMatches
  <1> QED
    BY <1>1, <1>2 DEF Decide, Deny

\* Under a default deny no chain of requests, recommendations, presets, answers,
\* saved profiles, tasks and reloads allows what nobody had named, and a denied
\* namespace stays denied: of any length, for any constants.
THEOREM ChainsAddNothing == ASSUME OneNamespace PROVE Spec => []AllowsAreEndorsed
  <1>1. Inv => LearnedIsEndorsed
    <2> SUFFICES ASSUME Inv, ~DefaultAllow, NEW i \in DOMAIN rows, rows[i].verdict = "allow"
                 PROVE  /\ rows[i].source = "profile_allow" =>
                             \E act \in Lasting : Endorses(act, rows[i].raw)
                        /\ rows[i].source \in {"profile_allow", "global"} =>
                             \E act \in Own : Named(act, rows[i].raw)
                        /\ rows[i].source = "task" =>
                             \E act \in acts \ Lasting : Endorses(act, rows[i].raw)
      BY DEF LearnedIsEndorsed, Allowed
    <2> QED
      BY DEF Inv, Chain, RowsAreTrusted, Trusted
  <1>2. Inv => AllowsAreEndorsed
    BY <1>1, DeniedBelow DEF AllowsAreEndorsed
  <1> QED
    BY <1>2, Invariance, PTL

\* The rule of an answered prompt matches the request that was asked about.
LEMMA PatternMatches ==
    ASSUME NEW raw \in Requests, Parse(raw).kind = "resource"
    PROVE  AllowRuleMatches(PromptPattern(Parse(raw)), Parse(raw))
  <1> DEFINE r == Parse(raw)
             rule == PromptPattern(r)
  <1>1. r.verb # None /\ r.resource # "meta"
    BY ParsedKinds, LearningAssumption
  <1>2. rule.target = Any /\ rule.verbs = {r.verb} /\ rule.resource = PromptResource(r)
    BY <1>1 DEF PromptPattern
  <1>3. PromptResource(r) \in {"*", r.resource} /\ ParsePattern(PromptResource(r))
    BY <1>1 DEF PromptResource, ParsePattern, None
  <1> QED
    BY <1>2, <1>3 DEF AllowRuleMatches, InScope

LEMMA AnsweredWorks == Tables => AnsweredIsAllowed
  <1> SUFFICES ASSUME Tables, NEW p \in answered,
                      PromptPattern(Parse(rows[p].raw)) \in loaded,
                      Parse(rows[p].raw).kind # "malformed", ~Parse(rows[p].raw).dry,
                      ~ProfileDenies(Active, Parse(rows[p].raw), Cluster), ~Active.full,
                      ~DenyMatches(denies, Parse(rows[p].raw), Cluster)
               PROVE  Decide(Parse(rows[p].raw)).verdict = "allow"
    BY DEF AnsweredIsAllowed
  <1> DEFINE raw == rows[p].raw
             r == Parse(raw)
  <1>1. raw \in Requests
    <2>1. rows \in Seq(Rows) /\ p \in 1 .. Len(rows)
      BY DEF Tables
    <2>2. rows[p] \in Rows
      BY <2>1
    <2> QED
      BY <2>2 DEF Rows
  <1>2. r.kind \in {"meta", "resource"}
    BY ParsedKinds
  <1>3. r.kind = "resource" => ProfileAllows(Active, loaded, r)
    BY <1>1, PatternMatches DEF ProfileAllows
  <1> QED
    BY <1>2, <1>3 DEF Decide, Allow

\* A preview asks the same of the profile, unless it is about clusters.
LEMMA CandidatesAgree ==
    ASSUME NEW r, "cluster" \notin Active.targets
    PROVE  Candidates(Active, r, None) = Candidates(Active, r, Cluster)
  <1> DEFINE targets == IF Active.targets = {} THEN {"resource_name", "namespace"}
                        ELSE Active.targets
             part(cluster) == [resource_name |-> r.name, namespace |-> r.ns, cluster |-> cluster]
  <1>1. targets \subseteq {"resource_name", "namespace"}
    BY LearningAssumption DEF Active
  <1>2. \A t \in targets : part(None)[t] = part(Cluster)[t]
    BY <1>1
  <1> QED
    BY <1>2 DEF Candidates

LEMMA ProfilesAgree ==
    ASSUME NEW r, Active.clusters = {}, "cluster" \notin Active.targets
    PROVE  ProfileDenies(Active, r, None) = ProfileDenies(Active, r, Cluster)
  BY CandidatesAgree DEF ProfileDenies, KeywordDenies

LEMMA PreviewWorks == PreviewAgrees
  <1> SUFFICES ASSUME NEW raw \in Requests, Parse(raw).kind # "meta", task = {},
                      ~DenyMatches(denies, Parse(raw), Cluster), ~Parse(raw).impersonated,
                      Active.clusters = {}, "cluster" \notin Active.targets
               PROVE  Preview(raw, loaded).verdict = Decide(Parse(raw)).verdict
    BY DEF PreviewAgrees
  <1> DEFINE plain == [raw EXCEPT !.impersonated = FALSE]
             r == Parse(raw)
  <1>1. raw \in [method : STRING, path : Seq(STRING), query : SUBSET STRING,
                 impersonated : BOOLEAN]
    BY LearningAssumption
  <1>2. CASE r.kind = "malformed"
    <2>1. plain.path = raw.path /\ plain.method = raw.method
      BY <1>1
    <2>2. ClassifyMetaPath(plain) <=> ClassifyMetaPath(raw)
      BY <2>1 DEF ClassifyMetaPath
    <2>3. r = Malformed /\ Parse(plain) = Malformed
      BY <1>2, <2>1, <2>2, ResourceFields DEF Parse, Malformed
    <2> QED
      BY <1>2, <2>3 DEF Preview, Decide, Deny
  <1>3. CASE r.kind = "resource"
    <2>1. raw.impersonated = FALSE
      BY <1>1, <1>3 DEF Parse, Resource, Malformed
    <2>2. plain = raw
      BY <1>1, <2>1
    <2>3. ProfileDenies(Active, r, None) = ProfileDenies(Active, r, Cluster)
      BY ProfilesAgree
    <2>4. {x \in task : x.effect = "allow"} = {}
      OBVIOUS
    <2>5. RuleSetEvaluate(rules, r) \in {"deny", "allow", "none"}
      BY DEF RuleSetEvaluate
    <2> QED
      BY <1>3, <2>2, <2>3, <2>4, <2>5, NoRules DEF Preview, Decide, Allow, Deny
  <1> QED
    BY <1>2, <1>3, ParsedKinds

\* What commands and tools say of a request comes true: an answer allows it once the
\* profile is loaded, a preview is its verdict.
THEOREM AdviceIsGood == Spec => []AdviceHolds
  <1>1. Tables => AdviceHolds
    BY AnsweredWorks, PreviewWorks DEF AdviceHolds
  <1> QED
    BY <1>1, TypeCorrect, PTL
=============================================================================
