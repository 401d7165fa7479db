------------------------------ MODULE Matching ------------------------------
(***************************************************************************)
(* From a method and a path to a verdict: the request parser, the patterns  *)
(* and scopes of rules, the layers of a profile and the targets of dynamic  *)
(* denies, as operators without state.                                      *)
(*                                                                          *)
(* Names, verbs and path segments are atoms.  A glob is the set of atoms it *)
(* matches; an empty scope is the set {}.  The discovery kinds share one    *)
(* resource, "meta".                                                        *)
(***************************************************************************)
EXTENDS Integers, Sequences, FiniteSets

CONSTANTS
    AllVerbs,   \* what the glob "*" stands for: verbs and subresources
    Words,      \* of a name: its words, between what is neither letter nor digit
    Texts       \* of a name: the texts that are in it

None == "none"   \* the empty string: no namespace, no name, no subresource
Any  == {}       \* a scope that is not set, or "*"
-----------------------------------------------------------------------------
(* parser.Parse: a raw request is a method, the segments of its path, the   *)
(* query parameters that are set, and whether it has impersonation headers. *)

ClassifyMetaPath(raw) ==
    LET p == raw.path IN
    /\ raw.method = "GET"
    /\ \/ p[1] \in {"openapi", "healthz", "readyz", "livez"}
       \/ p[1] \in {"version", "metrics"} /\ Len(p) = 1
       \/ p[1] = "api" /\ Len(p) <= 2
       \/ p[1] = "apis" /\ Len(p) <= 3

Segment(s, i) == IF i \in DOMAIN s THEN s[i] ELSE None

ClusterScopedTail(ns, s) ==
    [ns |-> ns, resource |-> s[1], name |-> Segment(s, 2), sub |-> Segment(s, 3)]

\* "namespaces/{ns}" alone is the namespace object, which has no namespace.
ResourceTail(s) ==
    IF s[1] = "namespaces" /\ Len(s) >= 3
    THEN ClusterScopedTail(s[2], SubSeq(s, 3, Len(s)))
    ELSE ClusterScopedTail(None, s)

\* A subresource is the verb.
InferVerb(raw, t) ==
    LET Named(yes, no) == IF t.name # None THEN yes ELSE no
    IN  CASE t.sub # None           -> t.sub
          [] raw.method = "GET"     -> IF "watch" \in raw.query THEN "watch" ELSE Named("get", "list")
          [] raw.method = "HEAD"    -> Named("get", "list")
          [] raw.method = "POST"    -> "create"
          [] raw.method = "PUT"     -> "update"
          [] raw.method = "PATCH"   -> "patch"
          [] raw.method = "DELETE"  -> Named("delete", "deletecollection")
          [] OTHER                  -> "other"

Malformed == [kind |-> "malformed", method |-> None, impersonated |-> FALSE, dry |-> FALSE,
              group |-> None, version |-> None, ns |-> None, resource |-> None, name |-> None, sub |-> None,
              verb |-> None]

Resource(raw, group, version, segments) ==
    LET t == ResourceTail(segments) IN
    [kind |-> "resource", method |-> raw.method, impersonated |-> raw.impersonated,
     dry |-> "dryRun" \in raw.query, group |-> group, version |-> version, ns |-> t.ns,
     resource |-> t.resource, name |-> t.name, sub |-> t.sub, verb |-> InferVerb(raw, t)]

Parse(raw) ==
    LET p == raw.path IN
    IF p # <<>> /\ ClassifyMetaPath(raw)
    THEN [Malformed EXCEPT !.kind = "meta", !.method = "GET", !.resource = "meta", !.verb = "get",
                           !.impersonated = raw.impersonated]
    ELSE IF p # <<>> /\ p[1] = "api" /\ Len(p) >= 3 THEN Resource(raw, "core", p[2], SubSeq(p, 3, Len(p)))
    ELSE IF p # <<>> /\ p[1] = "apis" /\ Len(p) >= 4 THEN Resource(raw, p[2], p[3], SubSeq(p, 4, Len(p)))
    ELSE Malformed
-----------------------------------------------------------------------------
(* Rules: [resource, verbs, nss, names, effect]. *)

\* ParsePattern: "meta:version:get" has three parts, ":get" an empty half.
ParsePattern(resource) == resource \notin {"meta", None}

\* A scope that is set never matches a request without that part.
InScope(x, scope) == scope = Any \/ (x # None /\ x \in scope)

Matches(rule, r) ==
    /\ ParsePattern(rule.resource)
    /\ rule.resource \in {"*", r.resource}
    /\ r.verb \in rule.verbs
    /\ InScope(r.ns, rule.nss)
    /\ InScope(r.name, rule.names)

\* RuleSet.Evaluate: a deny beats an allow, whatever the order of the rules.
RuleSetEvaluate(rules, r) ==
    LET effects == {rule.effect : rule \in {x \in rules : Matches(x, r)}}
    IN  IF "deny" \in effects THEN "deny" ELSE IF "allow" \in effects THEN "allow" ELSE "none"
-----------------------------------------------------------------------------
(* Profiles: [full, impersonation, keywords, targets, substring, exceptions, *)
(* clusters, denies, exempt, subresources].  An allow rule is [resource,     *)
(* verbs, target].                                                           *)

WriteMethods == {"POST", "PUT", "PATCH", "DELETE"}

IsExempt(p, r) == <<r.verb, r.group, r.resource>> \in p.exempt

\* collectCandidates.  The resource itself is no target.
Candidates(p, r, cluster) ==
    LET part == [resource_name |-> r.name, namespace |-> r.ns, cluster |-> cluster]
        targets == IF p.targets = {} THEN {"resource_name", "namespace"} ELSE p.targets
    IN  {part[t] : t \in targets} \ {None}

\* An exception in one candidate excuses them all.
KeywordDenies(p, r, cluster) ==
    LET candidates == Candidates(p, r, cluster) IN
    /\ \A v \in candidates : p.exceptions \cap Texts[v] = {}
    /\ \E v \in candidates : p.keywords \cap (IF p.substring THEN Texts[v] ELSE Words[v]) # {}

ProfileDenies(p, r, cluster) ==
    /\ ~p.full /\ ~r.dry
    /\ \/ p.impersonation /\ r.impersonated
       \/ KeywordDenies(p, r, cluster)
       \/ p.clusters # {} /\ cluster \notin p.clusters
       \/ r.verb \in p.denies /\ ~IsExempt(p, r)
       \/ p.subresources /\ r.sub \notin {None, "log", "logs"} /\ r.method \in WriteMethods

\* A target that names a namespace is a floor; any other one is a comment.
AllowRuleMatches(rule, r) ==
    /\ InScope(r.ns, rule.target)
    /\ ParsePattern(rule.resource)
    /\ rule.resource \in {"*", r.resource}
    /\ r.verb \in rule.verbs

ProfileAllows(p, allows, r) ==
    ~p.full /\ ~r.dry /\ \E rule \in allows : AllowRuleMatches(rule, r)

\* Profile.UnmarshalYAML, of the denies a generator wrote.
FromGenerator(p, generated) ==
    LET mine == {g \in generated : g.bouncer \in {None, "kbounce", "kbouncer"}} IN
    [p EXCEPT !.denies   = @ \cup UNION {g.verbs : g \in mine},
              !.keywords = @ \cup UNION {g.resources : g \in mine}]
-----------------------------------------------------------------------------
(* The file of dynamic denies: [version, product, denies].  A rule of it is  *)
(* [id, whole, bouncers, expired, targets], `whole` if no field is missing;  *)
(* a target is [kind, names, triple], of kind "unknown" if it has no shape.  *)

Bouncers == {"ibounce", "kbounce", "kbouncer", "dbounce", "gbounce"}

\* validateFile and validateRule: one rule that is not right spoils the file.
Valid(file) ==
    /\ file.version = "1.0"
    /\ file.product \in {None, "iam-jit-dynamic-denies"}
    /\ \A i \in DOMAIN file.denies :
         LET rule == file.denies[i] IN
         /\ rule.whole /\ rule.targets # {}
         /\ rule.bouncers # {} /\ rule.bouncers \subseteq Bouncers
         /\ \A j \in DOMAIN file.denies : file.denies[j].id = rule.id => j = i

\* parseAndFilter: a target of unknown shape is left out, its rule is not.
Patterns(file) ==
    LET Applies(rule) == rule.bouncers \cap {"kbouncer", "kbounce"} # {} /\ ~rule.expired
        rules == {file.denies[i] : i \in DOMAIN file.denies}
    IN  {t \in UNION {rule.targets : rule \in {x \in rules : Applies(x)}} : t.kind # "unknown"}

\* RuleSet.Match
DenyMatches(patterns, r, cluster) ==
    \E t \in patterns :
        \/ t.kind = "namespace" /\ r.ns \in t.names
        \/ t.kind = "cluster" /\ cluster \in t.names
        \/ t.kind = "resource" /\ <<r.group, r.version, r.resource>> = t.triple
=============================================================================
