---------------------------- MODULE MCLearning ----------------------------
(***************************************************************************)
(* What requests teach the proxy.  Rules: two pods and a namespace object; a *)
(* profile that denies deletes of what is in a namespace but not of the      *)
(* namespace object, tasks that allow reading or that delete, a preset, a    *)
(* file of dynamic denies, and operators who allow one thing each way.  Habits: two requests at a time under a detector that     *)
(* remembers one key for three hours.  A behaviour is of one or the other.   *)
(***************************************************************************)
EXTENDS Learning

CONSTANTS Parts, Goroutines, Keys, Sensitive, Habits, PerHour, Day, Window, DecayNum, DecayDen,
          MinActions, MaxKeys

VARIABLES part, habit, clock, seen, tracked, idle, req, asked, passed, units

B == INSTANCE Anomaly

ASSUME MCLearningAssumption == B!ConstantsAssumption
-----------------------------------------------------------------------------
ApiPath(tail) == <<"api", "v1">> \o tail
Raw(method, path, query) ==
    [method |-> method, path |-> path, query |-> query, impersonated |-> FALSE]

GetPod      == Raw("GET", ApiPath(<<"namespaces", "a", "pods", "web-1">>), {})
GetOther    == Raw("GET", ApiPath(<<"namespaces", "a", "pods", "web-2">>), {})
DeleteSpace == Raw("DELETE", ApiPath(<<"namespaces", "a">>), {})
PodLog      == Raw("GET", ApiPath(<<"namespaces", "a", "pods", "web-1", "log">>), {})
DryPatch    == Raw("PATCH", <<"apis", "apps", "v1", "namespaces", "a", "deployments", "d">>, {"dryRun"})
Version     == Raw("GET", <<"version">>, {})
Unknown     == Raw("GET", <<"nothing">>, {})

MCAllVerbs == {"get", "list", "watch", "create", "update", "patch", "delete",
               "deletecollection", "log", "exec"}
MCFamily == [n \in {"a", "b", "web-1", "web-2", "d", "token"} |->
                CASE n \in {"web-1", "web-2"} -> "web" [] OTHER -> n]
MCRequests == {GetPod, GetOther, PodLog, DeleteSpace, Version}
MCMoreRequests == MCRequests \cup {DryPatch, Unknown,
                                   Raw("GET", ApiPath(<<"namespaces", "b", "secrets", "token">>), {}),
                                   Raw("GET", ApiPath(<<"namespaces", "b", "pods", "web-1">>), {})}
\* Of a name its words, and of those and of some more the texts in it.
Names == {"a", "b", "web-1", "web-2", "d", "token"}
MCWords == [n \in Names |-> IF n \in {"web-1", "web-2"} THEN {"web"} ELSE {n}]
MCTexts == [n \in Names |-> MCWords[n] \cup {n} \cup (IF n \in {"web-1", "web-2"} THEN {"eb"} ELSE {})]
\* A floor that says nothing of clusters, and one of two keywords that names its
\* cluster and has an exception.
MCProfile ==
    [full |-> FALSE, impersonation |-> TRUE, keywords |-> {"eb"}, targets |-> {},
     substring |-> FALSE, exceptions |-> {}, clusters |-> {}, denies |-> {"delete"},
     exempt |-> {<<"delete", "core", "namespaces">>}, subresources |-> TRUE]
MCOtherProfile ==
    [MCProfile EXCEPT !.targets = {"resource_name"}, !.substring = TRUE, !.exceptions = {"web-1"},
                      !.clusters = {"here"}]

Wrote(bouncer, verbs, resources) == [bouncer |-> bouncer, verbs |-> verbs, resources |-> resources]
MCGenerated == {Wrote("kbounce", {"exec"}, {"secrets"}), Wrote("gbounce", {"get"}, {"pods"})}

Rule(resource, verbs, nss, effect, origin) ==
    [resource |-> resource, verbs |-> verbs, effect |-> effect, nss |-> nss, names |-> {},
     origin |-> origin]
MCOperatorRules ==
    {Rule("pods", {"get"}, {"a"}, "allow", "user"), Rule("namespaces", {"delete"}, {}, "deny", "user")}
MCPresets == {{Rule("pods", {"get", "log"}, {}, "allow", "preset"),
               Rule("*", {"delete"}, {}, "deny", "preset")}}

\* A task that may read in a namespace; one whose namespaces are two.
Declaration(nss) == [resources |-> {"pods"}, verbs |-> {{"get", "log"}}, nss |-> nss, denied |-> {{"exec"}}]
MCDeclarations == {Declaration({"a"})}
MCMoreDeclarations == {Declaration({"a", "d"})}
MCShorthands ==
    {{[resource |-> "namespaces", verbs |-> {"delete"}, nss |-> {}, names |-> {}, effect |-> "allow",
       formed |-> formed]} : formed \in BOOLEAN}

\* Files that deny a namespace; the second also names a rule twice.
Target(kind, names, triple) == [kind |-> kind, names |-> names, triple |-> triple]
DenyRule(id, target) ==
    [id |-> id, whole |-> TRUE, bouncers |-> {"kbouncer"}, expired |-> FALSE,
     targets |-> {target, Target("unknown", {}, <<>>)}]
DenyFile(list) == [version |-> "1.0", product |-> "none", denies |-> list]
DenyA == DenyRule("dd_1", Target("namespace", {"a"}, <<>>))
MCDenyFiles ==
    {DenyFile(<<DenyA, DenyRule("dd_2", Target("resource", {}, <<"core", "v1", "nodes">>))>>),
     DenyFile(<<DenyRule("dd_1", Target("cluster", {"there"}, <<>>)), DenyA>>)}
MCOperatorAllows == {[resource |-> "*", verbs |-> MCAllVerbs, target |-> {"a"}]}

Habit(mode, sigma, known, past, pace, most, span) ==
    [mode |-> mode, sigma |-> sigma, keys |-> {"k1"}, known |-> known, past |-> past,
     floors |-> {"allow"}, pace |-> pace, most |-> most, span |-> span]

\* An agent at a steady pace, from its first request; a burst of an agent that
\* was steady, and denies among its requests; a second key, and a sensitive one.
MCHabits ==
    {Habit("block", sigma, {}, 0, TRUE, 1, 0) : sigma \in {"medium", "low"}}
    \cup {Habit("block", "medium", {"k1"}, 1, FALSE, 5, 0),
          [Habit("block", "medium", {"k1"}, 1, FALSE, 3, 1) EXCEPT !.floors = {"allow", "deny"}],
          [Habit("block", "medium", {"k1"}, 1, FALSE, 2, 0) EXCEPT !.keys = {"k1", "k2"}],
          [Habit("alert", "high", {"k1"}, 1, FALSE, 2, 0) EXCEPT !.keys = {"k1", "secret"}]}

\* A quicker pace; and an agent that was busy once and has been quiet since.
MCMoreHabits ==
    MCHabits \cup {Habit("block", "medium", {}, 0, TRUE, 2, 0),
                   Habit("block", "medium", {"k1"}, 4, FALSE, 1, 3),
                   Habit("alert", "medium", {"k1"}, 2, FALSE, 1, 4)}

habits == <<habit, clock, seen, tracked, idle, req, asked, passed, units>>

MCInit ==
    \/ part = "rules" /\ "rules" \in Parts /\ Init /\ B!Rest
    \/ part = "habits" /\ "habits" \in Parts /\ Init /\ B!Init

MCNext ==
    \/ part = "rules" /\ Next /\ UNCHANGED <<part, habits>>
    \/ part = "habits" /\ B!Next /\ UNCHANGED <<part, vars>>

\* Of Anomaly nothing is enabled in the behaviours that are not of it.
MCSpec == MCInit /\ [][MCNext]_<<part, vars, habits>> /\ B!Fairness
-----------------------------------------------------------------------------
\* No more of a burst gets through in block mode than the requests in flight can
\* carry past the score (Anomaly).
BurstIsHeld == B!BurstIsHeld

\* An agent at a steady pace is let through in the end (Anomaly).
SteadyIsAllowed == part = "habits" => B!SteadyIsAllowed

BaselineIsKept == B!BaselineIsKept
QuietIsFine == B!QuietIsFine
ModesAgree == B!ModesAgree
=============================================================================
