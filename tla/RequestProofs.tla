---------------------------- MODULE RequestProofs ----------------------------
(***************************************************************************)
(* Proofs about one request on its way through the proxy: what decides it   *)
(* (Decision), and what lets it through after all when it is held until an  *)
(* operator answers (SyncPrompt).                                           *)
(*                                                                          *)
(* Decision, for any number of requests, any set of start-up options, any   *)
(* profiles and any number of changes: the invariant Inv says of each       *)
(* request what its locals still know of the layers (Snapshots), which      *)
(* layers an allow has passed (Passed) and what it has left behind (Trail). *)
(*                                                                          *)
(* SyncPrompt, for any number of blocked requests, callers, processes and   *)
(* restarts: PromptInv is inductive as long as bulk answers come from       *)
(* outside the proxy's process (BulkOutside); its parts are the safety      *)
(* properties the runs check.                                               *)
(***************************************************************************)
EXTENDS Decision, SyncPrompt, TLAPS

-----------------------------------------------------------------------------
(* The inductive invariant *)

Undecided == {"idle", "profile", "dynamic", "pause", "floors", "task", "task_deny", "rules", "compose"}
Ruling    == {"task", "task_deny", "rules", "compose"}

\* No profile layer decided the request: the task and the rules did, or will.
Ruled(r) == loc[r].kind = "resource" /\ ~ ProfileAllows(loc[r].profile, loc[r].dry)

\* Allowed by a task, a global rule or the default policy.
RuledIn(r) == loc[r].verdict = "allow" /\ Ruled(r)

\* A layer that has not changed since the request came in is as the request
\* read it.
Snapshots(r) ==
    LET q == loc[r] IN
    /\ (q.at \notin {"idle", "profile"} /\ q.outcome # "unavailable" /\ "profile" \in held[r]) =>
         q.profile = profile
    /\ (q.at \notin {"idle", "profile", "dynamic"} /\ q.outcome # "unavailable"
          /\ "dynamic" \in held[r]) => q.dynamic = dynamic
    /\ (q.at \in {"task_deny", "rules", "compose"} \/ RuledIn(r)) /\ Standing(r, "task") =>
         q.task = task
    /\ (q.at = "compose" \/ RuledIn(r)) /\ Standing(r, "rules") => q.rules = rules

\* What has been ruled out by the time the request is at a place or is allowed.
Passed(r) ==
    LET q == loc[r] IN
    /\ q.at \in Ruling => /\ q.kind = "resource" /\ ~ q.dynamic
                          /\ ~ ProfileDenies(q.profile, q.dry) /\ ~ ProfileAllows(q.profile, q.dry)
    /\ q.verdict = "allow" => ~ ProfileDenies(q.profile, q.dry)
    /\ (q.verdict = "allow" /\ q.kind = "resource") => ~ q.dynamic
    /\ (q.at \in {"rules", "compose"} \/ RuledIn(r)) => "deny" \notin q.task
    /\ RuledIn(r) => "deny" \notin q.rules
    /\ (q.verdict = "allow" /\ q.source = "default") => Ruled(r) /\ q.task = NoTask

\* The observation, the row, the event, the prompt and the answer, in order.
Trail(r) ==
    LET q == loc[r]
        answered == q.outcome \notin {"", "unavailable"}
    IN
    /\ q.at \in Undecided => q.verdict = "" /\ ~ q.enforced
    /\ q.at \in Undecided \cup {"record", "emit", "prompt"} => ~ q.prompt
    /\ q.outcome = "unavailable" => ~ q.prompt /\ q.verdict = ""
    /\ q.at = "done" <=> q.outcome # ""
    /\ (q.at \in {"record", "emit", "prompt", "answer", "sync"} \/ answered) =>
         q.verdict \in {"allow", "deny"}
    /\ (q.at \in {"emit", "prompt", "answer", "sync"} \/ answered) =>
         q.row \in {q.verdict, "unwritten"}
    /\ (q.at \in {"prompt", "answer", "sync"} \/ answered) => q.event = q.verdict
    /\ q.enforced => q.verdict = "deny"
    /\ (q.verdict = "deny" /\ ~ q.enforced) => ~ Enforcing(r)
    /\ q.at = "sync" => q.enforced /\ config.sync_prompt
    /\ q.outcome = "forbidden" => q.enforced
    /\ q.outcome = "forwarded" => ~ q.enforced
    /\ q.prompt => /\ q.enforced /\ q.row = "deny" /\ ~ config.sync_prompt
                   /\ q.outcome \in {"", "forbidden"}

Inv ==
    /\ TypeOK
    /\ \A r \in Requests : Snapshots(r) /\ Passed(r) /\ Trail(r)

-----------------------------------------------------------------------------
(* Steps of one request *)

\* What a step of one request leaves alone.
LEMMA QuietMeans ==
    ASSUME Quiet
    PROVE  /\ config' = config /\ profile' = profile /\ dynamic' = dynamic /\ pause' = pause
           /\ task' = task /\ rules' = rules /\ refusing' = refusing
           /\ changes' = changes /\ held' = held
  BY DEF Quiet, layers

\* A step of one request preserves the invariant if it does so for its own
\* locals: the layers and the other requests stay as they are.
LEMMA OneRequestMoves ==
    ASSUME Inv, NEW r \in Requests, Quiet, loc' \in [Requests -> Locals],
           \A p \in Requests : p # r => loc'[p] = loc[p],
           Snapshots(r)', Passed(r)', Trail(r)'
    PROVE  Inv'
  <1>1. TypeOK'
    BY DEF Inv, TypeOK, Quiet, layers
  <1>2. ASSUME NEW p \in Requests, p # r PROVE (Snapshots(p) /\ Passed(p) /\ Trail(p))'
    <2>1. loc'[p] = loc[p] /\ Snapshots(p) /\ Passed(p) /\ Trail(p)
      BY <1>2 DEF Inv
    <2>2. Snapshots(p)'
      BY <2>1 DEF Quiet, layers, Snapshots, RuledIn, Ruled, Standing
    <2>3. Passed(p)'
      BY <2>1 DEF Passed, RuledIn, Ruled
    <2>4. Trail(p)'
      BY <2>1 DEF Quiet, layers, Trail, Enforcing
    <2> QED
      BY <2>2, <2>3, <2>4
  <1> QED
    BY <1>1, <1>2 DEF Inv

\* Its own locals become q.
LEMMA NewLocals ==
    ASSUME Inv, NEW r \in Requests, NEW q \in Locals, loc' = [loc EXCEPT ![r] = q]
    PROVE  /\ loc' \in [Requests -> Locals]
           /\ \A p \in Requests : p # r => loc'[p] = loc[p]
           /\ loc'[r] = q
  BY DEF Inv, TypeOK

\* What the invariant says of one request.
LEMMA LocalFacts ==
    ASSUME Inv, NEW r \in Requests
    PROVE  loc[r] \in Locals /\ Snapshots(r) /\ Passed(r) /\ Trail(r)
  BY DEF Inv, TypeOK

\* The profile is read: from now on it is the request's.
LEMMA ReadProfileInv ==
    ASSUME Inv, NEW r \in Requests, ReadProfile(r) PROVE Inv'
  <1> DEFINE q == loc[r]
             q2 == [q EXCEPT !.at = "dynamic", !.profile = profile]
  <1>1. q \in Locals /\ q.at = "profile" /\ Trail(r) /\ Quiet /\ loc' = [loc EXCEPT ![r] = q2]
    BY LocalFacts DEF ReadProfile
  <1>2. /\ q2 \in Locals /\ q2.at = "dynamic" /\ q2.profile = profile /\ q2.verdict = q.verdict
        /\ q2.enforced = q.enforced /\ q2.prompt = q.prompt /\ q2.outcome = q.outcome
    BY <1>1 DEF Inv, TypeOK, Locals, Places
  <1> HIDE DEF q2
  <1>3. /\ loc' \in [Requests -> Locals] /\ loc'[r] = q2
        /\ \A p \in Requests : p # r => loc'[p] = loc[p]
    BY <1>1, <1>2, NewLocals
  <1>4. q.verdict = ""
    BY <1>1 DEF Trail, Undecided
  <1>5. Snapshots(r)'
    BY <1>1, <1>2, <1>3, <1>4, QuietMeans DEF Snapshots, RuledIn
  <1>6. Passed(r)'
    BY <1>2, <1>3, <1>4 DEF Passed, RuledIn, Ruling
  <1>7. Trail(r)'
    BY <1>1, <1>2, <1>3, <1>4, QuietMeans DEF Trail, Undecided, Enforcing
  <1> QED
    BY <1>1, <1>3, <1>5, <1>6, <1>7, OneRequestMoves

\* So are the dynamic denies.
LEMMA ReadDynamicInv ==
    ASSUME Inv, NEW r \in Requests, ReadDynamic(r) PROVE Inv'
  <1> DEFINE q == loc[r]
             q2 == [q EXCEPT !.at = "pause", !.dynamic = dynamic]
  <1>1. /\ q \in Locals /\ q.at = "dynamic" /\ Snapshots(r) /\ Trail(r) /\ Quiet
        /\ loc' = [loc EXCEPT ![r] = q2]
    BY LocalFacts DEF ReadDynamic
  <1>2. /\ q2 \in Locals /\ q2.at = "pause" /\ q2.dynamic = dynamic /\ q2.profile = q.profile
        /\ q2.verdict = q.verdict /\ q2.enforced = q.enforced /\ q2.prompt = q.prompt
        /\ q2.outcome = q.outcome
    BY <1>1 DEF Inv, TypeOK, Locals, Places
  <1> HIDE DEF q2
  <1>3. /\ loc' \in [Requests -> Locals] /\ loc'[r] = q2
        /\ \A p \in Requests : p # r => loc'[p] = loc[p]
    BY <1>1, <1>2, NewLocals
  <1>4. q.verdict = "" /\ q.outcome = ""
    BY <1>1 DEF Trail, Undecided
  <1>5. Snapshots(r)'
    BY <1>1, <1>2, <1>3, <1>4, QuietMeans DEF Snapshots, RuledIn
  <1>6. Passed(r)'
    BY <1>2, <1>3, <1>4 DEF Passed, RuledIn, Ruling
  <1>7. Trail(r)'
    BY <1>1, <1>2, <1>3, <1>4, QuietMeans DEF Trail, Undecided, Enforcing
  <1> QED
    BY <1>1, <1>3, <1>5, <1>6, <1>7, OneRequestMoves

\* Whether a pause was seen decides only whether a deny will be enforced, and
\* nothing has been decided yet.
LEMMA LookupPauseInv ==
    ASSUME Inv, NEW r \in Requests, LookupPause(r) PROVE Inv'
  <1> DEFINE q == loc[r]
             After(seen) == [q EXCEPT !.at = "floors", !.paused = seen]
  <1>1. q \in Locals /\ q.at = "pause" /\ Snapshots(r) /\ Trail(r) /\ Quiet
    BY LocalFacts DEF LookupPause
  <1>2. PICK seen \in {pause, FALSE} : loc' = [loc EXCEPT ![r] = After(seen)]
    BY DEF LookupPause
  <1> DEFINE q2 == After(seen)
  <1>3. /\ q2 \in Locals /\ q2.at = "floors" /\ q2.profile = q.profile /\ q2.dynamic = q.dynamic
        /\ q2.verdict = q.verdict /\ q2.enforced = q.enforced /\ q2.prompt = q.prompt
        /\ q2.outcome = q.outcome
    BY <1>1, <1>2 DEF Inv, TypeOK, Locals, Places
  <1> HIDE DEF q2
  <1>4. /\ loc' \in [Requests -> Locals] /\ loc'[r] = q2
        /\ \A p \in Requests : p # r => loc'[p] = loc[p]
    BY <1>2, <1>3, NewLocals DEF q2
  <1>5. q.verdict = "" /\ q.outcome = ""
    BY <1>1 DEF Trail, Undecided
  <1>6. Snapshots(r)'
    BY <1>1, <1>3, <1>4, <1>5, QuietMeans DEF Snapshots, RuledIn
  <1>7. Passed(r)'
    BY <1>3, <1>4, <1>5 DEF Passed, RuledIn, Ruling
  <1>8. Trail(r)'
    BY <1>1, <1>3, <1>4, <1>5, QuietMeans DEF Trail, Undecided, Enforcing
  <1> QED
    BY <1>1, <1>4, <1>6, <1>7, <1>8, OneRequestMoves

-----------------------------------------------------------------------------
(* The two terminals of the evaluation *)

Evaluating == {"floors", "task_deny", "compose"}

\* A deny is enforced exactly when the effective mode enforces.
LEMMA DeniedInv ==
    ASSUME Inv, NEW r \in Requests, Quiet, loc[r].at \in Evaluating,
           NEW source \in Sources, Denied(r, source)
    PROVE  Inv'
  <1> DEFINE q == loc[r]
             q2 == [q EXCEPT !.at = "record", !.verdict = "deny", !.source = source,
                             !.enforced = Enforcing(r)]
  <1>1. q \in Locals /\ Snapshots(r) /\ Trail(r) /\ loc' = [loc EXCEPT ![r] = q2]
    BY LocalFacts DEF Denied
  <1>2. Enforcing(r) \in BOOLEAN
    BY DEF Enforcing
  <1>3. /\ q2 \in Locals /\ q2.at = "record" /\ q2.verdict = "deny" /\ q2.enforced = Enforcing(r)
        /\ q2.profile = q.profile /\ q2.dynamic = q.dynamic /\ q2.paused = q.paused
        /\ q2.prompt = q.prompt /\ q2.outcome = q.outcome
    BY <1>1, <1>2 DEF Locals, Places
  <1> HIDE DEF q2
  <1>4. /\ loc' \in [Requests -> Locals] /\ loc'[r] = q2
        /\ \A p \in Requests : p # r => loc'[p] = loc[p]
    BY <1>1, <1>3, NewLocals
  <1>5. q.outcome = "" /\ ~ q.prompt
    BY <1>1 DEF Trail, Undecided, Evaluating
  <1>6. Snapshots(r)'
    BY <1>1, <1>3, <1>4, <1>5, QuietMeans DEF Snapshots, RuledIn, Evaluating
  <1>7. Passed(r)'
    BY <1>3, <1>4 DEF Passed, RuledIn, Ruling
  <1>8. Enforcing(r)' <=> Enforcing(r)
    BY <1>3, <1>4, QuietMeans DEF Enforcing
  <1>9. Trail(r)'
    BY <1>3, <1>4, <1>5, <1>8 DEF Trail, Undecided
  <1> QED
    BY <1>4, <1>6, <1>7, <1>9, OneRequestMoves

\* What a layer may allow: nothing a profile or a dynamic deny speaks against,
\* and by a task, a rule or the default only what no task or global rule denies.
Clear(r, source) ==
    LET q == loc[r] IN
    /\ ~ ProfileDenies(q.profile, q.dry)
    /\ q.kind = "resource" => ~ q.dynamic
    /\ Ruled(r) => q.at = "compose" /\ "deny" \notin q.task /\ "deny" \notin q.rules
    /\ source = "default" => Ruled(r) /\ q.task = NoTask

\* An allow, or the block the anomaly hook makes of it.
LEMMA AllowedInv ==
    ASSUME Inv, NEW r \in Requests, Quiet, loc[r].at \in Evaluating,
           NEW source \in Sources, Allowed(r, source), Clear(r, source)
    PROVE  Inv'
  <1> DEFINE q == loc[r]
             pass == [q EXCEPT !.at = "record", !.verdict = "allow", !.source = source]
             block == [q EXCEPT !.at = "record", !.verdict = "deny", !.source = "anomaly_block",
                                !.enforced = TRUE]
  <1>1. q \in Locals /\ Snapshots(r) /\ Passed(r) /\ Trail(r)
    BY LocalFacts
  <1>2. q.outcome = "" /\ ~ q.prompt /\ ~ q.enforced
    BY <1>1 DEF Trail, Undecided, Evaluating
  <1>3. CASE loc' = [loc EXCEPT ![r] = pass]
    <2>1. /\ pass \in Locals /\ pass.at = "record" /\ pass.verdict = "allow" /\ pass.source = source
          /\ pass.enforced = q.enforced /\ pass.profile = q.profile /\ pass.dynamic = q.dynamic
          /\ pass.prompt = q.prompt /\ pass.outcome = q.outcome /\ pass.task = q.task
          /\ pass.rules = q.rules /\ pass.failed = q.failed /\ pass.kind = q.kind
          /\ pass.dry = q.dry
      BY <1>1 DEF Locals, Places
    <2> HIDE DEF pass
    <2>2. /\ loc' \in [Requests -> Locals] /\ loc'[r] = pass
          /\ \A p \in Requests : p # r => loc'[p] = loc[p]
      BY <1>3, <2>1, NewLocals
    <2>3. Ruled(r)' <=> Ruled(r)
      BY <2>1, <2>2 DEF Ruled
    <2>4. Snapshots(r)'
      <3>1. RuledIn(r)' => q.at = "compose"
        BY <2>3 DEF RuledIn, Clear
      <3>2. \A layer : Standing(r, layer)' <=> Standing(r, layer)
        BY <2>1, <2>2, QuietMeans DEF Standing
      <3> QED
        BY <1>1, <1>2, <2>1, <2>2, <3>1, <3>2, QuietMeans DEF Snapshots, Evaluating
    <2>5. Passed(r)'
      BY <2>1, <2>2, <2>3 DEF Passed, RuledIn, Ruling, Clear
    <2>6. Trail(r)'
      BY <1>2, <2>1, <2>2 DEF Trail, Undecided
    <2> QED
      BY <2>2, <2>4, <2>5, <2>6, OneRequestMoves
  <1>4. CASE loc' = [loc EXCEPT ![r] = block]
    <2>0. PICK yes \in BOOLEAN : yes = TRUE
      BY Zenon
    <2>1. block = [q EXCEPT !.at = "record", !.verdict = "deny", !.source = "anomaly_block",
                            !.enforced = yes]
      BY <2>0, Zenon
    <2> HIDE DEF block
    <2>2. /\ block \in Locals /\ block.at = "record" /\ block.verdict = "deny"
          /\ block.enforced = yes /\ block.profile = q.profile /\ block.dynamic = q.dynamic
          /\ block.prompt = q.prompt /\ block.outcome = q.outcome
      BY <1>1, <2>1 DEF Locals, Places, Sources
    <2>3. /\ loc' \in [Requests -> Locals] /\ loc'[r] = block
          /\ \A p \in Requests : p # r => loc'[p] = loc[p]
      BY <1>4, <2>2, NewLocals
    <2>4. Snapshots(r)'
      BY <1>1, <1>2, <2>2, <2>3, QuietMeans DEF Snapshots, RuledIn, Evaluating
    <2>5. Passed(r)'
      BY <2>2, <2>3 DEF Passed, RuledIn, Ruling
    <2>6. Trail(r)'
      BY <1>2, <2>0, <2>2, <2>3 DEF Trail, Undecided
    <2> QED
      BY <2>3, <2>4, <2>5, <2>6, OneRequestMoves
  <1> QED
    BY <1>3, <1>4 DEF Allowed

\* The floors, in their order.
LEMMA FloorsInv ==
    ASSUME Inv, NEW r \in Requests, Floors(r) PROVE Inv'
  <1> DEFINE q == loc[r]
  <1>1. /\ q \in Locals /\ q.at = "floors" /\ Snapshots(r) /\ Passed(r) /\ Trail(r) /\ Quiet
        /\ q.at \in Evaluating
    BY LocalFacts DEF Floors, Evaluating
  <1>2. {"unclassifiable", "profile", "meta_discovery", "dynamic", "profile_allow"} \subseteq Sources
    BY DEF Sources
  <1>3. CASE \E source \in {"unclassifiable", "profile", "dynamic"} : Denied(r, source)
    BY <1>1, <1>2, <1>3, DeniedInv
  <1>4. CASE q.kind = "meta" /\ ~ ProfileDenies(q.profile, q.dry) /\ Allowed(r, "meta_discovery")
    <2>1. Clear(r, "meta_discovery")
      BY <1>4 DEF Clear, Ruled
    <2> QED
      BY <1>1, <1>2, <1>4, <2>1, AllowedInv
  <1>5. CASE /\ ~ ProfileDenies(q.profile, q.dry) /\ ~ q.dynamic
             /\ ProfileAllows(q.profile, q.dry) /\ Allowed(r, "profile_allow")
    <2>1. Clear(r, "profile_allow")
      BY <1>5 DEF Clear, Ruled
    <2> QED
      BY <1>1, <1>2, <1>5, <2>1, AllowedInv
  <1>6. CASE /\ q.kind = "resource" /\ ~ ProfileDenies(q.profile, q.dry) /\ ~ q.dynamic
             /\ ~ ProfileAllows(q.profile, q.dry) /\ loc' = [loc EXCEPT ![r].at = "task"]
    <2> DEFINE q2 == [q EXCEPT !.at = "task"]
    <2>1. /\ q2 \in Locals /\ q2.at = "task" /\ q2.kind = q.kind /\ q2.profile = q.profile
          /\ q2.dry = q.dry /\ q2.dynamic = q.dynamic /\ q2.verdict = q.verdict
          /\ q2.enforced = q.enforced /\ q2.prompt = q.prompt /\ q2.outcome = q.outcome
      BY <1>1 DEF Locals, Places
    <2>2. loc' = [loc EXCEPT ![r] = q2]
      BY <1>6
    <2> HIDE DEF q2
    <2>3. /\ loc' \in [Requests -> Locals] /\ loc'[r] = q2
          /\ \A p \in Requests : p # r => loc'[p] = loc[p]
      BY <2>1, <2>2, NewLocals
    <2>4. q.verdict = "" /\ q.outcome = ""
      BY <1>1 DEF Trail, Undecided
    <2>5. Snapshots(r)'
      BY <1>1, <2>1, <2>3, <2>4, QuietMeans DEF Snapshots, RuledIn
    <2>6. Passed(r)'
      BY <1>6, <2>1, <2>3, <2>4 DEF Passed, RuledIn, Ruling
    <2>7. Trail(r)'
      BY <1>1, <2>1, <2>3, <2>4, QuietMeans DEF Trail, Undecided, Enforcing
    <2> QED
      BY <1>1, <2>3, <2>5, <2>6, <2>7, OneRequestMoves
  <1> QED
    BY <1>1, <1>3, <1>4, <1>5, <1>6 DEF Floors

\* The task is read, or the query fails and the request no longer stands on it.
LEMMA LookupTaskInv ==
    ASSUME Inv, NEW r \in Requests, LookupTask(r) PROVE Inv'
  <1> DEFINE q == loc[r]
             read == [q EXCEPT !.at = "task_deny", !.task = task]
             fail == [q EXCEPT !.at = "task_deny", !.failed = @ \cup {"task"}]
  <1>1. q \in Locals /\ q.at = "task" /\ Snapshots(r) /\ Passed(r) /\ Trail(r) /\ Quiet
    BY LocalFacts DEF LookupTask
  <1>2. PICK q2 \in {read, fail} : loc' = [loc EXCEPT ![r] = q2]
    BY DEF LookupTask
  <1>3. /\ q2 \in Locals /\ q2.at = "task_deny" /\ q2.kind = q.kind /\ q2.profile = q.profile
        /\ q2.dry = q.dry /\ q2.dynamic = q.dynamic /\ q2.verdict = q.verdict
        /\ q2.enforced = q.enforced /\ q2.prompt = q.prompt /\ q2.outcome = q.outcome
        /\ q2.task = task \/ "task" \in q2.failed
    <2>1. CASE q2 = read
      BY <1>1, <2>1 DEF Inv, TypeOK, Locals, Places
    <2>2. CASE q2 = fail
      BY <1>1, <2>2 DEF Inv, TypeOK, Locals, Places
    <2> QED
      BY <1>2, <2>1, <2>2
  <1>4. /\ loc' \in [Requests -> Locals] /\ loc'[r] = q2
        /\ \A p \in Requests : p # r => loc'[p] = loc[p]
    BY <1>2, <1>3, NewLocals
  <1>5. q.verdict = "" /\ q.outcome = ""
    BY <1>1 DEF Trail, Undecided
  <1>6. Snapshots(r)'
    BY <1>1, <1>3, <1>4, <1>5, QuietMeans DEF Snapshots, RuledIn, Standing
  <1>7. Passed(r)'
    BY <1>1, <1>3, <1>4, <1>5 DEF Passed, RuledIn, Ruling
  <1>8. Trail(r)'
    BY <1>1, <1>3, <1>4, <1>5, QuietMeans DEF Trail, Undecided, Enforcing
  <1> QED
    BY <1>1, <1>4, <1>6, <1>7, <1>8, OneRequestMoves

\* A task deny ends the evaluation; what goes on is not denied by the task.
LEMMA TaskDeniesInv ==
    ASSUME Inv, NEW r \in Requests, TaskDenies(r) PROVE Inv'
  <1> DEFINE q == loc[r]
             q2 == [q EXCEPT !.at = "rules"]
  <1>1. q \in Locals /\ q.at = "task_deny" /\ Snapshots(r) /\ Passed(r) /\ Trail(r) /\ Quiet
    BY LocalFacts DEF TaskDenies
  <1>2. CASE Denied(r, "task")
    BY <1>1, <1>2, DeniedInv DEF Evaluating, Sources
  <1>3. CASE "deny" \notin q.task /\ loc' = [loc EXCEPT ![r] = q2]
    <2>1. /\ q2 \in Locals /\ q2.at = "rules" /\ q2.kind = q.kind /\ q2.profile = q.profile
          /\ q2.dry = q.dry /\ q2.dynamic = q.dynamic /\ q2.verdict = q.verdict
          /\ q2.enforced = q.enforced /\ q2.prompt = q.prompt /\ q2.outcome = q.outcome
          /\ q2.task = q.task /\ q2.failed = q.failed
      BY <1>1 DEF Locals, Places
    <2> HIDE DEF q2
    <2>2. /\ loc' \in [Requests -> Locals] /\ loc'[r] = q2
          /\ \A p \in Requests : p # r => loc'[p] = loc[p]
      BY <1>3, <2>1, NewLocals
    <2>3. q.verdict = "" /\ q.outcome = ""
      BY <1>1 DEF Trail, Undecided
    <2>4. Snapshots(r)'
      BY <1>1, <2>1, <2>2, <2>3, QuietMeans DEF Snapshots, RuledIn, Standing
    <2>5. Passed(r)'
      BY <1>1, <1>3, <2>1, <2>2, <2>3 DEF Passed, RuledIn, Ruling
    <2>6. Trail(r)'
      BY <1>1, <2>1, <2>2, <2>3, QuietMeans DEF Trail, Undecided, Enforcing
    <2> QED
      BY <1>1, <2>2, <2>4, <2>5, <2>6, OneRequestMoves
  <1> QED
    BY <1>2, <1>3 DEF TaskDenies

\* The rules are read, or the query fails and the request no longer stands on
\* them.
LEMMA LoadRulesInv ==
    ASSUME Inv, NEW r \in Requests, LoadRules(r) PROVE Inv'
  <1> DEFINE q == loc[r]
             read == [q EXCEPT !.at = "compose", !.rules = rules]
             fail == [q EXCEPT !.at = "compose", !.failed = @ \cup {"rules"}]
  <1>1. q \in Locals /\ q.at = "rules" /\ Snapshots(r) /\ Passed(r) /\ Trail(r) /\ Quiet
    BY LocalFacts DEF LoadRules
  <1>2. PICK q2 \in {read, fail} : loc' = [loc EXCEPT ![r] = q2]
    BY DEF LoadRules
  <1>3. /\ q2 \in Locals /\ q2.at = "compose" /\ q2.kind = q.kind /\ q2.profile = q.profile
        /\ q2.dry = q.dry /\ q2.dynamic = q.dynamic /\ q2.verdict = q.verdict
        /\ q2.enforced = q.enforced /\ q2.prompt = q.prompt /\ q2.outcome = q.outcome
        /\ q2.task = q.task /\ ("task" \in q2.failed <=> "task" \in q.failed)
        /\ q2.rules = rules \/ "rules" \in q2.failed
    <2>1. CASE q2 = read
      BY <1>1, <2>1 DEF Inv, TypeOK, Locals, Places
    <2>2. CASE q2 = fail
      BY <1>1, <2>2 DEF Inv, TypeOK, Locals, Places
    <2> QED
      BY <1>2, <2>1, <2>2
  <1>4. /\ loc' \in [Requests -> Locals] /\ loc'[r] = q2
        /\ \A p \in Requests : p # r => loc'[p] = loc[p]
    BY <1>2, <1>3, NewLocals
  <1>5. q.verdict = "" /\ q.outcome = ""
    BY <1>1 DEF Trail, Undecided
  <1>6. Snapshots(r)'
    BY <1>1, <1>3, <1>4, <1>5, QuietMeans DEF Snapshots, RuledIn, Standing
  <1>7. Passed(r)'
    BY <1>1, <1>3, <1>4, <1>5 DEF Passed, RuledIn, Ruling
  <1>8. Trail(r)'
    BY <1>1, <1>3, <1>4, <1>5, QuietMeans DEF Trail, Undecided, Enforcing
  <1> QED
    BY <1>1, <1>4, <1>6, <1>7, <1>8, OneRequestMoves

\* A global deny, a task allow, a global allow, a task deny or the default: what
\* is allowed here no task and no global rule denies, and the default is only
\* reached without a task.
LEMMA ComposeInv ==
    ASSUME Inv, NEW r \in Requests, Compose(r) PROVE Inv'
  <1> DEFINE q == loc[r]
             global == RuleVerdict(q.rules)
  <1>1. /\ q \in Locals /\ q.at = "compose" /\ Passed(r) /\ Quiet /\ q.at \in Evaluating
        /\ GlobalAndTask(r, global)
    BY LocalFacts DEF Compose, Evaluating
  <1>2. global \in {"deny", "allow", "none"} /\ (global = "deny" <=> "deny" \in q.rules)
    BY DEF RuleVerdict
  <1>3. {"global", "task", "default"} \subseteq Sources
    BY DEF Sources
  <1>4. CASE \E source \in {"global", "task", "default"} : Denied(r, source)
    BY <1>1, <1>3, <1>4, DeniedInv
  <1>5. CASE global # "deny" /\ \E source \in {"global", "task"} : Allowed(r, source)
    <2>1. \A source \in {"global", "task"} : Clear(r, source)
      BY <1>1, <1>2, <1>5 DEF Clear, Passed, Ruling
    <2> QED
      BY <1>1, <1>3, <1>5, <2>1, AllowedInv
  <1>6. CASE global # "deny" /\ q.task = NoTask /\ Allowed(r, "default")
    <2>1. Clear(r, "default")
      BY <1>1, <1>2, <1>6 DEF Clear, Passed, Ruling, Ruled
    <2> QED
      BY <1>1, <1>3, <1>6, <2>1, AllowedInv
  <1> HIDE DEF global
  <1> QED
    BY <1>1, <1>2, <1>4, <1>5, <1>6 DEF GlobalAndTask

-----------------------------------------------------------------------------
(* The trail and the answer *)

\* What a step after the evaluation leaves of the locals it does not write.
SameButTrail(q, q2) ==
    /\ q2.kind = q.kind /\ q2.dry = q.dry /\ q2.profile = q.profile
    /\ q2.dynamic = q.dynamic /\ q2.paused = q.paused /\ q2.task = q.task
    /\ q2.rules = q.rules /\ q2.failed = q.failed /\ q2.verdict = q.verdict
    /\ q2.source = q.source /\ q2.enforced = q.enforced

Trailing == {"record", "emit", "prompt", "answer", "sync", "done"}

\* Such a step leaves what the request knows and has passed as it was.
LEMMA TrailStep ==
    ASSUME Inv, NEW r \in Requests, Quiet, NEW q2 \in Locals, loc' = [loc EXCEPT ![r] = q2],
           SameButTrail(loc[r], q2), loc[r].at \in Trailing, loc[r].outcome = "", q2.at \in Trailing
    PROVE  /\ loc' \in [Requests -> Locals] /\ loc'[r] = q2
           /\ \A p \in Requests : p # r => loc'[p] = loc[p]
           /\ Snapshots(r)' /\ Passed(r)'
           /\ Enforcing(r)' <=> Enforcing(r)
           /\ config' = config
  <1>1. /\ loc' \in [Requests -> Locals] /\ loc'[r] = q2
        /\ \A p \in Requests : p # r => loc'[p] = loc[p]
    BY NewLocals
  <1>2. RuledIn(r)' <=> RuledIn(r)
    BY <1>1 DEF RuledIn, Ruled, SameButTrail
  <1>3. Ruled(r)' <=> Ruled(r)
    BY <1>1 DEF Ruled, SameButTrail
  <1>4. \A layer : Standing(r, layer)' <=> Standing(r, layer)
    BY <1>1, QuietMeans DEF Standing, SameButTrail
  <1>5. Snapshots(r)'
    BY <1>1, <1>2, <1>4, LocalFacts, QuietMeans DEF Snapshots, SameButTrail, Trailing
  <1>6. Passed(r)'
    BY <1>1, <1>2, <1>3, LocalFacts DEF Passed, Ruling, SameButTrail, Trailing
  <1>7. (Enforcing(r)' <=> Enforcing(r)) /\ config' = config
    BY <1>1, QuietMeans DEF Enforcing, SameButTrail
  <1> QED
    BY <1>1, <1>5, <1>6, <1>7

\* The decision row holds the verdict or was not written.
LEMMA WriteDecisionInv ==
    ASSUME Inv, NEW r \in Requests, WriteDecision(r) PROVE Inv'
  <1> DEFINE q == loc[r]
  <1>1. q \in Locals /\ q.at = "record" /\ Trail(r) /\ Quiet
    BY LocalFacts DEF WriteDecision
  <1>2. q.outcome = "" /\ q.verdict \in {"allow", "deny"}
    BY <1>1 DEF Trail
  <1>3. PICK w \in {q.verdict, "unwritten"} :
          loc' = [loc EXCEPT ![r] = [q EXCEPT !.at = "emit", !.row = w]]
    BY DEF WriteDecision
  <1> DEFINE q2 == [q EXCEPT !.at = "emit", !.row = w]
  <1>4. /\ q2 \in Locals /\ q2.at = "emit" /\ SameButTrail(q, q2) /\ q2.row = w
        /\ q2.event = q.event /\ q2.prompt = q.prompt /\ q2.outcome = q.outcome
    BY <1>1, <1>2, <1>3 DEF Locals, Places, SameButTrail
  <1> HIDE DEF q2
  <1>5. Trail(r)'
    BY <1>1, <1>2, <1>3, <1>4, TrailStep DEF Trail, Undecided, Trailing, SameButTrail, q2
  <1> QED
    BY <1>1, <1>2, <1>3, <1>4, <1>5, TrailStep, OneRequestMoves DEF Trailing, q2

\* The event carries the verdict of the row.
LEMMA EmitAuditEventInv ==
    ASSUME Inv, NEW r \in Requests, EmitAuditEvent(r) PROVE Inv'
  <1> DEFINE q == loc[r]
             q2 == [q EXCEPT !.at = "prompt", !.event = q.verdict]
  <1>1. /\ q \in Locals /\ q.at = "emit" /\ Trail(r) /\ Quiet /\ loc' = [loc EXCEPT ![r] = q2]
    BY LocalFacts DEF EmitAuditEvent
  <1>2. q.outcome = "" /\ q.verdict \in {"allow", "deny"}
    BY <1>1 DEF Trail
  <1>3. /\ q2 \in Locals /\ q2.at = "prompt" /\ SameButTrail(q, q2) /\ q2.row = q.row
        /\ q2.event = q.verdict /\ q2.prompt = q.prompt /\ q2.outcome = q.outcome
    BY <1>1, <1>2 DEF Locals, Places, SameButTrail
  <1> HIDE DEF q2
  <1>4. Trail(r)'
    BY <1>1, <1>2, <1>3, TrailStep DEF Trail, Undecided, Trailing, SameButTrail
  <1> QED
    BY <1>1, <1>2, <1>3, <1>4, TrailStep, OneRequestMoves DEF Trailing

\* A prompt is raised for an enforced deny that was recorded, and never in
\* synchronous mode.
LEMMA MaybeEnqueuePromptInv ==
    ASSUME Inv, NEW r \in Requests, MaybeEnqueuePrompt(r) PROVE Inv'
  <1> DEFINE q == loc[r]
  <1>1. q \in Locals /\ q.at = "prompt" /\ Trail(r) /\ Quiet
    BY LocalFacts DEF MaybeEnqueuePrompt
  <1>2. q.outcome = "" /\ q.verdict \in {"allow", "deny"} /\ q.row \in {q.verdict, "unwritten"}
    BY <1>1 DEF Trail
  <1>3. PICK prompt \in {PromptDue(r), FALSE} :
          loc' = [loc EXCEPT ![r] = [q EXCEPT !.at = "answer", !.prompt = prompt]]
    BY DEF MaybeEnqueuePrompt
  <1>4. PromptDue(r) \in BOOLEAN
    BY DEF PromptDue, Recorded
  <1>5. prompt \in BOOLEAN /\ (prompt => PromptDue(r))
    BY <1>3, <1>4
  <1> DEFINE q2 == [q EXCEPT !.at = "answer", !.prompt = prompt]
  <1>6. /\ q2 \in Locals /\ q2.at = "answer" /\ SameButTrail(q, q2) /\ q2.row = q.row
        /\ q2.event = q.event /\ q2.prompt = prompt /\ q2.outcome = q.outcome
    BY <1>1, <1>5 DEF Locals, Places, SameButTrail
  <1>7. loc' = [loc EXCEPT ![r] = q2]
    BY <1>3
  <1> HIDE DEF q2
  <1>8. prompt => q.enforced /\ q.row = "deny" /\ ~ config.sync_prompt
    BY <1>1, <1>2, <1>5 DEF Trail, PromptDue, Recorded, Enforcing
  <1>9. Trail(r)'
    BY <1>1, <1>2, <1>6, <1>7, <1>8, TrailStep DEF Trail, Undecided, Trailing, SameButTrail
  <1> QED
    BY <1>1, <1>2, <1>6, <1>7, <1>9, TrailStep, OneRequestMoves DEF Trailing

\* The request ends.  What is forbidden was to be enforced; what is passed on
\* was not, and had no prompt raised.
LEMMA FinishInv ==
    ASSUME Inv, NEW r \in Requests, Quiet, loc[r].at \in {"answer", "sync"},
           NEW outcome \in Outcomes \ {"", "unavailable"}, Finish(r, outcome),
           outcome = "forbidden" => loc[r].enforced,
           outcome = "forwarded" => ~ loc[r].enforced,
           loc[r].prompt => outcome = "forbidden"
    PROVE  Inv'
  <1> DEFINE q == loc[r]
             q2 == [q EXCEPT !.at = "done", !.outcome = outcome]
  <1>1. q \in Locals /\ Trail(r) /\ loc' = [loc EXCEPT ![r] = q2] /\ q.outcome = ""
    BY LocalFacts DEF Finish, Trail
  <1>2. /\ q2 \in Locals /\ q2.at = "done" /\ SameButTrail(q, q2) /\ q2.row = q.row
        /\ q2.event = q.event /\ q2.prompt = q.prompt /\ q2.outcome = outcome
    BY <1>1 DEF Locals, Places, SameButTrail
  <1> HIDE DEF q2
  <1>3. Trail(r)'
    BY <1>1, <1>2, TrailStep DEF Trail, Undecided, Trailing, SameButTrail
  <1> QED
    BY <1>1, <1>2, <1>3, TrailStep, OneRequestMoves DEF Trailing

\* The handler answers, or goes on to wait for the operator.
LEMMA RespondInv ==
    ASSUME Inv, NEW r \in Requests, Respond(r) PROVE Inv'
  <1> DEFINE q == loc[r]
             q2 == [q EXCEPT !.at = "sync"]
  <1>1. q \in Locals /\ q.at = "answer" /\ Trail(r) /\ Quiet
    BY LocalFacts DEF Respond
  <1>2. q.outcome = "" /\ (q.prompt => q.enforced /\ ~ config.sync_prompt)
    BY <1>1 DEF Trail
  <1>3. CASE ~ q.enforced /\ \E outcome \in {"forwarded", "refused"} : Finish(r, outcome)
    BY <1>1, <1>2, <1>3, FinishInv DEF Outcomes
  <1>4. CASE q.enforced /\ Finish(r, "forbidden")
    BY <1>1, <1>4, FinishInv DEF Outcomes
  <1>5. CASE q.enforced /\ config.sync_prompt /\ loc' = [loc EXCEPT ![r] = q2]
    <2>1. /\ q2 \in Locals /\ q2.at = "sync" /\ SameButTrail(q, q2) /\ q2.row = q.row
          /\ q2.event = q.event /\ q2.prompt = q.prompt /\ q2.outcome = q.outcome
      BY <1>1 DEF Locals, Places, SameButTrail
    <2> HIDE DEF q2
    <2>2. Trail(r)'
      BY <1>1, <1>2, <1>5, <2>1, TrailStep DEF Trail, Undecided, Trailing, SameButTrail
    <2> QED
      BY <1>1, <1>2, <1>5, <2>1, <2>2, TrailStep, OneRequestMoves DEF Trailing
  <1> QED
    BY <1>3, <1>4, <1>5 DEF Respond

\* A request that waited is answered; no asynchronous prompt was raised for it.
LEMMA AnswerSyncInv ==
    ASSUME Inv, NEW r \in Requests, AnswerSync(r) PROVE Inv'
  <1>1. loc[r].at = "sync" /\ Trail(r) /\ Quiet
    BY LocalFacts DEF AnswerSync
  <1>2. loc[r].enforced /\ ~ loc[r].prompt
    BY <1>1 DEF Trail
  <1> QED
    BY <1>1, <1>2, FinishInv DEF AnswerSync, Outcomes

-----------------------------------------------------------------------------
(* Steps that touch the layers or the history *)

\* A request arrives, or is turned away by the breaker: it has read nothing.
LEMMA ArriveInv ==
    ASSUME Inv, NEW r \in Requests, NEW kind \in Kinds, NEW dry \in BOOLEAN, Arrive(r, kind, dry)
    PROVE  Inv'
  <1> DEFINE q == loc[r]
             away == [q EXCEPT !.at = "done", !.outcome = "unavailable"]
             in == [q EXCEPT !.at = "profile", !.kind = kind, !.dry = dry]
             q2 == IF refusing THEN away ELSE in
  <1>1. q \in Locals /\ q.at = "idle" /\ Trail(r) /\ loc' = [loc EXCEPT ![r] = q2]
    BY LocalFacts DEF Arrive
  <1>2. /\ config' = config /\ profile' = profile /\ dynamic' = dynamic /\ pause' = pause
        /\ task' = task /\ rules' = rules /\ refusing' = refusing /\ changes' = changes
        /\ held' = [held EXCEPT ![r] = Layers]
    BY DEF Arrive, layers
  <1>3. q.verdict = "" /\ q.outcome = "" /\ ~ q.enforced /\ ~ q.prompt
    BY <1>1 DEF Trail, Undecided
  <1>4. /\ q2 \in Locals /\ q2.verdict = q.verdict /\ q2.enforced = q.enforced
        /\ q2.prompt = q.prompt
        /\ \/ q2.at = "done" /\ q2.outcome = "unavailable"
           \/ q2.at = "profile" /\ q2.outcome = q.outcome
    <2>1. CASE refusing
      BY <1>1, <2>1 DEF Locals, Places, Outcomes
    <2>2. CASE ~ refusing
      BY <1>1, <2>2 DEF Locals, Places
    <2> QED
      BY <2>1, <2>2
  <1> HIDE DEF q2
  <1>5. /\ loc' \in [Requests -> Locals] /\ loc'[r] = q2
        /\ \A p \in Requests : p # r => loc'[p] = loc[p]
    BY <1>1, <1>4, NewLocals
  <1>6. TypeOK'
    BY <1>2, <1>5 DEF Inv, TypeOK
  <1>7. Snapshots(r)' /\ Passed(r)' /\ Trail(r)'
    BY <1>3, <1>4, <1>5 DEF Snapshots, Passed, Trail, RuledIn, Ruling, Undecided
  <1>8. ASSUME NEW p \in Requests, p # r PROVE (Snapshots(p) /\ Passed(p) /\ Trail(p))'
    <2>1. held'[p] = held[p] /\ loc'[p] = loc[p] /\ Snapshots(p) /\ Passed(p) /\ Trail(p)
      BY <1>2, <1>5, <1>8 DEF Inv, TypeOK
    <2>2. Snapshots(p)'
      BY <1>2, <2>1 DEF Snapshots, RuledIn, Ruled, Standing
    <2>3. Passed(p)'
      BY <2>1 DEF Passed, RuledIn, Ruled
    <2>4. Trail(p)'
      BY <1>2, <2>1 DEF Trail, Enforcing
    <2> QED
      BY <2>2, <2>3, <2>4
  <1> QED
    BY <1>6, <1>7, <1>8 DEF Inv

\* A layer changes: whoever stood on it no longer does, and the others are as
\* they were.
LEMMA ChangeInv ==
    ASSUME Inv, Change PROVE Inv'
  <1>1. config' = config /\ loc' = loc
    BY DEF Change
  <1>2. TypeOK'
    <2>1. changes' \in 0 .. MaxChanges
      BY ConstantsAssumption DEF Inv, TypeOK, Change
    <2>2. held' \in [Requests -> SUBSET Layers]
      <3>1. ASSUME NEW layer, Touched(layer) PROVE held' \in [Requests -> SUBSET Layers]
        BY <3>1 DEF Inv, TypeOK, Touched
      <3> QED
        BY <3>1 DEF Inv, TypeOK, Change
    <2>3. dynamic' \in BOOLEAN /\ pause' \in BOOLEAN /\ refusing' \in BOOLEAN
      BY Zenon DEF Inv, TypeOK, Change
    <2>4. profile' \in Profiles /\ task' \in Effects \cup {NoTask} /\ rules' \in Effects
      BY DEF Inv, TypeOK, Change
    <2> QED
      BY <1>1, <2>1, <2>2, <2>3, <2>4 DEF Inv, TypeOK
  <1>3. ASSUME NEW r \in Requests
        PROVE  /\ "profile" \in held'[r] => "profile" \in held[r] /\ profile' = profile
               /\ "dynamic" \in held'[r] => "dynamic" \in held[r] /\ dynamic' = dynamic
               /\ "task" \in held'[r] => "task" \in held[r] /\ task' = task
               /\ "rules" \in held'[r] => "rules" \in held[r] /\ rules' = rules
    BY DEF Inv, TypeOK, Change, Touched, Layers
  <1>4. ASSUME NEW r \in Requests PROVE (Snapshots(r) /\ Passed(r) /\ Trail(r))'
    <2>1. Snapshots(r) /\ Passed(r) /\ Trail(r)
      BY DEF Inv
    <2>2. Snapshots(r)'
      BY <1>1, <1>3, <2>1 DEF Snapshots, RuledIn, Ruled, Standing
    <2>3. Passed(r)'
      BY <1>1, <2>1 DEF Passed, RuledIn, Ruled
    <2>4. Trail(r)'
      BY <1>1, <2>1 DEF Trail, Enforcing
    <2> QED
      BY <2>2, <2>3, <2>4
  <1> QED
    BY <1>2, <1>4 DEF Inv

\* Nobody has asked anything yet.
LEMMA InitInv == Init => Inv
  <1> SUFFICES ASSUME Init PROVE Inv
    OBVIOUS
  <1>1. Unborn \in Locals
    BY DEF Unborn, Locals, Places, Kinds, Effects, Sources, Outcomes
  <1>2. TypeOK
    <2>1. refusing \in BOOLEAN
      BY Zenon DEF Init
    <2>2. changes \in 0 .. MaxChanges
      BY ConstantsAssumption DEF Init
    <2> QED
      BY <1>1, <2>1, <2>2 DEF Init, TypeOK
  <1>3. ASSUME NEW r \in Requests PROVE Snapshots(r) /\ Passed(r) /\ Trail(r)
    <2>1. /\ loc[r].at = "idle" /\ loc[r].verdict = "" /\ loc[r].outcome = ""
          /\ loc[r].enforced = FALSE /\ loc[r].prompt = FALSE
      BY DEF Init, Unborn
    <2> QED
      BY <2>1 DEF Snapshots, Passed, Trail, RuledIn, Ruling, Undecided
  <1> QED
    BY <1>2, <1>3 DEF Inv

\* Every step preserves the invariant.
LEMMA StepInv == Inv /\ [Next]_vars => Inv'
  <1> SUFFICES ASSUME Inv, [Next]_vars PROVE Inv'
    OBVIOUS
  <1>1. ASSUME UNCHANGED vars PROVE Inv'
    <2>1. Quiet /\ loc' = loc /\ refusing' = refusing
      BY <1>1 DEF vars, Quiet, layers
    <2>2. TypeOK'
      BY <2>1, QuietMeans DEF Inv, TypeOK
    <2>3. ASSUME NEW r \in Requests PROVE (Snapshots(r) /\ Passed(r) /\ Trail(r))'
      <3>1. Snapshots(r)'
        BY <2>1, QuietMeans DEF Inv, Snapshots, RuledIn, Ruled, Standing
      <3>2. Passed(r)'
        BY <2>1 DEF Inv, Passed, RuledIn, Ruled
      <3>3. Trail(r)'
        BY <2>1, QuietMeans DEF Inv, Trail, Enforcing
      <3> QED
        BY <3>1, <3>2, <3>3
    <2> QED
      BY <2>2, <2>3 DEF Inv
  <1>2. ASSUME NEW r \in Requests, NEW kind \in Kinds, NEW dry \in BOOLEAN, Arrive(r, kind, dry)
        PROVE  Inv'
    BY <1>2, ArriveInv
  <1> QED
    BY <1>1, <1>2, ChangeInv, ReadProfileInv, ReadDynamicInv, LookupPauseInv, FloorsInv,
       LookupTaskInv, TaskDeniesInv, LoadRulesInv, ComposeInv, WriteDecisionInv,
       EmitAuditEventInv, MaybeEnqueuePromptInv, RespondInv, AnswerSyncInv DEF Next

-----------------------------------------------------------------------------
(* What follows *)

\* Inv holds in every reachable state.
THEOREM Invariance == Spec => []Inv
  BY InitInv, StepInv, PTL DEF Spec

\* Every variable keeps its type.
THEOREM TypeCorrect == Spec => []TypeOK
  <1>1. Inv => TypeOK
    BY DEF Inv
  <1> QED
    BY <1>1, Invariance, PTL

\* The impersonation and cluster floors are denies whatever else the profile says.
LEMMA FloorsAreDenies ==
    ASSUME NEW p, NEW dry, HardFloor(p, dry) PROVE ProfileDenies(p, dry)
  BY DEF HardFloor, ProfileDenies

\* A deny that stood throughout a request is enforced, whatever the profile, the
\* rules and the other requests are, however the other layers change and
\* whichever lookups fail.
THEOREM StandingDeniesHold == Spec => []StandingDenyHolds
  <1>1. Inv => StandingDenyHolds
    <2> SUFFICES ASSUME Inv, NEW r \in Requests, loc[r].outcome = "forwarded", Enforcing(r)
                 PROVE  LET q == loc[r]
                            ruled == q.kind = "resource" /\ ~ ProfileAllows(q.profile, q.dry)
                        IN
                        /\ ~ (Standing(r, "profile") /\ ProfileDenies(profile, q.dry))
                        /\ ~ (Standing(r, "profile") /\ HardFloor(profile, q.dry))
                        /\ ~ (Standing(r, "dynamic") /\ dynamic /\ q.kind = "resource")
                        /\ ~ (Standing(r, "task") /\ ruled /\ "deny" \in task)
                        /\ ~ (Standing(r, "rules") /\ ruled /\ "deny" \in rules)
      BY DEF StandingDenyHolds
    <2>1. Snapshots(r) /\ Passed(r) /\ Trail(r)
      BY DEF Inv
    <2>2. loc[r].at = "done" /\ loc[r].verdict = "allow"
      BY <2>1 DEF Trail
    <2>3. ~ (Standing(r, "profile") /\ ProfileDenies(profile, loc[r].dry))
      BY <2>1, <2>2 DEF Snapshots, Passed, Standing
    <2>4. ~ (Standing(r, "dynamic") /\ dynamic /\ loc[r].kind = "resource")
      BY <2>1, <2>2 DEF Snapshots, Passed, Standing
    <2>5. Ruled(r) => /\ ~ (Standing(r, "task") /\ "deny" \in task)
                      /\ ~ (Standing(r, "rules") /\ "deny" \in rules)
      BY <2>1, <2>2 DEF Snapshots, Passed, RuledIn
    <2> QED
      BY <2>3, <2>4, <2>5, FloorsAreDenies DEF Ruled
  <1> QED
    BY <1>1, Invariance, PTL

\* The default policy never allows a request under a task that stood throughout.
THEOREM StandingTasksNarrow == Spec => []StandingTaskNarrows
  <1>1. Inv => StandingTaskNarrows
    <2> SUFFICES ASSUME Inv, NEW r \in Requests, loc[r].source = "default",
                        loc[r].verdict = "allow", Standing(r, "task")
                 PROVE  task = NoTask
      BY DEF StandingTaskNarrows
    <2> QED
      BY DEF Inv, Snapshots, Passed, RuledIn
  <1> QED
    BY <1>1, Invariance, PTL

\* The recorded and exported verdicts agree with the client's answer.
THEOREM TrailsTellAnswers == Spec => []TrailTellsAnswer
  <1>1. Inv => TrailTellsAnswer
    <2> SUFFICES ASSUME Inv, NEW r \in Requests
                 PROVE  LET q == loc[r] IN
                        /\ q.outcome = "forbidden" =>
                             q.event = "deny" /\ q.row \in {"deny", "unwritten"}
                        /\ q.outcome = "forwarded" =>
                             /\ q.event = q.verdict /\ q.row \in {q.verdict, "unwritten"}
                             /\ q.verdict = "deny" => ~ Enforcing(r)
      BY DEF TrailTellsAnswer
    <2> QED
      BY DEF Inv, Trail
  <1> QED
    BY <1>1, Invariance, PTL

\* A prompt is only raised for a request that is refused.
THEOREM PromptsMeanForbidden == Spec => []PromptMeansForbidden
  <1>1. Inv => PromptMeansForbidden
    BY DEF Inv, Trail, PromptMeansForbidden
  <1> QED
    BY <1>1, Invariance, PTL

-----------------------------------------------------------------------------
(* Rows *)

\* The three shapes of a row, and which of them count as answered.
LEMMA RowShapes ==
    /\ Absent.status = "absent" /\ Pending.status = "pending"
    /\ ~ Permits(Absent) /\ ~ Permits(Pending)
    /\ \A a \in Answers : a.status = "answered"
    /\ \A k \in SingleKinds, o \in Operators : Answer(k, o) \in Answers
    /\ \A t \in Resolutions, o \in BulkOperators : BulkAnswer(t, o) \in Answers
  BY DEF Absent, Pending, Permits, Answers, Answer, BulkAnswer

\* An individual answer lets the request through when its kind does; the poll
\* reads the kind alone, and never lets a bulk answer through.
LEMMA AnswerMeans ==
    /\ \A o : \A kind \in SingleKinds :
         /\ Permits(Answer(kind, o)) <=> KindAllows(kind)
         /\ Answer(kind, o).kind = kind /\ Answer(kind, o).by = o
         /\ Answer(kind, o).status = "answered"
    /\ \A res, o :
         /\ Permits(BulkAnswer(res, o)) <=> ResolutionAllows(res)
         /\ BulkAnswer(res, o).target = res /\ BulkAnswer(res, o).by = o
         /\ BulkAnswer(res, o).status = "answered"
  BY DEF SingleKinds, Permits, Answer, BulkAnswer, KindAllows

\* What the poll makes of an answered row is never more than the row permits.
LEMMA PollIsPermitted ==
    ASSUME NEW rw, rw.status = "answered", AnswerToDecision(rw.kind) = "allow"
    PROVE  Permits(rw)
  BY DEF AnswerToDecision, Permits

\* Every row of a reachable state is absent, pending or answered.
LEMMA RowCases ==
    ASSUME PromptTypeOK, NEW r \in Blocked
    PROVE  /\ row[r] = Absent \/ row[r] = Pending \/ row[r] \in Answers
           /\ row[r].status = "pending" => row[r] = Pending
           /\ Answered(r) => row[r] \in Answers
  BY RowShapes DEF PromptTypeOK, Answered

-----------------------------------------------------------------------------
(* The initial state *)

\* No row, no waiter, an empty channel: the invariant holds.
LEMMA PromptInitInv == PromptInit => PromptInv
  <1> SUFFICES ASSUME PromptInit PROVE PromptInv
    OBVIOUS
  <1>1. PromptTypeOK
    BY ProcessesAssumption DEF PromptInit, PromptTypeOK, Idle, Stages, Verdicts
  <1>2. Protocol
    BY DEF PromptInit, Protocol, WaitsInOrder, Carries, CarriesBulk, Idle, Callers
  <1>3. AllowIsPermitted /\ WokenAsRecorded /\ NoLostWake /\ NoWaiterLeak
    BY ProcessesAssumption
    DEF PromptInit, AllowIsPermitted, WokenAsRecorded, NoLostWake, NoWaiterLeak,
        Answered, Absent
  <1> QED
    BY <1>1, <1>2, <1>3 DEF PromptInv

-----------------------------------------------------------------------------
(* Consequences of the invariant *)

\* An unanswered row has let nobody through, and nobody is being woken for it.
LEMMA Untouched ==
    ASSUME PromptInv, NEW r \in Blocked, ~ Answered(r)
    PROVE  /\ chan[r] = Empty /\ verdict[r] # "allow"
           /\ \A o \in Operators : job[o].at = "wake" => r \notin job[o].req
  <1>1. chan[r] = Empty /\ verdict[r] # "allow"
    BY DEF PromptInv, Protocol, WaitsInOrder, AllowIsPermitted, Permits, Answered
  <1>2. ASSUME NEW o \in Operators, job[o].at = "wake", r \in job[o].req
        PROVE  FALSE
    <2>1. row[r] = job[o].answer
      BY <1>2 DEF PromptInv, Protocol, Carries
    <2>2. PICK kind \in SingleKinds : job[o].answer = Answer(kind, o)
      BY <1>2 DEF PromptInv, Protocol, Carries
    <2> QED
      BY <2>1, <2>2, RowShapes DEF Answered
  <1> QED
    BY <1>1, <1>2

\* A step that leaves a caller and the rows it answered alone.
LEMMA CarriesStays ==
    ASSUME NEW o, Carries(o), job'[o] = job[o], \A r \in job[o].req : row'[r] = row[r]
    PROVE  Carries(o)'
  BY DEF Carries

\* A step that leaves every caller alone and changes no answered row.
LEMMA JobsStay ==
    ASSUME PromptInv, job' = job, \A r \in Blocked : Answered(r) => row'[r] = row[r],
           WaitsInOrder'
    PROVE  Protocol'
  <1>1. ASSUME NEW o \in Operators PROVE Carries(o)'
    <2>1. ASSUME job[o].at = "wake", NEW r \in job[o].req
          PROVE  row'[r] = row[r]
      <3>1. r \in Blocked
        BY <2>1 DEF PromptInv, PromptTypeOK, Callers
      <3> QED
        BY <2>1, <3>1, Untouched
    <2> QED
      BY <2>1 DEF PromptInv, Protocol, Carries
  <1>2. \A o \in BulkOperators : CarriesBulk(o)'
    BY DEF PromptInv, Protocol, CarriesBulk
  <1> QED
    BY <1>1, <1>2 DEF Protocol

-----------------------------------------------------------------------------
(* The steps of a request's goroutine *)

\* A registration and a new row disturb nothing that is recorded.
LEMMA RegisterInv ==
    ASSUME PromptInv, NEW r \in Blocked, Register(r) PROVE PromptInv'
  <1>1. PromptTypeOK'
    BY ProcessesAssumption DEF PromptInv, Register, PromptTypeOK, Stages
  <1>2. waiters'[Proxy] = waiters[Proxy] \cup {r}
        /\ \A p \in Processes \ {Proxy} : waiters'[p] = waiters[p]
    BY ProcessesAssumption DEF PromptInv, Register, PromptTypeOK
  <1>3. req'[r] = "insert" /\ \A s \in Blocked \ {r} : req'[s] = req[s]
    BY DEF PromptInv, Register, PromptTypeOK
  <1>4. Protocol'
    BY <1>2, <1>3, JobsStay DEF PromptInv, Register, Protocol, WaitsInOrder, Answered
  <1>5. AllowIsPermitted' /\ WokenAsRecorded'
    BY DEF PromptInv, Register, AllowIsPermitted, WokenAsRecorded, Permits
  <1>6. NoLostWake'
    BY <1>3 DEF PromptInv, Register, NoLostWake, Answered
  <1>7. NoWaiterLeak'
    BY ProcessesAssumption, <1>2, <1>3 DEF PromptInv, PromptTypeOK, NoWaiterLeak
  <1> QED
    BY <1>1, <1>4, <1>5, <1>6, <1>7 DEF PromptInv

\* The INSERT: the row was absent, so no channel holds a decision for it.
LEMMA InsertInv ==
    ASSUME PromptInv, NEW r \in Blocked, Insert(r) PROVE PromptInv'
  <1>1. PromptTypeOK'
    BY DEF PromptInv, Insert, PromptTypeOK, Stages
  <1>2. row'[r] = Pending /\ \A s \in Blocked \ {r} : row'[s] = row[s]
    BY DEF PromptInv, Insert, PromptTypeOK
  <1>3. req[r] = "insert" /\ req'[r] = "wait"
        /\ \A s \in Blocked \ {r} : req'[s] = req[s]
    BY DEF PromptInv, Insert, PromptTypeOK
  <1>4. row[r] = Absent /\ verdict[r] = "none" /\ chan[r] = Empty
    BY <1>3, RowShapes DEF PromptInv, Protocol, WaitsInOrder, Answered
  <1>5. Protocol'
    <2>1. WaitsInOrder'
      BY <1>2, <1>3, <1>4 DEF PromptInv, Insert, Protocol, WaitsInOrder, Answered
    <2>2. \A s \in Blocked : Answered(s) => row'[s] = row[s]
      BY <1>2, <1>4, RowShapes DEF Answered
    <2> QED
      BY <2>1, <2>2, JobsStay DEF Insert
  <1>6. AllowIsPermitted' /\ WokenAsRecorded'
    BY <1>2, <1>4 DEF PromptInv, Insert, AllowIsPermitted, WokenAsRecorded, Permits
  <1>7. NoLostWake'
    BY <1>2, <1>3, RowShapes DEF PromptInv, Insert, NoLostWake, Answered
  <1>8. NoWaiterLeak'
    BY ProcessesAssumption, <1>3 DEF PromptInv, Insert, PromptTypeOK, NoWaiterLeak
  <1> QED
    BY <1>1, <1>5, <1>6, <1>7, <1>8 DEF PromptInv

\* What leaving the wait, by whatever door, needs of the verdict it takes.
LEMMA ResolveInv ==
    ASSUME PromptInv, NEW r \in Blocked, NEW v \in Verdicts, v # "none",
           req[r] = "wait", v = "allow" => Permits(row[r]), Resolve(r, v),
           chan' = chan \/ chan' = [chan EXCEPT ![r] = Empty]
    PROVE  PromptInv'
  <1>1. PromptTypeOK'
    BY ProcessesAssumption DEF PromptInv, Resolve, Forget, PromptTypeOK, Stages, Empty
  <1>2. verdict'[r] = v /\ \A s \in Blocked \ {r} : verdict'[s] = verdict[s]
    BY DEF PromptInv, Resolve, PromptTypeOK
  <1>3. /\ req'[r] \in {"forward", "done"}
        /\ \A s \in Blocked \ {r} : req'[s] = req[s]
    BY DEF PromptInv, Resolve, PromptTypeOK
  <1>4. \A s \in Blocked \ {r} : chan'[s] = chan[s]
    BY DEF PromptInv, PromptTypeOK
  <1>5. chan'[r] = chan[r] \/ chan'[r] = Empty
    BY DEF PromptInv, PromptTypeOK
  <1>6. /\ waiters'[Proxy] = waiters[Proxy] \/ waiters'[Proxy] = waiters[Proxy] \ {r}
        /\ req'[r] = "done" => r \notin waiters'[Proxy]
        /\ \A p \in Processes \ {Proxy} : waiters'[p] = waiters[p]
    BY ProcessesAssumption DEF PromptInv, Resolve, Forget, PromptTypeOK
  <1>7. UNCHANGED <<row, job>>
    BY DEF Resolve
  <1>8. Protocol'
    BY <1>2, <1>3, <1>4, <1>5, <1>6, <1>7, JobsStay DEF PromptInv, Protocol, WaitsInOrder, Answered
  <1>9. AllowIsPermitted' /\ WokenAsRecorded'
    BY <1>2, <1>4, <1>5, <1>7 DEF PromptInv, AllowIsPermitted, WokenAsRecorded, Permits
  <1>10. NoLostWake'
    BY <1>3, <1>4, <1>7 DEF PromptInv, NoLostWake, Answered
  <1>11. NoWaiterLeak'
    BY ProcessesAssumption, <1>3, <1>6 DEF PromptInv, PromptTypeOK, NoWaiterLeak
  <1> QED
    BY <1>1, <1>8, <1>9, <1>10, <1>11 DEF PromptInv

\* A decision received from the channel is the one the row permits.
LEMMA ReceiveWakeInv ==
    ASSUME PromptInv, NEW r \in Blocked, ReceiveWake(r) PROVE PromptInv'
  <1>1. chan[r] \in {"allow", "deny"} /\ chan[r] = Decision(Permits(row[r]))
    BY DEF PromptInv, ReceiveWake, PromptTypeOK, WokenAsRecorded
  <1>2. chan[r] = "allow" => Permits(row[r])
    BY <1>1 DEF Decision
  <1> QED
    BY <1>1, <1>2, ResolveInv DEF ReceiveWake, Verdicts

\* A decision the poll derives from the row is one the row permits.
LEMMA PollInv ==
    ASSUME PromptInv, NEW r \in Blocked, Poll(r) PROVE PromptInv'
  <1>1. AnswerToDecision(row[r].kind) = "allow" => Permits(row[r])
    BY PollIsPermitted DEF Poll, Answered
  <1>2. AnswerToDecision(row[r].kind) \in {"allow", "deny"}
    BY DEF AnswerToDecision
  <1> QED
    BY <1>1, <1>2, ResolveInv DEF Poll, Verdicts

\* A timeout and a cancellation are verdicts of their own.
LEMMA TimeoutInv ==
    ASSUME PromptInv, NEW r \in Blocked, Timeout(r) \/ Cancel(r) PROVE PromptInv'
  BY ResolveInv DEF Timeout, Cancel, Verdicts

\* The two ways out that leave the row alone and forget the waiter.
LEMMA LeaveInv ==
    ASSUME PromptInv, NEW r \in Blocked, InsertFails(r) \/ ForwardAllow(r) PROVE PromptInv'
  <1>1. PromptTypeOK'
    BY ProcessesAssumption
    DEF PromptInv, InsertFails, ForwardAllow, Forget, PromptTypeOK, Stages, Verdicts
  <1>2. req'[r] = "done" /\ \A s \in Blocked \ {r} : req'[s] = req[s]
    BY DEF PromptInv, InsertFails, ForwardAllow, PromptTypeOK
  <1>3. /\ waiters'[Proxy] = waiters[Proxy] \ {r}
        /\ \A p \in Processes \ {Proxy} : waiters'[p] = waiters[p]
    BY ProcessesAssumption DEF PromptInv, InsertFails, ForwardAllow, Forget, PromptTypeOK
  <1>4. /\ verdict'[r] \in {verdict[r], "enqueue_failed"}
        /\ \A s \in Blocked \ {r} : verdict'[s] = verdict[s]
    BY DEF PromptInv, InsertFails, ForwardAllow, PromptTypeOK
  <1>5. UNCHANGED <<row, chan, job>>
    BY DEF InsertFails, ForwardAllow
  <1>6. Protocol'
    BY <1>2, <1>3, <1>4, <1>5, JobsStay DEF PromptInv, Protocol, WaitsInOrder, Answered
  <1>7. AllowIsPermitted' /\ WokenAsRecorded'
    BY <1>4, <1>5 DEF PromptInv, AllowIsPermitted, WokenAsRecorded, Permits
  <1>8. NoLostWake'
    BY <1>2, <1>5 DEF PromptInv, NoLostWake, Answered
  <1>9. NoWaiterLeak'
    BY ProcessesAssumption, <1>2, <1>3 DEF PromptInv, PromptTypeOK, NoWaiterLeak
  <1> QED
    BY <1>1, <1>6, <1>7, <1>8, <1>9 DEF PromptInv


-----------------------------------------------------------------------------
(* The steps of the callers *)

\* A step of one caller that changes no row.
LEMMA OneJobChanges ==
    ASSUME PromptInv, NEW o \in Callers, UNCHANGED row, WaitsInOrder',
           \A p \in Callers \ {o} : job'[p] = job[p],
           o \in Operators => Carries(o)', o \in BulkOperators => CarriesBulk(o)'
    PROVE  Protocol'
  <1>1. ASSUME NEW p \in Operators PROVE Carries(p)'
    BY CarriesStays DEF PromptInv, Protocol, Callers
  <1>2. ASSUME NEW p \in BulkOperators PROVE CarriesBulk(p)'
    BY DEF PromptInv, Protocol, Callers, CarriesBulk
  <1> QED
    BY <1>1, <1>2 DEF Protocol

\* A caller that has nobody left to wake can stop without losing a decision.
LEMMA IdleAgain ==
    ASSUME PromptInv, NEW o \in Callers, job' = [job EXCEPT ![o] = Idle],
           job[o].at = "wake" => Home[o] # Proxy,
           UNCHANGED <<row, waiters, chan, req, verdict, restarts>>
    PROVE  PromptInv'
  <1>1. job'[o] = Idle /\ \A p \in Callers \ {o} : job'[p] = job[p]
    BY DEF PromptInv, PromptTypeOK
  <1>2. PromptTypeOK'
    BY DEF PromptInv, PromptTypeOK, Idle
  <1>3. Idle.at = "idle"
    BY DEF Idle
  <1>4. Protocol'
    BY <1>1, <1>3, OneJobChanges DEF PromptInv, Protocol, WaitsInOrder, Answered, Carries,
                                     CarriesBulk
  <1>5. AllowIsPermitted' /\ WokenAsRecorded' /\ NoWaiterLeak'
    BY DEF PromptInv, AllowIsPermitted, WokenAsRecorded, NoWaiterLeak
  <1>6. NoLostWake'
    BY <1>1, <1>3 DEF PromptInv, NoLostWake, Answered, Callers
  <1> QED
    BY <1>2, <1>4, <1>5, <1>6 DEF PromptInv

\* Reading a prompt, collecting the pending ones and stopping change the
\* caller's own job only.
LEMMA ReadPromptInv ==
    ASSUME PromptInv, NEW o \in Operators, NEW r \in Blocked,
           NEW kind \in SingleKinds, ReadPrompt(o, r, kind)
    PROVE  PromptInv'
  <1>1. job'[o] = [at |-> "flip", req |-> {r}, answer |-> Answer(kind, o)]
        /\ \A p \in Callers \ {o} : job'[p] = job[p]
    BY DEF PromptInv, ReadPrompt, PromptTypeOK, Callers
  <1>2. UNCHANGED <<row, waiters, chan, req, verdict, restarts>>
    BY DEF ReadPrompt
  <1>3. PromptTypeOK'
    BY <1>2, RowShapes DEF PromptInv, ReadPrompt, PromptTypeOK
  <1>4. Protocol'
    <2>1. WaitsInOrder'
      BY <1>2 DEF PromptInv, Protocol, WaitsInOrder, Answered
    <2>2. /\ job'[o].at = "flip" /\ job'[o].req = {r}
          /\ job'[o].answer = Answer(kind, o)
      BY <1>1
    <2>3. Carries(o)'
      BY <2>2 DEF Carries
    <2>4. o \notin BulkOperators
      BY CallersAssumption
    <2> QED
      BY <1>1, <1>2, <2>1, <2>3, <2>4, OneJobChanges DEF Callers
  <1>5. AllowIsPermitted' /\ WokenAsRecorded' /\ NoWaiterLeak'
    BY <1>2 DEF PromptInv, AllowIsPermitted, WokenAsRecorded, NoWaiterLeak
  <1>6. NoLostWake'
    BY <1>1, <1>2 DEF PromptInv, ReadPrompt, NoLostWake, Answered, Callers
  <1> QED
    BY <1>3, <1>4, <1>5, <1>6 DEF PromptInv

\* The UPDATE succeeds only on a pending row, which nobody has acted on.
LEMMA FlipPromptInv ==
    ASSUME PromptInv, NEW o \in Operators, FlipPrompt(o) PROVE PromptInv'
  <1>1. PICK r \in Blocked : job[o].req = {r}
    BY DEF PromptInv, FlipPrompt, Protocol, Carries
  <1>2. PICK kind \in SingleKinds : job[o].answer = Answer(kind, o)
    BY DEF PromptInv, FlipPrompt, Protocol, Carries
  <1>3. job[o].answer \in Answers /\ job[o].at = "flip" /\ o \in Callers
    BY <1>2, RowShapes DEF FlipPrompt, Callers
  <1>4. UNCHANGED <<waiters, chan, req, verdict, restarts>>
    BY DEF FlipPrompt
  <1>5. CASE row[r].status = "pending"
    <2>1. /\ row' = [row EXCEPT ![r] = job[o].answer]
          /\ job' = [job EXCEPT ![o].at = "wake"]
      BY <1>1, <1>5 DEF FlipPrompt
    <2>2. row'[r] = job[o].answer /\ \A s \in Blocked \ {r} : row'[s] = row[s]
      BY <2>1 DEF PromptInv, PromptTypeOK
    <2>3. job'[o] = [at |-> "wake", req |-> {r}, answer |-> job[o].answer]
          /\ \A p \in Callers \ {o} : job'[p] = job[p]
      BY <1>1, <1>3, <2>1 DEF PromptInv, PromptTypeOK
    <2>4. ~ Answered(r) /\ row[r] # Absent
      BY <1>5, RowShapes DEF Answered
    <2>5. row'[r].status = "answered" /\ row'[r].by = o
      <3>1. row'[r] = Answer(kind, o)
        BY <1>2, <2>2
      <3> QED
        BY <3>1, AnswerMeans
    <2>6. PromptTypeOK'
      BY <1>3, <1>4, <2>1 DEF PromptInv, PromptTypeOK
    <2>7. Protocol'
      <3>1. WaitsInOrder'
        BY <1>4, <2>2, <2>4, <2>5 DEF PromptInv, Protocol, WaitsInOrder, Answered
      <3>2. ASSUME NEW p \in Operators PROVE Carries(p)'
        <4>1. CASE p = o
          <5>1. /\ job'[p].at = "wake" /\ job'[p].req = {r}
                /\ job'[p].answer = Answer(kind, p) /\ row'[r] = job'[p].answer
            BY <1>2, <2>2, <2>3, <4>1
          <5> QED
            BY <5>1 DEF Carries
        <4>2. CASE p # o
          <5>1. job'[p] = job[p] /\ Carries(p)
            BY <2>3, <4>2 DEF PromptInv, Protocol, Callers
          <5>2. job[p].at = "wake" => \A s \in job[p].req : row'[s] = row[s]
            BY <2>2, <2>4, Untouched DEF PromptInv, PromptTypeOK, Callers
          <5> QED
            BY <5>1, <5>2 DEF Carries
        <4> QED
          BY <4>1, <4>2
      <3>3. ASSUME NEW p \in BulkOperators PROVE CarriesBulk(p)'
        BY <2>3, CallersAssumption DEF PromptInv, Protocol, CarriesBulk, Callers
      <3> QED
        BY <3>1, <3>2, <3>3 DEF Protocol
    <2>8. AllowIsPermitted' /\ WokenAsRecorded'
      BY <1>4, <2>2, <2>4, Untouched DEF PromptInv, AllowIsPermitted, WokenAsRecorded, Permits
    <2>9. NoLostWake'
      BY <1>3, <1>4, <2>2, <2>3, <2>5 DEF PromptInv, NoLostWake, Answered, Callers
    <2>10. NoWaiterLeak'
      BY <1>4 DEF PromptInv, NoWaiterLeak
    <2> QED
      BY <2>6, <2>7, <2>8, <2>9, <2>10 DEF PromptInv
  <1>6. CASE row[r].status # "pending"
    <2>1. job' = [job EXCEPT ![o] = Idle] /\ UNCHANGED row
      BY <1>1, <1>6 DEF FlipPrompt
    <2> QED
      BY <1>3, <1>4, <2>1, IdleAgain
  <1> QED
    BY <1>5, <1>6

\* A wake touches one waiter and its channel, and only from the proxy's process.
LEMMA WakeFacts ==
    ASSUME PromptInv, NEW o \in Callers, NEW r \in Blocked, NEW d \in {"allow", "deny"},
           Wake(o, r, d)
    PROVE  /\ waiters' \in [Processes -> SUBSET Blocked]
           /\ chan' \in [Blocked -> {Empty, "allow", "deny"}]
           /\ Home[o] # Proxy => UNCHANGED <<waiters, chan>>
           /\ \A s \in Blocked \ {r} : chan'[s] = chan[s]
           /\ chan'[r] = chan[r] \/ (chan[r] = Empty /\ chan'[r] = d)
           /\ \/ waiters'[Proxy] = waiters[Proxy]
              \/ waiters'[Proxy] = waiters[Proxy] \ {r} /\ chan'[r] # Empty
           /\ \A p \in Processes \ {Proxy} : waiters'[p] = waiters[p]
           /\ (Home[o] = Proxy /\ r \in waiters[Proxy]) => chan'[r] # Empty
  <1>1. Home[o] \in Processes /\ Proxy \in Processes
    BY ProcessesAssumption
  <1>2. CASE r \in waiters[Home[o]]
    <2>1. Home[o] = Proxy
      BY <1>1, <1>2 DEF PromptInv, NoWaiterLeak
    <2>2. /\ waiters' = [waiters EXCEPT ![Proxy] = @ \ {r}]
          /\ chan' = [chan EXCEPT ![r] = IF @ = Empty THEN d ELSE @]
      BY <1>2, <2>1 DEF Wake
    <2>3. d # Empty
      BY DEF Empty
    <2> QED
      BY <1>1, <2>1, <2>2, <2>3 DEF PromptInv, PromptTypeOK
  <1>3. CASE r \notin waiters[Home[o]]
    BY <1>3 DEF PromptInv, PromptTypeOK, Wake
  <1> QED
    BY <1>2, <1>3

\* Waking with the decision of the row leaves every property but the jobs' own.
LEMMA WakeKeeps ==
    ASSUME PromptInv, NEW o \in Callers, NEW r \in Blocked, NEW d \in {"allow", "deny"},
           Wake(o, r, d), UNCHANGED <<row, req, verdict>>,
           Home[o] = Proxy => Answered(r) /\ d = Decision(Permits(row[r]))
    PROVE  /\ WaitsInOrder' /\ AllowIsPermitted' /\ WokenAsRecorded' /\ NoWaiterLeak'
           /\ \A s \in Blocked : chan[s] # Empty => chan'[s] # Empty
  <1>1. WaitsInOrder'
    BY WakeFacts DEF PromptInv, Protocol, WaitsInOrder, Answered
  <1>2. AllowIsPermitted' /\ WokenAsRecorded'
    <2>1. AllowIsPermitted'
      BY DEF PromptInv, AllowIsPermitted, Permits
    <2>2. ASSUME NEW s \in Blocked, chan'[s] # Empty
          PROVE  chan'[s] = Decision(Permits(row[s]))
      <3>1. CASE chan'[s] = chan[s]
        BY <2>2, <3>1 DEF PromptInv, WokenAsRecorded
      <3>2. CASE chan'[s] # chan[s]
        BY <3>2, WakeFacts
      <3> QED
        BY <3>1, <3>2
    <2> QED
      BY <2>1, <2>2 DEF WokenAsRecorded, Permits
  <1>3. NoWaiterLeak'
    BY WakeFacts, ProcessesAssumption DEF PromptInv, PromptTypeOK, NoWaiterLeak
  <1>4. \A s \in Blocked : chan[s] # Empty => chan'[s] # Empty
    BY WakeFacts
  <1> QED
    BY <1>1, <1>2, <1>3, <1>4

\* The operator wakes the waiter of the row it answered, with that answer.
LEMMA WakePromptInv ==
    ASSUME PromptInv, NEW o \in Operators, WakePrompt(o) PROVE PromptInv'
  <1>1. PICK r \in Blocked : job[o].req = {r}
    BY DEF PromptInv, WakePrompt, Protocol, Carries
  <1>2. PICK kind \in SingleKinds : job[o].answer = Answer(kind, o)
    BY DEF PromptInv, WakePrompt, Protocol, Carries
  <1>3. o \in Callers /\ job[o].at = "wake" /\ row[r] = Answer(kind, o)
    BY <1>1, <1>2 DEF PromptInv, WakePrompt, Protocol, Carries, Callers
  <1> DEFINE d == Decision(KindAllows(kind))
  <1>4. Wake(o, r, d) /\ job' = [job EXCEPT ![o] = Idle]
        /\ UNCHANGED <<row, req, verdict, restarts>>
    BY <1>1, <1>2, AnswerMeans DEF WakePrompt
  <1>5. d \in {"allow", "deny"} /\ d = Decision(Permits(row[r]))
    BY <1>3, AnswerMeans DEF Decision
  <1>6. Answered(r)
    BY <1>3, RowShapes DEF Answered
  <1> HIDE DEF d
  <1>7. /\ WaitsInOrder' /\ AllowIsPermitted' /\ WokenAsRecorded' /\ NoWaiterLeak'
        /\ \A s \in Blocked : chan[s] # Empty => chan'[s] # Empty
    BY <1>3, <1>4, <1>5, <1>6, WakeKeeps
  <1>8. job'[o] = Idle /\ \A p \in Callers \ {o} : job'[p] = job[p]
    BY <1>3, <1>4 DEF PromptInv, PromptTypeOK
  <1>9. PromptTypeOK'
    <2>1. /\ waiters' \in [Processes -> SUBSET Blocked]
          /\ chan' \in [Blocked -> {Empty, "allow", "deny"}]
      BY <1>3, <1>4, <1>5, WakeFacts
    <2> QED
      BY <1>4, <2>1 DEF PromptInv, PromptTypeOK, Idle
  <1>10. Protocol'
    <2>1. Carries(o)' /\ CarriesBulk(o)'
      BY <1>8 DEF Carries, CarriesBulk, Idle
    <2> QED
      BY <1>3, <1>4, <1>7, <1>8, <2>1, OneJobChanges
  <1>11. NoLostWake'
    <2> SUFFICES ASSUME NEW s \in Blocked, req[s] = "wait", Answered(s),
                        row[s].by \in Operators, Home[row[s].by] = Proxy
                 PROVE  \/ chan'[s] # Empty
                        \/ job'[row[s].by].at = "wake" /\ s \in job'[row[s].by].req
      BY <1>4 DEF NoLostWake, Answered
    <2>1. CASE chan[s] # Empty
      BY <1>7, <2>1
    <2>2. CASE chan[s] = Empty
      <3>1. job[row[s].by].at = "wake" /\ s \in job[row[s].by].req
        BY <2>2 DEF PromptInv, NoLostWake
      <3>2. CASE row[s].by = o
        <4>1. s = r /\ s \in waiters[Proxy]
          BY <1>1, <2>2, <3>1, <3>2 DEF PromptInv, Protocol, WaitsInOrder
        <4> QED
          BY <1>3, <1>4, <1>5, <3>2, <4>1, WakeFacts
      <3>3. CASE row[s].by # o
        BY <1>8, <3>1, <3>3 DEF Callers
      <3> QED
        BY <3>2, <3>3
    <2> QED
      BY <2>1, <2>2
  <1> QED
    BY <1>7, <1>9, <1>10, <1>11 DEF PromptInv

\* A bulk answer first collects, then flips whatever is pending by then.
LEMMA BulkCollectInv ==
    ASSUME PromptInv, NEW o \in BulkOperators, NEW res \in BulkChoices, BulkCollect(o, res)
    PROVE  PromptInv'
  <1> DEFINE S == {r \in Blocked : row[r].status = "pending"}
  <1>1. o \in Callers /\ o \notin Operators /\ res \in Resolutions
    BY CallersAssumption, BulkAssumption DEF Callers
  <1>2. /\ job'[o] = [at |-> "bulk_flip", req |-> S, answer |-> BulkAnswer(res, o)]
        /\ \A p \in Callers \ {o} : job'[p] = job[p]
    BY <1>1 DEF PromptInv, BulkCollect, PromptTypeOK
  <1>3. UNCHANGED <<row, waiters, chan, req, verdict, restarts>>
    BY DEF BulkCollect
  <1>4. PromptTypeOK'
    BY <1>1, <1>3, RowShapes DEF PromptInv, BulkCollect, PromptTypeOK
  <1>5. Protocol'
    <2>1. WaitsInOrder'
      BY <1>3 DEF PromptInv, Protocol, WaitsInOrder, Answered
    <2>2. job'[o].at = "bulk_flip" /\ job'[o].answer = BulkAnswer(res, o)
      BY <1>2
    <2>3. CarriesBulk(o)'
      BY <1>1, <2>2 DEF CarriesBulk
    <2> QED
      BY <1>1, <1>2, <1>3, <2>1, <2>3, OneJobChanges
  <1>6. AllowIsPermitted' /\ WokenAsRecorded' /\ NoWaiterLeak'
    BY <1>3 DEF PromptInv, AllowIsPermitted, WokenAsRecorded, NoWaiterLeak
  <1>7. NoLostWake'
    BY <1>1, <1>2, <1>3 DEF PromptInv, NoLostWake, Answered, Callers
  <1> QED
    BY <1>4, <1>5, <1>6, <1>7 DEF PromptInv

LEMMA BulkFlipInv ==
    ASSUME PromptInv, NEW o \in BulkOperators, BulkFlip(o) PROVE PromptInv'
  <1>1. PICK res \in Resolutions : job[o].answer = BulkAnswer(res, o)
    BY DEF PromptInv, BulkFlip, Protocol, CarriesBulk
  <1>2. o \in Callers /\ o \notin Operators /\ job[o].answer \in Answers
    BY <1>1, CallersAssumption, RowShapes DEF Callers
  <1>3. \A r \in Blocked :
          \/ row'[r] = row[r] /\ row[r].status # "pending"
          \/ row'[r] = job[o].answer /\ row[r].status = "pending"
    BY DEF BulkFlip
  <1>4. UNCHANGED <<waiters, chan, req, verdict, restarts>>
    BY DEF BulkFlip
  <1>5. job[o].answer.status = "answered" /\ job[o].answer.by = o
    BY <1>1, AnswerMeans
  <1>6. \A r \in Blocked : Answered(r) => row'[r] = row[r]
    BY <1>3 DEF Answered
  <1>7. job'[o].at = "bulk_wake" /\ job'[o].answer = job[o].answer
        /\ \A p \in Callers \ {o} : job'[p] = job[p]
    BY <1>2 DEF PromptInv, BulkFlip, PromptTypeOK
  <1>8. PromptTypeOK'
    <2>1. row' \in [Blocked -> {Absent, Pending} \cup Answers]
      BY <1>2 DEF PromptInv, BulkFlip, PromptTypeOK
    <2>2. job' \in [Callers -> [at : {"idle", "flip", "wake", "bulk_flip", "bulk_wake"},
                               req : SUBSET Blocked, answer : {Absent} \cup Answers]]
      BY <1>2 DEF PromptInv, BulkFlip, PromptTypeOK
    <2> QED
      BY <1>4, <2>1, <2>2 DEF PromptInv, PromptTypeOK
  <1>9. Protocol'
    <2>1. WaitsInOrder'
      BY <1>3, <1>4, <1>5, RowShapes DEF PromptInv, Protocol, WaitsInOrder, Answered
    <2>2. ASSUME NEW p \in Operators PROVE Carries(p)'
      <3>1. job'[p] = job[p] /\ Carries(p)
        BY <1>2, <1>7 DEF PromptInv, Protocol, Callers
      <3>2. job[p].at = "wake" => \A s \in job[p].req : row'[s] = row[s]
        BY <1>6, Untouched DEF PromptInv, PromptTypeOK, Callers
      <3> QED
        BY <3>1, <3>2 DEF Carries
    <2>3. ASSUME NEW p \in BulkOperators PROVE CarriesBulk(p)'
      BY <1>1, <1>7 DEF PromptInv, Protocol, CarriesBulk, Callers
    <2> QED
      BY <2>1, <2>2, <2>3 DEF Protocol
  <1>10. AllowIsPermitted' /\ WokenAsRecorded'
    BY <1>4, <1>6, Untouched DEF PromptInv, AllowIsPermitted, WokenAsRecorded, Permits
  <1>11. NoLostWake'
    BY <1>2, <1>3, <1>4, <1>5, <1>7 DEF PromptInv, NoLostWake, Answered, Callers
  <1>12. NoWaiterLeak'
    BY <1>4 DEF PromptInv, NoWaiterLeak
  <1> QED
    BY <1>8, <1>9, <1>10, <1>11, <1>12 DEF PromptInv

\* From outside the proxy's process the bulk wake finds no waiter at all.
LEMMA BulkWakeInv ==
    ASSUME PromptInv, BulkOutside, NEW o \in BulkOperators, BulkWake(o) PROVE PromptInv'
  <1>1. o \in Callers /\ o \notin Operators /\ Home[o] # Proxy /\ Home[o] \in Processes
    BY ProcessesAssumption, CallersAssumption DEF Callers, BulkOutside
  <1>2. waiters[Home[o]] = {}
    BY <1>1 DEF PromptInv, NoWaiterLeak
  <1>3. UNCHANGED <<row, waiters, chan, req, verdict, restarts>>
    BY <1>2 DEF BulkWake, Wake
  <1>4. CASE job[o].req = {} /\ job' = [job EXCEPT ![o] = Idle]
    BY <1>1, <1>3, <1>4, IdleAgain
  <1>5. CASE \E r \in job[o].req : job' = [job EXCEPT ![o].req = @ \ {r}]
    <2>1. /\ job'[o].at = job[o].at /\ job'[o].answer = job[o].answer
          /\ \A p \in Callers \ {o} : job'[p] = job[p]
      BY <1>1, <1>5 DEF PromptInv, PromptTypeOK
    <2>2. PromptTypeOK'
      BY <1>1, <1>3, <1>5 DEF PromptInv, PromptTypeOK
    <2>3. Protocol'
      <3>1. WaitsInOrder'
        BY <1>3 DEF PromptInv, Protocol, WaitsInOrder, Answered
      <3>2. CarriesBulk(o)'
        BY <2>1 DEF PromptInv, Protocol, CarriesBulk
      <3> QED
        BY <1>1, <1>3, <2>1, <3>1, <3>2, OneJobChanges
    <2>4. AllowIsPermitted' /\ WokenAsRecorded' /\ NoWaiterLeak'
      BY <1>3 DEF PromptInv, AllowIsPermitted, WokenAsRecorded, NoWaiterLeak
    <2>5. NoLostWake'
      BY <1>1, <1>3, <2>1 DEF PromptInv, NoLostWake, Answered, Callers
    <2> QED
      BY <2>2, <2>3, <2>4, <2>5 DEF PromptInv
  <1> QED
    BY <1>4, <1>5 DEF BulkWake

-----------------------------------------------------------------------------
(* Failures *)

\* A caller outside the proxy stops anywhere; one inside, before it wakes.
LEMMA CallerStopsInv ==
    ASSUME PromptInv, NEW o \in Callers, CallerStops(o) PROVE PromptInv'
  BY IdleAgain DEF CallerStops

\* A restart ends every wait of the proxy and every job in it.
LEMMA RestartProxyInv ==
    ASSUME PromptInv, RestartProxy PROVE PromptInv'
  <1>1. /\ waiters'[Proxy] = {}
        /\ \A p \in Processes \ {Proxy} : waiters'[p] = waiters[p]
    BY ProcessesAssumption DEF PromptInv, RestartProxy, PromptTypeOK
  <1>2. UNCHANGED row
    BY DEF RestartProxy
  <1>3. \A r \in Blocked :
          /\ chan'[r] = Empty
          /\ req'[r] = IF req[r] = "idle" THEN "idle" ELSE "done"
          /\ verdict'[r] = verdict[r] \/ (req[r] # "idle" /\ verdict'[r] = "lost")
    BY DEF RestartProxy
  <1>4. \A o \in Callers : job'[o] = job[o] \/ job'[o] = Idle
    BY DEF RestartProxy
  <1>5. PromptTypeOK'
    <2>1. restarts' \in 0 .. MaxRestarts
      BY ProcessesAssumption DEF PromptInv, RestartProxy, PromptTypeOK
    <2>2. verdict' \in [Blocked -> Verdicts] /\ req' \in [Blocked -> Stages]
      BY DEF PromptInv, RestartProxy, PromptTypeOK, Verdicts, Stages
    <2>3. waiters' \in [Processes -> SUBSET Blocked]
      BY DEF PromptInv, RestartProxy, PromptTypeOK
    <2>4. job' \in [Callers -> [at : {"idle", "flip", "wake", "bulk_flip", "bulk_wake"},
                               req : SUBSET Blocked, answer : {Absent} \cup Answers]]
      BY DEF PromptInv, RestartProxy, PromptTypeOK, Idle
    <2> QED
      BY <1>2, <2>1, <2>2, <2>3, <2>4 DEF PromptInv, RestartProxy, PromptTypeOK
  <1>6. Protocol'
    <2>1. WaitsInOrder'
      BY <1>2, <1>3 DEF PromptInv, Protocol, WaitsInOrder, Answered
    <2>2. Idle.at = "idle"
      BY DEF Idle
    <2>3. ASSUME NEW o \in Operators PROVE Carries(o)'
      BY <1>2, <1>4, <2>2 DEF PromptInv, Protocol, Carries, Callers
    <2>4. ASSUME NEW o \in BulkOperators PROVE CarriesBulk(o)'
      BY <1>4, <2>2 DEF PromptInv, Protocol, CarriesBulk, Callers
    <2> QED
      BY <2>1, <2>3, <2>4 DEF Protocol
  <1>7. AllowIsPermitted' /\ WokenAsRecorded'
    BY <1>2, <1>3 DEF PromptInv, AllowIsPermitted, WokenAsRecorded, Permits
  <1>8. NoLostWake'
    BY <1>3 DEF PromptInv, NoLostWake
  <1>9. NoWaiterLeak'
    BY <1>1 DEF PromptInv, NoWaiterLeak
  <1> QED
    BY <1>5, <1>6, <1>7, <1>8, <1>9 DEF PromptInv

-----------------------------------------------------------------------------
(* The theorems *)

\* No step of the proxy, of a caller or of a restart breaks the invariant.
LEMMA PromptStepInv ==
    ASSUME PromptInv, BulkOutside, [PromptNext]_promptVars PROVE PromptInv'
  <1>1. ASSUME NEW r \in Blocked, Register(r) PROVE PromptInv'
    BY <1>1, RegisterInv
  <1>2. ASSUME NEW r \in Blocked, Insert(r) PROVE PromptInv'
    BY <1>2, InsertInv
  <1>3. ASSUME NEW r \in Blocked, InsertFails(r) \/ ForwardAllow(r) PROVE PromptInv'
    BY <1>3, LeaveInv
  <1>4. ASSUME NEW r \in Blocked, ReceiveWake(r) PROVE PromptInv'
    BY <1>4, ReceiveWakeInv
  <1>5. ASSUME NEW r \in Blocked, Poll(r) PROVE PromptInv'
    BY <1>5, PollInv
  <1>6. ASSUME NEW r \in Blocked, Timeout(r) \/ Cancel(r) PROVE PromptInv'
    BY <1>6, TimeoutInv
  <1>7. ASSUME NEW o \in Operators, NEW r \in Blocked, NEW kind \in SingleKinds,
               ReadPrompt(o, r, kind)
        PROVE  PromptInv'
    BY <1>7, ReadPromptInv
  <1>8. ASSUME NEW o \in Operators, FlipPrompt(o) PROVE PromptInv'
    BY <1>8, FlipPromptInv
  <1>9. ASSUME NEW o \in Operators, WakePrompt(o) PROVE PromptInv'
    BY <1>9, WakePromptInv
  <1>10. ASSUME NEW o \in BulkOperators, NEW res \in BulkChoices, BulkCollect(o, res)
         PROVE  PromptInv'
    BY <1>10, BulkCollectInv
  <1>11. ASSUME NEW o \in BulkOperators, BulkFlip(o) PROVE PromptInv'
    BY <1>11, BulkFlipInv
  <1>12. ASSUME NEW o \in BulkOperators, BulkWake(o) PROVE PromptInv'
    BY <1>12, BulkWakeInv
  <1>13. ASSUME NEW o \in Callers, CallerStops(o) PROVE PromptInv'
    BY <1>13, CallerStopsInv
  <1>14. ASSUME RestartProxy PROVE PromptInv'
    BY <1>14, RestartProxyInv
  <1>15. ASSUME UNCHANGED promptVars PROVE PromptInv'
    <2>1. PromptTypeOK'
      BY <1>15 DEF promptVars, PromptInv, PromptTypeOK
    <2>2. WaitsInOrder'
      BY <1>15 DEF promptVars, PromptInv, Protocol, WaitsInOrder, Answered
    <2>3. Protocol'
      BY <1>15, <2>2, JobsStay DEF promptVars
    <2>4. AllowIsPermitted' /\ WokenAsRecorded' /\ NoWaiterLeak'
      BY <1>15 DEF promptVars, PromptInv, AllowIsPermitted, WokenAsRecorded, NoWaiterLeak
    <2>5. NoLostWake'
      BY <1>15 DEF promptVars, PromptInv, NoLostWake, Answered
    <2> QED
      BY <2>1, <2>3, <2>4, <2>5 DEF PromptInv
  <1> QED
    BY <1>1, <1>2, <1>3, <1>4, <1>5, <1>6, <1>7, <1>8, <1>9, <1>10, <1>11, <1>12,
       <1>13, <1>14, <1>15 DEF PromptNext

\* PromptInv holds in every reachable state, as long as bulk answers come from outside.
THEOREM PromptInvariance ==
    ASSUME BulkOutside PROVE PromptSpec => []PromptInv
  <1>1. PromptInit => PromptInv
    BY PromptInitInv
  <1>2. PromptInv /\ [PromptNext]_promptVars => PromptInv'
    BY PromptStepInv
  <1> QED
    BY <1>1, <1>2, PTL DEF PromptSpec

\* Every variable keeps its type, whatever number of requests, callers and
\* processes there is.
THEOREM PromptTypeCorrect ==
    ASSUME BulkOutside PROVE PromptSpec => []PromptTypeOK
  <1>1. PromptInv => PromptTypeOK
    BY DEF PromptInv
  <1> QED
    BY <1>1, PromptInvariance, PTL

\* Requests, rows, channels and jobs keep in step: a request that waits has a
\* row, and every job under way carries what it read from one.
THEOREM ProtocolKept ==
    ASSUME BulkOutside PROVE PromptSpec => []Protocol
  <1>1. PromptInv => Protocol
    BY DEF PromptInv
  <1> QED
    BY <1>1, PromptInvariance, PTL

\* The client is let through only when the operator who answered the row asked
\* for it, over the channel and over the poll alike.
THEOREM AllowsArePermitted ==
    ASSUME BulkOutside PROVE PromptSpec => []AllowIsPermitted
  <1>1. PromptInv => AllowIsPermitted
    BY DEF PromptInv
  <1> QED
    BY <1>1, PromptInvariance, PTL

\* The two paths agree: what a channel holds is what the row says.
THEOREM WakesAreRecorded ==
    ASSUME BulkOutside PROVE PromptSpec => []WokenAsRecorded
  <1>1. PromptInv => WokenAsRecorded
    BY DEF PromptInv
  <1> QED
    BY <1>1, PromptInvariance, PTL

\* Registering the waiter before the row is inserted loses no answer given in
\* the proxy's own process.
THEOREM WakesAreNotLost ==
    ASSUME BulkOutside PROVE PromptSpec => []NoLostWake
  <1>1. PromptInv => NoLostWake
    BY DEF PromptInv
  <1> QED
    BY <1>1, PromptInvariance, PTL

\* The waiter map holds live goroutines only.
THEOREM WaitersDoNotLeak ==
    ASSUME BulkOutside PROVE PromptSpec => []NoWaiterLeak
  <1>1. PromptInv => NoWaiterLeak
    BY DEF PromptInv
  <1> QED
    BY <1>1, PromptInvariance, PTL

-----------------------------------------------------------------------------
(* The protocol implements the promise *)

\* Every exit from the wait is a verdict the promise allows.
LEMMA ResolveConcludes ==
    ASSUME PromptInv, NEW r \in Blocked, req[r] = "wait", NEW v, Resolve(r, v),
           \/ v \in {"timeout_allow", "timeout_deny", "cancelled"}
           \/ v \in {"allow", "deny"} /\ Answered(r) /\ (v = "allow" => Permits(row[r]))
    PROVE  Promise!Conclude(r, v)
  <1>1. verdict[r] = "none"
    BY DEF PromptInv, Protocol, WaitsInOrder
  <1>2. Answered(r) => row[r] \in Answers
    BY RowCases DEF PromptInv
  <1> QED
    BY <1>1, <1>2 DEF Promise!Conclude, Promise!ByAnswer, Resolve

\* One step of the protocol is one step of the promise or none.
LEMMA StepPromise ==
    ASSUME PromptInv, [PromptNext]_promptVars PROVE [Promise!Next]_<<row, verdict>>
  <1>1. ASSUME NEW r \in Blocked, Insert(r) PROVE Promise!Raise(r)
    BY <1>1 DEF PromptInv, Insert, Protocol, WaitsInOrder, Promise!Raise
  <1>2. ASSUME NEW r \in Blocked, InsertFails(r) PROVE Promise!Conclude(r, "enqueue_failed")
    BY <1>2 DEF PromptInv, InsertFails, Protocol, WaitsInOrder, Promise!Conclude
  <1>3. ASSUME NEW r \in Blocked,
               ReceiveWake(r) \/ Poll(r) \/ Timeout(r) \/ Cancel(r)
        PROVE  Promise!Next
    <2>1. CASE ReceiveWake(r)
      <3>1. Answered(r) /\ chan[r] \in {"allow", "deny"}
        BY <2>1 DEF PromptInv, ReceiveWake, Protocol, WaitsInOrder, PromptTypeOK
      <3>2. chan[r] = "allow" => Permits(row[r])
        BY <2>1, <3>1 DEF PromptInv, ReceiveWake, WokenAsRecorded, Decision
      <3>3. Promise!Conclude(r, chan[r])
        BY <2>1, <3>1, <3>2, ResolveConcludes DEF ReceiveWake
      <3> QED
        BY <3>1, <3>3 DEF Promise!Next
    <2>2. CASE Poll(r)
      <3> DEFINE v == AnswerToDecision(row[r].kind)
      <3>1. v \in {"allow", "deny"} /\ (v = "allow" => Permits(row[r]))
        BY <2>2, PollIsPermitted DEF AnswerToDecision, Poll, Answered
      <3>2. Promise!Conclude(r, v)
        BY <2>2, <3>1, ResolveConcludes DEF Poll
      <3> QED
        BY <3>1, <3>2 DEF Promise!Next
    <2>3. CASE Timeout(r)
      <3>1. PICK v \in {"timeout_allow", "timeout_deny"} : Resolve(r, v)
        BY <2>3 DEF Timeout
      <3>2. Promise!Conclude(r, v)
        BY <2>3, <3>1, ResolveConcludes DEF Timeout
      <3> QED
        BY <3>2 DEF Promise!Next
    <2>4. CASE Cancel(r)
      <3>1. Promise!Conclude(r, "cancelled")
        BY <2>4, ResolveConcludes DEF Cancel
      <3> QED
        BY <3>1 DEF Promise!Next
    <2> QED
      BY <1>3, <2>1, <2>2, <2>3, <2>4
  <1>4. ASSUME NEW o \in Operators, FlipPrompt(o)
        PROVE  Promise!Next \/ UNCHANGED <<row, verdict>>
    <2>1. PICK r \in Blocked : job[o].req = {r}
      BY <1>4 DEF PromptInv, FlipPrompt, Protocol, Carries
    <2>2. PICK kind \in SingleKinds : job[o].answer = Answer(kind, o)
      BY <1>4 DEF PromptInv, FlipPrompt, Protocol, Carries
    <2>3. job[o].answer \in Answers /\ verdict' = verdict
      BY <1>4, <2>2, RowShapes DEF FlipPrompt
    <2>4. CASE row[r].status = "pending"
      <3>1. row' = [row EXCEPT ![r] = job[o].answer] /\ row[r] = Pending
        BY <1>4, <2>1, <2>4, RowCases DEF PromptInv, FlipPrompt
      <3>2. row' = [s \in Blocked |-> IF s \in {r} THEN job[o].answer ELSE row[s]]
        BY <3>1 DEF PromptInv, PromptTypeOK
      <3>3. Promise!AnswerAll({r}, job[o].answer)
        BY <2>3, <3>1, <3>2 DEF Promise!AnswerAll
      <3> QED
        BY <2>3, <3>3 DEF Promise!Next
    <2>5. CASE row[r].status # "pending"
      BY <1>4, <2>1, <2>3, <2>5 DEF FlipPrompt
    <2> QED
      BY <2>4, <2>5
  <1>5. ASSUME NEW o \in BulkOperators, BulkFlip(o) PROVE Promise!Next
    <2> DEFINE S == {r \in Blocked : row[r].status = "pending"}
    <2>1. job[o].answer \in Answers
      BY <1>5, RowShapes DEF PromptInv, BulkFlip, Protocol, CarriesBulk
    <2>2. \A r \in S : row[r] = Pending
      BY RowCases DEF PromptInv
    <2>3. row' = [r \in Blocked |-> IF r \in S THEN job[o].answer ELSE row[r]]
      BY <1>5 DEF BulkFlip
    <2>4. Promise!AnswerAll(S, job[o].answer)
      BY <1>5, <2>2, <2>3 DEF Promise!AnswerAll, BulkFlip
    <2> QED
      BY <2>1, <2>4 DEF Promise!Next
  <1>6. ASSUME RestartProxy PROVE Promise!Next
    <2> DEFINE S == {r \in Blocked : verdict[r] = "none" /\ req[r] # "idle"}
    <2>1. Promise!Lose(S)
      BY <1>6 DEF RestartProxy, Promise!Lose
    <2> QED
      BY <2>1 DEF Promise!Next
  <1>7. ASSUME \/ \E r \in Blocked : Register(r) \/ ForwardAllow(r)
               \/ \E o \in Operators :
                    \/ \E r \in Blocked, kind \in SingleKinds : ReadPrompt(o, r, kind)
                    \/ WakePrompt(o)
               \/ \E o \in BulkOperators :
                    (\E res \in BulkChoices : BulkCollect(o, res)) \/ BulkWake(o)
               \/ \E o \in Callers : CallerStops(o)
               \/ UNCHANGED promptVars
        PROVE  UNCHANGED <<row, verdict>>
    BY <1>7 DEF Register, ForwardAllow, ReadPrompt, WakePrompt, BulkCollect,
                BulkWake, CallerStops, promptVars
  <1> QED
    BY <1>1, <1>2, <1>3, <1>4, <1>5, <1>6, <1>7 DEF PromptNext, Promise!Next

\* The prompt as the code runs it - two racing paths, several processes,
\* restarts - keeps the promise: one answer per row, one verdict per request,
\* and no allow without an answer that permits it.
THEOREM PromiseKept ==
    ASSUME BulkOutside PROVE PromptSpec => KeepsPromise
  <1>1. PromptInit => Promise!Init
    BY DEF PromptInit, Promise!Init
  <1>2. PromptInv /\ [PromptNext]_promptVars => [Promise!Next]_<<row, verdict>>
    BY StepPromise
  <1> QED
    BY <1>1, <1>2, PromptInvariance, PTL DEF PromptSpec, Promise!Spec, KeepsPromise
=============================================================================
