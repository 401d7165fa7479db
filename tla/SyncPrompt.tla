----------------------------- MODULE SyncPrompt -----------------------------
(***************************************************************************)
(* The synchronous deny prompt (--sync-prompt-on-deny).  A request that a   *)
(* transparent proxy denied blocks in handleSyncPromptDeny until an         *)
(* operator answers its pending_prompts row, a timer fires or the client    *)
(* goes away.  Answers reach the goroutine on two paths that race: a        *)
(* channel in the memory of the answering process, and a poll of the row.   *)
(*                                                                          *)
(* Several processes open the same SQLite file; each Store keeps a waiter   *)
(* map of its own, and only the proxy registers waiters.  One SQL statement *)
(* or one critical section of syncMu is one step.                           *)
(***************************************************************************)
EXTENDS Naturals, FiniteSets

CONSTANTS
    Blocked,        \* denied requests; a request names its row and its sync_wait_id
    Operators,      \* the callers of AnswerPendingPrompt
    BulkOperators,  \* the callers of BulkAnswerPendingPrompts
    Processes,      \* processes with the database open
    Proxy,          \* the one that runs `kbounce run`
    Home,           \* the process each caller runs in
    BulkChoices,    \* the bulk resolutions the callers pick from
    TimeoutAllows,  \* SyncPromptDefault = allow
    MaxRestarts     \* bound on the restarts of the proxy

Callers == Operators \cup BulkOperators

ASSUME ProcessesAssumption ==
    /\ Proxy \in Processes
    /\ Home \in [Callers -> Processes]
    /\ TimeoutAllows \in BOOLEAN
    /\ MaxRestarts \in Nat

\* A caller stands for one kind of call.
ASSUME CallersAssumption == Operators \cap BulkOperators = {}

Resolutions == {"session", "3h", "10min", "profile", "none", "auto_expired"}
SingleKinds == {"always", "profile", "ignore"}

ASSUME BulkAssumption == BulkChoices \subseteq Resolutions

VARIABLES
    row,       \* pending_prompts: status, answer_kind, answer_target, answered_by
    waiters,   \* the syncWaiters map of each process
    chan,      \* the cap-1 channel of each request
    req,       \* where each request goroutine is
    verdict,   \* what the goroutine acted on
    job,       \* what each caller is in the middle of
    restarts

promptVars == <<row, waiters, chan, req, verdict, job, restarts>>

-----------------------------------------------------------------------------
(* Rows, answers and decisions *)

Nobody == "nobody"

Absent  == [status |-> "absent", kind |-> "", target |-> "", by |-> Nobody]
Pending == [status |-> "pending", kind |-> "", target |-> "", by |-> Nobody]

Answer(k, o) == [status |-> "answered", kind |-> k, target |-> "", by |-> o]

BulkAnswer(res, o) == [status |-> "answered", kind |-> "bulk", target |-> res, by |-> o]

Answers ==
    [status : {"answered"}, kind : SingleKinds, target : {""}, by : Operators]
      \cup [status : {"answered"}, kind : {"bulk"}, target : Resolutions, by : BulkOperators]

Answered(r) == row[r].status = "answered"

\* The kinds of an individual answer that let the request through.
KindAllows(kind) == kind \in {"always", "profile"}

\* The resolutions of a bulk answer that let every waiter through.
ResolutionAllows(res) == res \in {"session", "3h", "10min", "profile"}

AnswerToDecisionAnyAnswer(kind) == "allow"

\* What the poll makes of an answered row: it looks at answer_kind alone.
AnswerToDecision(kind) == IF KindAllows(kind) THEN "allow" ELSE "deny"

\* What the operator who wrote the row asked for.
Permits(rw) ==
    /\ rw.status = "answered"
    /\ KindAllows(rw.kind) \/ (rw.kind = "bulk" /\ ResolutionAllows(rw.target))

Decision(b) == IF b THEN "allow" ELSE "deny"

Empty    == "empty"
Verdicts == {"none", "allow", "deny", "timeout_allow", "timeout_deny",
             "enqueue_failed", "cancelled", "lost"}
Stages   == {"idle", "insert", "wait", "forward", "done"}

Idle == [at |-> "idle", req |-> {}, answer |-> Absent]

PromptTypeOK ==
    /\ row \in [Blocked -> {Absent, Pending} \cup Answers]
    /\ waiters \in [Processes -> SUBSET Blocked]
    /\ chan \in [Blocked -> {Empty, "allow", "deny"}]
    /\ req \in [Blocked -> Stages]
    /\ verdict \in [Blocked -> Verdicts]
    /\ job \in [Callers ->
                  [at : {"idle", "flip", "wake", "bulk_flip", "bulk_wake"},
                   req : SUBSET Blocked,
                   answer : {Absent} \cup Answers]]
    /\ restarts \in 0 .. MaxRestarts

PromptInit ==
    /\ row = [r \in Blocked |-> Absent]
    /\ waiters = [p \in Processes |-> {}]
    /\ chan = [r \in Blocked |-> Empty]
    /\ req = [r \in Blocked |-> "idle"]
    /\ verdict = [r \in Blocked |-> "none"]
    /\ job = [o \in Callers |-> Idle]
    /\ restarts = 0

-----------------------------------------------------------------------------
(* The request goroutine *)

ForgetNothing(r) == UNCHANGED waiters

Forget(r) == waiters' = [waiters EXCEPT ![Proxy] = @ \ {r}]

RegisterNobody(r) ==
    /\ req[r] = "idle"
    /\ req' = [req EXCEPT ![r] = "insert"]
    /\ UNCHANGED <<row, waiters, chan, verdict, job, restarts>>

\* AddSyncPendingPrompt registers the waiter before it inserts the row.
Register(r) ==
    /\ req[r] = "idle"
    /\ waiters' = [waiters EXCEPT ![Proxy] = @ \cup {r}]
    /\ req' = [req EXCEPT ![r] = "insert"]
    /\ UNCHANGED <<row, chan, verdict, job, restarts>>

Insert(r) ==
    /\ req[r] = "insert"
    /\ row' = [row EXCEPT ![r] = Pending]
    /\ req' = [req EXCEPT ![r] = "wait"]
    /\ UNCHANGED <<waiters, chan, verdict, job, restarts>>

\* The INSERT fails: the registration is rolled back, the caller writes a 403.
InsertFails(r) ==
    /\ req[r] = "insert"
    /\ Forget(r)
    /\ verdict' = [verdict EXCEPT ![r] = "enqueue_failed"]
    /\ req' = [req EXCEPT ![r] = "done"]
    /\ UNCHANGED <<row, chan, job, restarts>>

\* The goroutine acts on v.  Whatever lets the request through forwards it
\* first; the deferred ForgetSyncWaiter runs when the handler returns.
Resolve(r, v) ==
    /\ verdict' = [verdict EXCEPT ![r] = v]
    /\ IF v \in {"allow", "timeout_allow"}
       THEN req' = [req EXCEPT ![r] = "forward"] /\ UNCHANGED waiters
       ELSE req' = [req EXCEPT ![r] = "done"] /\ Forget(r)
    /\ UNCHANGED <<row, job, restarts>>

ReceiveWake(r) ==
    /\ req[r] = "wait"
    /\ chan[r] # Empty
    /\ chan' = [chan EXCEPT ![r] = Empty]
    /\ Resolve(r, chan[r])

\* A tick that finds an error, no row or a pending row changes nothing.
Poll(r) ==
    /\ req[r] = "wait"
    /\ Answered(r)
    /\ Resolve(r, AnswerToDecision(row[r].kind))
    /\ UNCHANGED chan

TimeoutIfPending(r) ==
    /\ req[r] = "wait"
    /\ ~ Answered(r)
    /\ Resolve(r, IF TimeoutAllows THEN "timeout_allow" ELSE "timeout_deny")
    /\ UNCHANGED chan

Timeout(r) ==
    /\ req[r] = "wait"
    /\ Resolve(r, IF TimeoutAllows THEN "timeout_allow" ELSE "timeout_deny")
    /\ UNCHANGED chan

Cancel(r) ==
    /\ req[r] = "wait"
    /\ Resolve(r, "cancelled")
    /\ UNCHANGED chan

\* forwardSyncPromptAllow answers the client one way or another (observation
\* body, host mismatch, bad gateway or the upstream's response) and returns.
ForwardAllow(r) ==
    /\ req[r] = "forward"
    /\ req' = [req EXCEPT ![r] = "done"]
    /\ Forget(r)
    /\ UNCHANGED <<row, chan, verdict, job, restarts>>

-----------------------------------------------------------------------------
(* Answering one prompt: AnswerPendingPrompt and the CLI around it *)

ReadPrompt(o, r, kind) ==
    /\ job[o].at = "idle"
    /\ row[r].status = "pending"
    /\ job' = [job EXCEPT ![o] = [at |-> "flip", req |-> {r}, answer |-> Answer(kind, o)]]
    /\ UNCHANGED <<row, waiters, chan, req, verdict, restarts>>

FlipPromptUnguarded(o) ==
    /\ job[o].at = "flip"
    /\ \E r \in job[o].req : row' = [row EXCEPT ![r] = job[o].answer]
    /\ job' = [job EXCEPT ![o].at = "wake"]
    /\ UNCHANGED <<waiters, chan, req, verdict, restarts>>

\* UPDATE ... WHERE id = ? AND status = 'pending': nobody is woken unless it
\* changed the row.
FlipPrompt(o) ==
    /\ job[o].at = "flip"
    /\ \E r \in job[o].req :
         IF row[r].status = "pending"
         THEN /\ row' = [row EXCEPT ![r] = job[o].answer]
              /\ job' = [job EXCEPT ![o].at = "wake"]
         ELSE /\ job' = [job EXCEPT ![o] = Idle]
              /\ UNCHANGED row
    /\ UNCHANGED <<waiters, chan, req, verdict, restarts>>

\* wakeSyncWaiter in the caller's own process: the entry leaves the map and
\* the decision goes into the channel, unless one is already there.
Wake(o, r, decision) ==
    IF r \in waiters[Home[o]]
    THEN /\ waiters' = [waiters EXCEPT ![Home[o]] = @ \ {r}]
         /\ chan' = [chan EXCEPT ![r] = IF @ = Empty THEN decision ELSE @]
    ELSE UNCHANGED <<waiters, chan>>

WakePrompt(o) ==
    /\ job[o].at = "wake"
    /\ \E r \in job[o].req : Wake(o, r, Decision(KindAllows(job[o].answer.kind)))
    /\ job' = [job EXCEPT ![o] = Idle]
    /\ UNCHANGED <<row, req, verdict, restarts>>

-----------------------------------------------------------------------------
(* Answering every prompt: BulkAnswerPendingPrompts *)

BulkCollect(o, res) ==
    /\ job[o].at = "idle"
    /\ job' = [job EXCEPT ![o] =
                 [at |-> "bulk_flip",
                  req |-> {r \in Blocked : row[r].status = "pending"},
                  answer |-> BulkAnswer(res, o)]]
    /\ UNCHANGED <<row, waiters, chan, req, verdict, restarts>>

\* Flips whatever is pending now, which need not be what was collected.
BulkFlip(o) ==
    /\ job[o].at = "bulk_flip"
    /\ row' = [r \in Blocked |->
                 IF row[r].status = "pending" THEN job[o].answer ELSE row[r]]
    /\ job' = [job EXCEPT ![o].at = "bulk_wake"]
    /\ UNCHANGED <<waiters, chan, req, verdict, restarts>>

\* Wakes what was collected, one waiter at a time.
BulkWake(o) ==
    /\ job[o].at = "bulk_wake"
    /\ \/ \E r \in job[o].req :
            /\ Wake(o, r, Decision(ResolutionAllows(job[o].answer.target)))
            /\ job' = [job EXCEPT ![o].req = @ \ {r}]
       \/ /\ job[o].req = {}
          /\ job' = [job EXCEPT ![o] = Idle]
          /\ UNCHANGED <<waiters, chan>>
    /\ UNCHANGED <<row, req, verdict, restarts>>

-----------------------------------------------------------------------------
(* Failures *)

\* The proxy's memory goes, with the goroutines in it; the rows stay.
RestartProxy ==
    /\ restarts < MaxRestarts
    /\ restarts' = restarts + 1
    /\ waiters' = [waiters EXCEPT ![Proxy] = {}]
    /\ chan' = [r \in Blocked |-> Empty]
    /\ verdict' = [r \in Blocked |->
                     IF verdict[r] = "none" /\ req[r] # "idle" THEN "lost" ELSE verdict[r]]
    /\ req' = [r \in Blocked |-> IF req[r] = "idle" THEN "idle" ELSE "done"]
    /\ job' = [o \in Callers |-> IF Home[o] = Proxy THEN Idle ELSE job[o]]
    /\ UNCHANGED row

\* A caller in another process dies anywhere; in the proxy a caller gives up
\* when the UPDATE fails.
CallerStops(o) ==
    /\ job[o].at # "idle"
    /\ Home[o] # Proxy \/ job[o].at \in {"flip", "bulk_flip"}
    /\ job' = [job EXCEPT ![o] = Idle]
    /\ UNCHANGED <<row, waiters, chan, req, verdict, restarts>>

-----------------------------------------------------------------------------
PromptNext ==
    \/ \E r \in Blocked :
         \/ Register(r)
         \/ Insert(r)
         \/ InsertFails(r)
         \/ ReceiveWake(r)
         \/ Poll(r)
         \/ Timeout(r)
         \/ Cancel(r)
         \/ ForwardAllow(r)
    \/ \E o \in Operators :
         \/ \E r \in Blocked, kind \in SingleKinds : ReadPrompt(o, r, kind)
         \/ FlipPrompt(o)
         \/ WakePrompt(o)
    \/ \E o \in BulkOperators :
         \/ \E res \in BulkChoices : BulkCollect(o, res)
         \/ BulkFlip(o)
         \/ BulkWake(o)
    \/ \E o \in Callers : CallerStops(o)
    \/ RestartProxy

PromptSpec == PromptInit /\ [][PromptNext]_promptVars

\* The timer of a waiting request fires (time.NewTimer) and the forward ends
\* (Client.Timeout is at least one nanosecond and 30s by default).  Nothing is
\* assumed of clients, operators or SQLite.
Fairness == \A r \in Blocked : WF_promptVars(Timeout(r)) /\ WF_promptVars(ForwardAllow(r))

FairSpec == PromptSpec /\ Fairness

-----------------------------------------------------------------------------
(* What the prompt promises: see PromptPromise *)

Promise == INSTANCE PromptPromise
             WITH Requests <- Blocked, row <- row, verdict <- verdict, Absent <- Absent,
                  Pending <- Pending, Answers <- Answers, Permits <- Permits

\* The client is let through only on a recorded answer that permits it or on
\* the timeout's default; the first answer stays; a verdict is final.
KeepsPromise == Promise!Spec

\* handleSyncPromptDeny forwards a request only when the operator who answered
\* its row asked for it, whichever of the two paths brought the answer.
AllowIsPermitted ==
    \A r \in Blocked : verdict[r] = "allow" => Permits(row[r])

\* Its mirror image: a request that an answer denied was not permitted by it.
DenyIsMeant ==
    \A r \in Blocked : verdict[r] = "deny" => ~ Permits(row[r])

\* A decision that sits in a channel is the one recorded in the row, for the
\* poll would act on the row.
WokenAsRecorded ==
    \A r \in Blocked : chan[r] # Empty => chan[r] = Decision(Permits(row[r]))

\* Registering before inserting loses no answer: once an operator in the proxy's
\* own process has answered the row of a waiting request, the decision is in its
\* channel (the operator may still be between the UPDATE and the wake).
NoLostWake ==
    \A r \in Blocked :
      LET o == row[r].by IN
      (req[r] = "wait" /\ Answered(r) /\ o \in Operators /\ Home[o] = Proxy) =>
        chan[r] # Empty \/ (job[o].at = "wake" /\ r \in job[o].req)

\* The waiter map holds live goroutines only, after every way out of the wait.
NoWaiterLeak ==
    /\ \A r \in waiters[Proxy] : req[r] \in {"insert", "wait", "forward"}
    /\ \A p \in Processes \ {Proxy} : waiters[p] = {}

\* A row is inserted once; a goroutine has no verdict while it waits, and its
\* registration ends with a decision in the channel.
WaitsInOrder ==
    \A r \in Blocked :
      /\ req[r] \in {"idle", "insert"} => row[r] = Absent
      /\ req[r] \in {"idle", "insert", "wait"} => verdict[r] = "none"
      /\ req[r] \in {"insert", "wait"} => r \in waiters[Proxy] \/ chan[r] # Empty
      /\ chan[r] # Empty => Answered(r)

\* A caller carries one answer, its own, for one row, and records it before it
\* wakes anybody.
Carries(o) ==
    /\ job[o].at \in {"idle", "flip", "wake"}
    /\ job[o].at # "idle" =>
         /\ \E kind \in SingleKinds : job[o].answer = Answer(kind, o)
         /\ \E r \in Blocked : job[o].req = {r}
    /\ job[o].at = "wake" => \A r \in job[o].req : row[r] = job[o].answer

CarriesBulk(o) ==
    /\ job[o].at \in {"idle", "bulk_flip", "bulk_wake"}
    /\ job[o].at # "idle" =>
         \E res \in Resolutions : job[o].answer = BulkAnswer(res, o)

\* What the safety properties rest on: who may change what, and when.
Protocol ==
    /\ WaitsInOrder
    /\ \A o \in Operators : Carries(o)
    /\ \A o \in BulkOperators : CarriesBulk(o)

\* The inductive invariant of the safety theorems.
PromptInv ==
    /\ PromptTypeOK
    /\ Protocol
    /\ AllowIsPermitted
    /\ WokenAsRecorded
    /\ NoLostWake
    /\ NoWaiterLeak

\* Every bulk answer comes from a process other than the proxy, as it does with
\* the shipped commands: `kbounce prompts bulk-answer` and `kbounce mcp`.
BulkOutside == \A o \in BulkOperators : Home[o] # Proxy

\* ListWaitingSyncPrompts as a caller in process p sees it.
ListWaiting(p) == {r \in waiters[p] : row[r].status = "pending"}

\* The listing shows a blocked request that can still be answered.
ListingShowsBlocked ==
    \A r \in Blocked, p \in Processes :
      (req[r] = "wait" /\ row[r].status = "pending") => r \in ListWaiting(p)

\* Every blocked request comes back, whatever operators and SQLite do.
EveryWaitEnds == \A r \in Blocked : req[r] = "wait" ~> req[r] = "done"
=============================================================================
