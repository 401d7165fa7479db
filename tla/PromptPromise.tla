---------------------------- MODULE PromptPromise ----------------------------
(***************************************************************************)
(* What a synchronous prompt promises, without goroutines, processes,       *)
(* channels or polls: a prompt is raised, is answered at most once, and the *)
(* request behind it gets one verdict, which no later answer changes.       *)
(***************************************************************************)
CONSTANT Requests

VARIABLES row, verdict

\* Parameters of the answers, with the meaning SyncPrompt gives them.
CONSTANTS Absent, Pending, Answers, Permits(_)

Raise(r) ==
    /\ row[r] = Absent
    /\ row' = [row EXCEPT ![r] = Pending]
    /\ UNCHANGED verdict

\* One answer, for one prompt or for several that are pending.
AnswerAll(S, answer) ==
    /\ \A r \in S : row[r] = Pending
    /\ row' = [r \in Requests |-> IF r \in S THEN answer ELSE row[r]]
    /\ UNCHANGED verdict

\* An answered prompt decides; an allow needs an answer that permits it.
ByAnswer(r, v) ==
    /\ row[r] \in Answers
    /\ v \in {"allow", "deny"}
    /\ v = "allow" => Permits(row[r])

Conclude(r, v) ==
    /\ verdict[r] = "none"
    /\ ByAnswer(r, v) \/ v \in {"timeout_allow", "timeout_deny",
                                "enqueue_failed", "cancelled"}
    /\ verdict' = [verdict EXCEPT ![r] = v]
    /\ UNCHANGED row

\* A restart takes requests that had no verdict.
Lose(S) ==
    /\ \A r \in S : verdict[r] = "none"
    /\ verdict' = [r \in Requests |-> IF r \in S THEN "lost" ELSE verdict[r]]
    /\ UNCHANGED row

Init ==
    /\ row = [r \in Requests |-> Absent]
    /\ verdict = [r \in Requests |-> "none"]

Next ==
    \/ \E r \in Requests : Raise(r)
    \/ \E S \in SUBSET Requests, answer \in Answers : AnswerAll(S, answer)
    \/ \E r \in Requests,
          v \in {"allow", "deny", "timeout_allow", "timeout_deny",
                 "enqueue_failed", "cancelled"} : Conclude(r, v)
    \/ \E S \in SUBSET Requests : Lose(S)

Spec == Init /\ [][Next]_<<row, verdict>>
=============================================================================
