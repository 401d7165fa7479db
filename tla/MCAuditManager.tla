--------------------------- MODULE MCAuditManager ---------------------------
(* What becomes of a decision: the channels of the audit manager, and the readers of
   the decisions table.  They have nothing in common but that each is told of every
   decision: a behaviour is of one of the two. *)
EXTENDS AuditManager, DecisionReaders

CONSTANTS Parts

VARIABLES part

-----------------------------------------------------------------------------
MCClassOf(e) == IF e = 3 THEN "admin" ELSE "api"
MCSessionOf(e) == CASE e = 2 -> "s2" [] e = 5 -> "none" [] OTHER -> "s1"

\* A route that pages on its event and ends the search, and one for all events.
MCRoutes == <<[events |-> {2}, stop |-> TRUE, dests |-> <<"pagerduty", "slack">>],
              [events |-> 1 .. 5, stop |-> FALSE, dests |-> <<"webhook">>]>>

OneByOne == {{}, {"webhook"}, {"routes", "webhook"}, {"lake"}, {"objects"}, {"recorder"}}
\* Two decisions that look alike, a deny, and a deny that is not enforced, of nobody.
Decided(call, verb, agent, session, ns, verdict, enforced) ==
    [call |-> call, verb |-> verb, agent |-> agent, session |-> session, ns |-> ns,
     verdict |-> verdict, enforced |-> enforced]
MCKindOf ==
    [q \in Request |->
       CASE q \in {1, 2} -> Decided("pods", "get", "claude", "s1", "prod", "allow", FALSE)
         [] q = 3 -> Decided("secrets", "get", "claude", "s1", "prod", "deny", TRUE)
         [] q = 4 -> Decided("pod", "delete", "", "", "dev", "deny", FALSE)]

Where(op, field, value) == [op |-> op, field |-> field, value |-> value]
MCFilters == {{}, {Where("=", "verdict", "DENY")},
              {Where(">=", "status", 2), Where("~", "operation", {"get", "list"})}}
LimitFilters == MCFilters \cup {{Where("~", "operation", {})}}
-----------------------------------------------------------------------------
\* The part a behaviour is not of stands still where it begins.
MCInit ==
    /\ part \in Parts /\ Init /\ ReadersInit
    /\ part = "channels" => channels # {} /\ reader = "none"
    /\ part = "readers" => channels = {}

MCNext ==
    \/ part = "channels" /\ Next /\ UNCHANGED <<part, readers>>
    \/ part = "readers" /\ ReadersNext /\ UNCHANGED <<part, vars>>

allvars == <<part, vars, readers>>

Still == part = "channels" /\ UNCHANGED <<part, readers>>

\* The fairness of AuditManager.  The readers owe nobody an answer.
MCSpec ==
    /\ MCInit /\ [][MCNext]_allvars
    /\ WF_allvars(Alive /\ Webhook /\ Still) /\ WF_allvars(Alive /\ Router /\ Still)
    /\ WF_allvars(Alive /\ Objects /\ Still) /\ WF_allvars(Alive /\ Lake /\ Still)
    /\ WF_allvars(Alive /\ Recorder /\ Still)
    /\ WF_allvars(stage # "up" /\ CloseStep /\ Still)
=============================================================================
