---------------------------- MODULE RoutesEngine ----------------------------
(***************************************************************************)
(* The routing engine that takes the webhook's place: one queue, one worker *)
(* that sends an event to every destination of every route it matches, up   *)
(* to a route that says stop.  One failure is counted and nothing is tried  *)
(* twice.  Events are numbered in the order of their Push.                  *)
(***************************************************************************)
EXTENDS Naturals, Sequences, FiniteSetsExt, SequencesExt

CONSTANTS
    RDepth,      \* places in the queue
    Routes       \* the routes of the file, in order

ASSUME RoutesAssumption ==
    /\ RDepth \in Nat
    /\ \A i \in DOMAIN Routes : DOMAIN Routes[i] = {"events", "stop", "dests"}
    /\ DOMAIN Routes \subseteq Nat

VARIABLES
    rqueue, rjob, rdropped,
    rfailed,     \* per destination, how often it failed
    rtried,      \* what was sent to each destination, in order
    rtaken,      \* the events the worker took from the queue
    rgiven,      \* events handed to Push
    rrun

rvars == <<rqueue, rjob, rdropped, rfailed, rtried, rtaken, rgiven, rrun>>

\* A destination is one place in one route; the stats are kept by it.
PlacesIn(S) == UNION {{<<i, k>> : k \in DOMAIN Routes[i].dests} : i \in S}
Destination == PlacesIn(DOMAIN Routes)
Idling == [event |-> 0, left |-> {}]

RInit ==
    /\ rqueue = <<>> /\ rjob = Idling /\ rdropped = 0
    /\ rfailed = [d \in Destination |-> 0]
    /\ rtried = [d \in Destination |-> <<>>]
    /\ rtaken = {} /\ rgiven = {} /\ rrun = "up"

\* EvaluateMatch, the events a route's conditions accept.
EvaluateMatch(e, r) == e \in r.events

SelectRoutesPastStop(e) == {i \in DOMAIN Routes : EvaluateMatch(e, Routes[i])}

\* SelectRoutes: the routes that match, and none behind one that says stop.
SelectRoutes(e) ==
    LET hits == SelectRoutesPastStop(e)
        stops == {i \in hits : Routes[i].stop}
    IN  IF stops = {} THEN hits ELSE {i \in hits : i <= Min(stops)}

DestinationsOf(e) == PlacesIn(SelectRoutes(e))

\* The routes as they are listed, and each one's destinations as they are.
Before(c, d) == c[1] < d[1] \/ (c[1] = d[1] /\ c[2] < d[2])

RPush(e) ==
    /\ rgiven' = rgiven \cup {e}
    /\ IF Len(rqueue) < RDepth
         THEN rqueue' = Append(rqueue, e) /\ UNCHANGED rdropped
         ELSE rdropped' = rdropped + 1 /\ UNCHANGED rqueue
    /\ UNCHANGED <<rjob, rfailed, rtried, rtaken, rrun>>

RTake ==
    /\ rrun # "stopped" /\ rjob.left = {} /\ rqueue # <<>>
    /\ rqueue' = Tail(rqueue)
    /\ rjob' = [event |-> Head(rqueue), left |-> DestinationsOf(Head(rqueue))]
    /\ rtaken' = rtaken \cup {Head(rqueue)}
    /\ UNCHANGED <<rdropped, rfailed, rtried, rgiven, rrun>>

\* A destination answered with an error, or not at all.
RFailed(d) ==
    /\ rjob' = [rjob EXCEPT !.left = @ \ {d}]
    /\ rfailed' = [rfailed EXCEPT ![d] = @ + 1]

\* dispatch: the next destination.
RSend ==
    \E d \in rjob.left :
        /\ \A c \in rjob.left \ {d} : Before(d, c)
        /\ rtried' = [rtried EXCEPT ![d] = Append(@, rjob.event)]
        /\ \/ rjob' = [rjob EXCEPT !.left = @ \ {d}] /\ UNCHANGED rfailed
           \/ RFailed(d)
        /\ UNCHANGED <<rqueue, rdropped, rtaken, rgiven, rrun>>

RClose == rrun = "up" /\ rrun' = "closing"
          /\ UNCHANGED <<rqueue, rjob, rdropped, rfailed, rtried, rtaken, rgiven>>
\* run: the worker leaves with the queue as it is.
RStop == rrun = "closing" /\ rjob.left = {} /\ rrun' = "stopped"
         /\ UNCHANGED <<rqueue, rjob, rdropped, rfailed, rtried, rtaken, rgiven>>

RNext == RTake \/ RSend \/ RStop
-----------------------------------------------------------------------------
\* A destination has been tried once, in order, with the events that a reader
\* of the routes file expects there: those its route matches and no earlier
\* route stopped; another destination's failure changes nothing (routes.go:804).
Expected(d, e) ==
    /\ EvaluateMatch(e, Routes[d[1]])
    /\ \A i \in DOMAIN Routes :
         (i < d[1] /\ EvaluateMatch(e, Routes[i])) => ~Routes[i].stop
EveryRouteTried ==
    rjob.left = {} =>
        \A d \in Destination :
            /\ ToSet(rtried[d]) = {e \in rtaken : Expected(d, e)}
            /\ \A i, j \in DOMAIN rtried[d] : i < j => rtried[d][i] < rtried[d][j]

\* "Close drains the engine + waits for the worker to exit" (routes.go:940).
CloseDrains == rrun = "stopped" => \A e \in rgiven : e \in rtaken \/ rdropped > 0
=============================================================================
