---------------------------- MODULE AuditManager ----------------------------
(***************************************************************************)
(* The audit manager: every event goes to each channel that is configured,  *)
(* the routes instead of the webhook if there are any; the channels fail    *)
(* each for itself, and are closed one after the other.  The log channel is *)
(* AuditLog's.                                                              *)
(*                                                                          *)
(* The channels share nothing but the events and the order in which they    *)
(* are closed, so an instance may configure them one or two at a time.      *)
(***************************************************************************)
EXTENDS WebhookPusher, RoutesEngine, BucketWriters, SessionRecorder

CONSTANTS
    MaxEvents,    \* events of all processes
    MaxStarts,    \* processes, one after the other
    MaxTime,      \* readings of the clock
    Channels      \* the sets of channels an operator configures

ASSUME ManagerAssumption ==
    /\ {MaxEvents, MaxStarts, MaxTime} \subseteq Nat
    /\ \A c \in Channels : c \subseteq {"webhook", "routes", "lake", "objects", "recorder"}
    /\ \A e \in 1 .. MaxEvents : ClassOf(e) \in Class /\ SessionOf(e) \in Session \cup {NoSession}

VARIABLES
    channels,    \* what is configured
    stage,       \* "up", the channel that is being closed, "exited"
    total,       \* the manager's counter, the number of events so far
    first,       \* what it was when this process began
    starts, now

mvars == <<channels, stage, total, first, starts, now>>
vars == <<mvars, wvars, rvars, ovars, lvars, svars>>

Event == 1 .. MaxEvents
Init ==
    /\ channels \in Channels
    /\ stage = "up" /\ total = 0 /\ first = 0 /\ starts = 1 /\ now = 1
    /\ WInit /\ RInit /\ BInit(Event) /\ SInit

\* Emit: each channel gets the event, a closed one too.
Emit ==
    LET e == total + 1
    IN  /\ total < MaxEvents /\ stage # "exited"
        /\ total' = e
        /\ IF "routes" \in channels
             THEN RPush(e) /\ UNCHANGED wvars
             ELSE /\ UNCHANGED rvars
                  /\ IF "webhook" \in channels THEN WPush(e) ELSE UNCHANGED wvars
        /\ IF "lake" \in channels THEN LEnter(e) ELSE UNCHANGED lvars
        /\ IF "objects" \in channels THEN OEnter(e) ELSE UNCHANGED ovars
        /\ IF "recorder" \in channels THEN SEnter(e) ELSE UNCHANGED svars
        /\ UNCHANGED <<channels, stage, first, starts, now>>

\* Close returns from a channel when it is down, and an unconfigured one is.
Down(c) ==
    \/ c \notin channels
    \/ c = "webhook" /\ wrun = "stopped"
    \/ c = "routes" /\ rrun = "stopped"
    \/ c = "lake" /\ lstate = "closed"
    \/ c = "objects" /\ ostate = "closed"
    \/ c = "recorder" /\ ~sstarted

Begin(c) ==
    /\ IF c = "webhook" /\ c \in channels THEN WClose ELSE UNCHANGED wvars
    /\ IF c = "routes" /\ c \in channels THEN RClose ELSE UNCHANGED rvars
    /\ IF c = "lake" /\ c \in channels THEN LClose ELSE UNCHANGED lvars
    /\ IF c = "objects" /\ c \in channels THEN OClose ELSE UNCHANGED ovars
    /\ IF c = "recorder" /\ c \in channels THEN SStop ELSE UNCHANGED svars

\* The closer of buildAuditManager closes the routes, then the manager its
\* channels; closing the routes again returns at once.
CloseOrder == <<"routes", "webhook", "lake", "objects", "recorder">>

Close ==
    \/ stage = "up" /\ stage' = CloseOrder[1] /\ Begin(CloseOrder[1])
    \/ \E i \in 1 .. 4 : /\ stage = CloseOrder[i] /\ Down(stage)
                         /\ stage' = CloseOrder[i + 1] /\ Begin(CloseOrder[i + 1])
    \/ /\ stage = CloseOrder[5] /\ Down(stage)
       /\ stage' = "exited" /\ UNCHANGED <<wvars, rvars, ovars, lvars, svars>>
CloseStep == Close /\ UNCHANGED <<channels, total, first, starts, now>>

\* The process is killed.
Crash ==
    /\ stage # "exited" /\ stage' = "exited"
    /\ UNCHANGED <<channels, total, first, starts, now, wvars, rvars, ovars, lvars, svars>>

\* A new process.  What it finds of the old one are the recordings.
Restart ==
    /\ stage = "exited" /\ starts < MaxStarts /\ channels = {"recorder"}
    /\ stage' = "up" /\ starts' = starts + 1 /\ first' = total
    /\ SRestart
    /\ UNCHANGED <<channels, total, now, wvars, rvars, ovars, lvars>>

Tick ==
    /\ now < MaxTime /\ channels \cap {"webhook", "lake", "objects"} # {}
    /\ now' = now + 1
    /\ UNCHANGED <<channels, stage, total, first, starts, wvars, rvars, ovars, lvars, svars>>

Webhook == WNext(now) /\ UNCHANGED <<rvars, ovars, lvars, svars>>
Router == RNext /\ UNCHANGED <<wvars, ovars, lvars, svars>>
Objects == ONext(now) /\ UNCHANGED <<wvars, rvars, lvars, svars>>
Lake == LNext(now) /\ UNCHANGED <<wvars, rvars, ovars, svars>>
Recorder == SNext /\ UNCHANGED <<wvars, rvars, ovars, lvars>>

\* newSessionPurgeCmd, at any time.
Purge ==
    /\ \E s \in Session : SFindOld(s) \/ SRemove(s)
    /\ UNCHANGED <<mvars, wvars, rvars, ovars, lvars>>
Alive == stage # "exited" /\ UNCHANGED mvars

Next ==
    \/ Emit \/ CloseStep \/ Crash \/ Restart \/ Tick \/ Purge
    \/ Alive /\ (Webhook \/ Router \/ Objects \/ Lake \/ Recorder)

\* Every channel has goroutines of its own, and an upload or a send comes back:
\* each has a timeout.  A close that has begun goes on.
Spec ==
    /\ Init /\ [][Next]_vars
    /\ WF_vars(Alive /\ Webhook) /\ WF_vars(Alive /\ Router)
    /\ WF_vars(Alive /\ Objects) /\ WF_vars(Alive /\ Lake)
    /\ WF_vars(Alive /\ Recorder)
    /\ WF_vars(stage # "up" /\ CloseStep)
-----------------------------------------------------------------------------
TypeOK ==
    /\ stage \in {"up", "exited"} \cup ToSet(CloseOrder)
    /\ total \in 0 .. MaxEvents /\ now \in 1 .. MaxTime /\ starts \in 1 .. MaxStarts
    /\ Len(wqueue) <= WDepth /\ wjob.tries < MaxAttempts /\ wcount.total <= Len(collector)
    /\ Len(rqueue) <= RDepth /\ rdropped <= total
    /\ Len(obuf) <= MaxPending /\ Cardinality(Rows(lbuf)) <= MaxPending
    /\ sstop \subseteq Session \/ sstop = Running

Given == 1 .. total

\* The properties of the channels, for the events of this manager.
ObjectsHold == "objects" \in channels => ObjectsHoldOnce(Given \ odrops)
LakeKeeps == "lake" \in channels => LakeKeepsUntilStored(Given)
LakeKeepsAll == "lake" \in channels => LakeLosesNothing(Given)
FailedUploadsCounted == "objects" \in channels => FailedUploadIsCounted(Given)

\* A channel that fails costs what it says.  Of the webhook: what the collector has
\* is in order, what it misses was counted while the proxy runs, and an event
\* given up shows in the health report.  Of the routes: every destination that the
\* file names is tried for an event, whatever the others answered.
FailuresAreLocal ==
    CollectorInOrder /\ WebhookLossIsCounted /\ GivingUpIsSeen(now) /\ EveryRouteTried

\* What a channel counts as kept is where it says.  Of the two writers to buckets:
\* what they have not dropped to keep the buffer small is in the buffer, in one
\* object, or on its way there.  Of the recorder: what it counted is in a file of its
\* session, also when a record meets the close (recorder.go:369).
KeptIsThere == ObjectsHold /\ LakeKeeps /\ RunIsRecorded

\* A close that has begun comes to its end, whatever the channels are doing and
\* with sends and uploads that fail (manager.go:433).
CloseEnds == stage \in ToSet(CloseOrder) ~> stage = "exited"
=============================================================================
