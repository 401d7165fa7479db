--------------------------- MODULE WebhookPusher ---------------------------
(***************************************************************************)
(* The webhook of the audit manager: a bounded queue that Push never waits  *)
(* for, one worker that sends an event up to MaxAttempts times, counters    *)
(* that /healthz reads, and a Close that leaves the queue as it is.         *)
(*                                                                          *)
(* The collector is external: it may take an event and still answer with an *)
(* error, or late, so that the worker sends the event again.                *)
(***************************************************************************)
EXTENDS Naturals, Sequences, FiniteSets, SequencesExt

CONSTANTS
    WDepth,          \* places in the queue
    MaxAttempts,     \* sends of one event
    FailureLimit,    \* AuditExportConsecutiveFailureThreshold
    StaleAfter       \* AuditExportStaleSuccessThreshold

ASSUME WebhookAssumption == {WDepth, MaxAttempts, FailureLimit, StaleAfter} \subseteq Nat

VARIABLES
    wqueue,      \* events that wait; Marker is a synthetic AUDIT_DROPPED
    wjob,        \* what the worker sends, and how often it has tried
    wfull,       \* callers that found the queue full, before they go on
    wcount,      \* counters: delivered, dropped, failures in a row
    wok,         \* writesOK
    wsuccess,    \* time of the last success, Never if there was none
    wrun,        \* "up", "closing" once Close has begun, "stopped"
    collector,   \* what the collector has received, in this order
    wgiven,      \* events handed to Push
    wunbuilt,    \* events no request could be built for
    wlast        \* how the last delivery ended

wvars == <<wqueue, wjob, wfull, wcount, wok, wsuccess, wrun, collector, wgiven,
           wunbuilt, wlast>>

Marker == 0
Never == 0
NoJob == [event |-> Marker, tries |-> 0, busy |-> FALSE]

WInit ==
    /\ wqueue = <<>> /\ wjob = NoJob /\ wfull = {}
    /\ wcount = [total |-> 0, dropped |-> 0, row |-> 0]
    /\ wok = TRUE /\ wsuccess = Never
    /\ wrun = "up" /\ collector = <<>>
    /\ wgiven = {} /\ wunbuilt = {} /\ wlast = "none"

\* Push: into the queue, or the event is dropped.
WPush(e) ==
    /\ wgiven' = wgiven \cup {e}
    /\ IF Len(wqueue) < WDepth
         THEN wqueue' = Append(wqueue, e) /\ UNCHANGED <<wfull, wcount>>
         ELSE /\ wfull' = wfull \cup {e}
              /\ wcount' = [wcount EXCEPT !.dropped = @ + 1]
              /\ UNCHANGED wqueue
    /\ UNCHANGED <<wjob, wok, wsuccess, wrun, collector, wunbuilt, wlast>>

\* The rest of a Push that dropped its event: a marker, if there is room for one
\* by now, and the health it reports.
WOverflow(e) ==
    /\ e \in wfull
    /\ wfull' = wfull \ {e}
    /\ wqueue' = IF Len(wqueue) < WDepth THEN Append(wqueue, Marker) ELSE wqueue
    /\ wok' = FALSE
    /\ wcount' = [wcount EXCEPT !.row = @ + 1]
    /\ UNCHANGED <<wjob, wsuccess, wrun, collector, wgiven, wunbuilt, wlast>>

\* run: the next event.  A worker that finds both a closed channel and an event
\* may take either.
WTake ==
    /\ wrun # "stopped" /\ ~wjob.busy /\ wqueue # <<>>
    /\ wqueue' = Tail(wqueue)
    /\ wjob' = [event |-> Head(wqueue), tries |-> 0, busy |-> TRUE]
    /\ UNCHANGED <<wfull, wcount, wok, wsuccess, wrun, collector, wgiven, wunbuilt, wlast>>

\* deliver: BuildRequest refused the event; no counter moves.
WUnbuildable ==
    /\ wjob.busy /\ wjob.tries = 0
    /\ wjob' = NoJob
    /\ wunbuilt' = wunbuilt \cup {wjob.event}
    /\ wlast' = "unbuildable"
    /\ UNCHANGED <<wqueue, wfull, wcount, wok, wsuccess, wrun, collector, wgiven>>

\* sendOnce returned nil.
WDelivered(now) ==
    /\ wjob.busy
    /\ collector' = Append(collector, wjob.event)
    /\ wcount' = [total |-> wcount.total + 1, dropped |-> wcount.dropped, row |-> 0]
    /\ wok' = TRUE /\ wsuccess' = now
    /\ wlast' = "delivered"
    /\ wjob' = NoJob
    /\ UNCHANGED <<wqueue, wfull, wrun, wgiven, wunbuilt>>

WExhausted ==
    /\ wcount' = [total |-> wcount.total, dropped |-> wcount.dropped + 1, row |-> wcount.row + 1]
    /\ wok' = FALSE
    /\ wlast' = "exhausted"

WRetryLater ==
    IF wjob.tries + 1 < MaxAttempts
      THEN wjob' = NoJob /\ wqueue' = Append(wqueue, wjob.event)
           /\ UNCHANGED <<wcount, wok, wlast>>
      ELSE wjob' = NoJob /\ WExhausted /\ UNCHANGED wqueue

\* What happens to an event that was not acknowledged: once more, or never.
WRetry ==
    IF wjob.tries + 1 < MaxAttempts
      THEN wjob' = [wjob EXCEPT !.tries = @ + 1] /\ UNCHANGED <<wqueue, wcount, wok, wlast>>
      ELSE wjob' = NoJob /\ WExhausted /\ UNCHANGED wqueue

\* sendOnce returned an error; the collector may have the event all the same.
WFailed ==
    /\ wjob.busy
    /\ collector' \in {collector, Append(collector, wjob.event)}
    /\ WRetry
    /\ UNCHANGED <<wfull, wsuccess, wrun, wgiven, wunbuilt>>

\* Close, and the worker that finds the channel closed: before an attempt, in
\* the pause before the next one, or between two events.
WClose == wrun = "up" /\ wrun' = "closing"
          /\ UNCHANGED <<wqueue, wjob, wfull, wcount, wok, wsuccess, collector, wgiven,
                         wunbuilt, wlast>>
WAbandon ==
    /\ wrun = "closing" /\ wjob.busy
    /\ wjob' = NoJob /\ wlast' = "abandoned"
    /\ UNCHANGED <<wqueue, wfull, wcount, wok, wsuccess, wrun, collector, wgiven, wunbuilt>>
WStop == wrun = "closing" /\ ~wjob.busy /\ wrun' = "stopped"
         /\ UNCHANGED <<wqueue, wjob, wfull, wcount, wok, wsuccess, collector, wgiven,
                        wunbuilt, wlast>>

WNext(now) == \/ \E e \in wfull : WOverflow(e)
              \/ WTake \/ WUnbuildable \/ WDelivered(now) \/ WFailed
              \/ WAbandon \/ WStop

\* computeAuditExportHealth, the webhook's part of it.
WHealthy(now) ==
    /\ wok
    /\ wcount.row <= FailureLimit
    /\ wsuccess # Never => now - wsuccess <= StaleAfter
-----------------------------------------------------------------------------
\* Events that Push was given and that are not on their way any more.
WMissing == wgiven \ (ToSet(collector) \cup ToSet(wqueue) \cup
                      (IF wjob.busy THEN {wjob.event} ELSE {}))

\* A collector sees the events in the order they were pushed, each repeated at
\* most next to itself, whatever failed, was retried or came late (webhook.go:287).
CollectorInOrder ==
    \A i, j \in DOMAIN collector :
        (i < j /\ Marker \notin {collector[i], collector[j]}) => collector[i] <= collector[j]

\* As long as the webhook is up, an event that reached nobody was counted, or no
\* request could be built for it (webhook.go:226, 344).
WebhookLossIsCounted ==
    wrun = "up" => Cardinality(WMissing \ wunbuilt) <= wcount.dropped

\* A webhook whose last delivery was given up does not report good health, until
\* one succeeds (webhook.go:337).
GivingUpIsSeen(now) == wlast = "exhausted" => ~WHealthy(now)

\* "a synthetic AUDIT_DROPPED marker is enqueued in its place (so the consumer
\* sees the gap)" (webhook.go:203): an idle collector that misses events has
\* received a marker.
GapIsAnnounced ==
    wrun = "up" /\ wqueue = <<>> /\ ~wjob.busy /\ wfull = {} /\ WMissing \ wunbuilt # {} =>
        Marker \in ToSet(collector)
=============================================================================
