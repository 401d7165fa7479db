--------------------------- MODULE BucketWriters ---------------------------
(***************************************************************************)
(* The two writers that collect events in memory and upload them: object    *)
(* storage, one buffer that a flush empties before it uploads, and Security *)
(* Lake, a batch per class that a flush keeps until the upload succeeded.   *)
(* A flush is called by the Write that fills a buffer, by a ticker when the *)
(* buffer is old enough, and by Close; several may be under way at a time,  *)
(* each between its lock and its upload.                                    *)
(*                                                                          *)
(* The bucket is external.  Object names carry milliseconds; two uploads of *)
(* one name are not modelled.                                               *)
(***************************************************************************)
EXTENDS Naturals, Sequences, FiniteSets, SequencesExt

CONSTANTS
    Class,        \* OCSF classes
    ClassOf(_),   \* the class of an event
    FlushAt,      \* rows that reach the size cap
    MaxPending,   \* maxPendingRows
    Rotation      \* age at which a buffer is uploaded

ASSUME BucketAssumption == {FlushAt, MaxPending, Rotation} \subseteq Nat

VARIABLES
    ostate,       \* "up", "closing", "closed"
    oin,          \* callers of Write past the check that it is started
    ocall,        \* callers about to flush: an event's Write, Ticker, Closer
    obuf, ofirst, \* the buffer, and when its first row came
    oflight,      \* uploads: by whom, which rows
    ostored,      \* for each event, the objects it is in
    odrops, oerror,
    lstate, lin, lcall, lbuf, lfirst, lflight, lstored, ldrops, lerror,
    loverlap      \* two uploads of one class were under way at a time

ovars == <<ostate, oin, ocall, obuf, ofirst, oflight, ostored, odrops, oerror>>
lvars == <<lstate, lin, lcall, lbuf, lfirst, lflight, lstored, ldrops, lerror, loverlap>>

Unset == 99
Writer(e) == <<"write", e>>
Ticker == <<"ticker", 0>>
Closer == <<"close", 0>>
Rows(b) == UNION {ToSet(b[c]) : c \in Class}

BInit(events) ==
    /\ ostate = "up" /\ oin = {} /\ ocall = {} /\ obuf = <<>> /\ ofirst = Unset
    /\ oflight = {} /\ ostored = [e \in events |-> 0] /\ odrops = {} /\ oerror = FALSE
    /\ lstate = "up" /\ lin = {} /\ lcall = {} /\ lbuf = [c \in Class |-> <<>>]
    /\ lfirst = [c \in Class |-> Unset] /\ lflight = {}
    /\ lstored = [e \in events |-> 0] /\ ldrops = {} /\ lerror = FALSE
    /\ loverlap = FALSE
-----------------------------------------------------------------------------
(* Object storage *)

\* Write looks whether the writer is started, and lets go of that lock.
OEnter(e) ==
    /\ oin' = IF ostate = "up" THEN oin \cup {e} ELSE oin
    /\ UNCHANGED <<ostate, ocall, obuf, ofirst, oflight, ostored, odrops, oerror>>

OWrite(e, now) ==
    /\ e \in oin
    /\ oin' = oin \ {e}
    /\ IF Len(obuf) >= MaxPending
         THEN odrops' = odrops \cup {e} /\ oerror' = TRUE /\ UNCHANGED <<obuf, ofirst, ocall>>
         ELSE /\ obuf' = Append(obuf, e)
              /\ ofirst' = IF ofirst = Unset THEN now ELSE ofirst
              /\ ocall' = IF Len(obuf') >= FlushAt THEN ocall \cup {Writer(e)} ELSE ocall
              /\ UNCHANGED <<odrops, oerror>>
    /\ UNCHANGED <<ostate, oflight, ostored>>

\* The ticker is one goroutine: it looks again when its flush has returned.
OOverdue(now) ==
    /\ ostate = "up" /\ ofirst # Unset /\ now - ofirst >= Rotation
    /\ Ticker \notin ocall /\ \A f \in oflight : f.by # Ticker
    /\ ocall' = ocall \cup {Ticker}
    /\ UNCHANGED <<ostate, oin, obuf, ofirst, oflight, ostored, odrops, oerror>>

OFlushResetting(a) ==
    /\ oflight' = IF obuf = <<>> THEN oflight ELSE oflight \cup {[by |-> a, rows |-> obuf]}
    /\ obuf' = <<>> /\ ofirst' = Unset

\* Flush, up to its unlock: the buffer is empty before anything is uploaded.
OFlush(a) ==
    /\ a \in ocall
    /\ ocall' = ocall \ {a}
    /\ OFlushResetting(a)
    /\ UNCHANGED <<ostate, oin, ostored, odrops, oerror>>

ORecordError == oerror' = TRUE

\* Flush, its upload.
OPut(f) ==
    /\ oflight' = oflight \ {f}
    /\ \/ /\ ostored' = [e \in DOMAIN ostored |->
                            ostored[e] + IF e \in ToSet(f.rows) THEN 1 ELSE 0]
          /\ UNCHANGED oerror
       \/ ORecordError /\ UNCHANGED ostored
    /\ UNCHANGED <<ostate, oin, ocall, obuf, ofirst, odrops>>

\* Close: no Write enters, the ticker is waited for, and one last flush.
OClose == ostate = "up" /\ ostate' = "closing"
          /\ UNCHANGED <<oin, ocall, obuf, ofirst, oflight, ostored, odrops, oerror>>
OLastFlush ==
    /\ ostate = "closing"
    /\ Ticker \notin ocall /\ \A f \in oflight : f.by # Ticker
    /\ ostate' = "flushing" /\ ocall' = ocall \cup {Closer}
    /\ UNCHANGED <<oin, obuf, ofirst, oflight, ostored, odrops, oerror>>
OClosed ==
    /\ ostate = "flushing" /\ Closer \notin ocall /\ \A f \in oflight : f.by # Closer
    /\ ostate' = "closed"
    /\ UNCHANGED <<oin, ocall, obuf, ofirst, oflight, ostored, odrops, oerror>>

ONext(now) ==
    \/ \E e \in oin : OWrite(e, now)
    \/ OOverdue(now)
    \/ \E a \in ocall : OFlush(a)
    \/ \E f \in oflight : OPut(f)
    \/ OLastFlush \/ OClosed
-----------------------------------------------------------------------------
(* Security Lake *)

LEnter(e) ==
    /\ lin' = IF lstate = "up" THEN lin \cup {e} ELSE lin
    /\ UNCHANGED <<lstate, lcall, lbuf, lfirst, lflight, lstored, ldrops, lerror, loverlap>>

\* The cap counts the rows of all classes; the class's own rows call the flush,
\* and every row behind the threshold calls another one.
LWrite(e, now) ==
    LET c == ClassOf(e)
    IN  /\ e \in lin
        /\ lin' = lin \ {e}
        /\ IF Cardinality(Rows(lbuf)) >= MaxPending
             THEN ldrops' = ldrops \cup {e} /\ lerror' = TRUE /\ UNCHANGED <<lbuf, lfirst, lcall>>
             ELSE /\ lbuf' = [lbuf EXCEPT ![c] = Append(@, e)]
                  /\ lfirst' = [lfirst EXCEPT ![c] = IF @ = Unset THEN now ELSE @]
                  /\ lcall' = IF Len(lbuf'[c]) >= FlushAt
                                THEN lcall \cup {[by |-> Writer(e), class |-> c]} ELSE lcall
                  /\ UNCHANGED <<ldrops, lerror>>
        /\ UNCHANGED <<lstate, lflight, lstored, loverlap>>

LBusy(a) == \E x \in lcall \cup lflight : x.by = a

\* A ticker that nobody has cancelled.
LOverdueUncancelled(now) ==
    LET overdue == {c \in Class : lfirst[c] # Unset /\ now - lfirst[c] >= Rotation}
    IN  /\ overdue # {} /\ ~LBusy(Ticker)
        /\ lcall' = lcall \cup {[by |-> Ticker, class |-> c] : c \in overdue}
        /\ UNCHANGED <<lstate, lin, lbuf, lfirst, lflight, lstored, ldrops, lerror, loverlap>>

\* The ticker, until Close has cancelled it.
LOverdue(now) == lstate = "up" /\ LOverdueUncancelled(now)

\* flushClass, up to its unlock: a copy of the batch, which stays where it is.
LFlush(x, now) ==
    /\ lcall' = lcall \ {x}
    /\ IF lbuf[x.class] = <<>>
         THEN /\ lfirst' = [lfirst EXCEPT ![x.class] = Unset]
              /\ UNCHANGED <<lflight, loverlap>>
         ELSE /\ lflight' = lflight \cup
                   {[by |-> x.by, class |-> x.class, rows |-> lbuf[x.class], at |-> now]}
              /\ loverlap' = (loverlap \/ \E f \in lflight : f.class = x.class)
              /\ UNCHANGED lfirst
    /\ UNCHANGED <<lstate, lin, lbuf, lstored, ldrops, lerror>>

LTrimAll(batch, sent) == <<>>

\* What an upload leaves of the batch: it takes as many rows as it sent, or all.
LTrim(batch, sent) ==
    IF Len(batch) <= Len(sent) THEN <<>> ELSE SubSeq(batch, Len(sent) + 1, Len(batch))

LFailed == UNCHANGED <<lbuf, lfirst>> /\ lerror' = TRUE

\* flushClass, its upload and the second lock.
LPut(f) ==
    /\ lflight' = lflight \ {f}
    /\ \/ /\ lstored' = [e \in DOMAIN lstored |->
                            lstored[e] + IF e \in ToSet(f.rows) THEN 1 ELSE 0]
          /\ lbuf' = [lbuf EXCEPT ![f.class] = LTrim(@, f.rows)]
          /\ lfirst' = [lfirst EXCEPT ![f.class] =
                            IF lbuf'[f.class] = <<>> THEN Unset ELSE f.at]
          /\ UNCHANGED lerror
       \/ LFailed /\ UNCHANGED lstored
    /\ UNCHANGED <<lstate, lin, lcall, ldrops, loverlap>>

LClose == lstate = "up" /\ lstate' = "closing"
          /\ UNCHANGED <<lin, lcall, lbuf, lfirst, lflight, lstored, ldrops, lerror, loverlap>>
\* FlushAll, over the classes there are.
LLastFlush ==
    /\ lstate = "closing" /\ ~LBusy(Ticker)
    /\ lstate' = "flushing"
    /\ lcall' = lcall \cup {[by |-> Closer, class |-> c] : c \in {d \in Class : lbuf[d] # <<>>}}
    /\ UNCHANGED <<lin, lbuf, lfirst, lflight, lstored, ldrops, lerror, loverlap>>
LClosed ==
    /\ lstate = "flushing" /\ ~LBusy(Closer)
    /\ lstate' = "closed"
    /\ UNCHANGED <<lin, lcall, lbuf, lfirst, lflight, lstored, ldrops, lerror, loverlap>>

LNext(now) ==
    \/ \E e \in lin : LWrite(e, now)
    \/ LOverdue(now)
    \/ \E x \in lcall : LFlush(x, now)
    \/ \E f \in lflight : LPut(f)
    \/ LLastFlush \/ LClosed
-----------------------------------------------------------------------------
InFlight(flights) == UNION {ToSet(f.rows) : f \in flights}

\* Object storage holds an event at most once, however many flushes run at a
\* time, and an event that it took and does not hold, or hold yet, has left an
\* error behind for the status (object_storage.go:462, 493).
ObjectsHoldOnce(given) ==
    \A e \in given : /\ ostored[e] <= 1
                     /\ ostored[e] = 1 => e \notin ToSet(obuf) \cup InFlight(oflight)
                     /\ ostate = "up" /\ ostored[e] = 0 /\ ~oerror =>
                            e \in oin \cup ToSet(obuf) \cup InFlight(oflight)

\* As long as no two uploads of a class overlap, Security Lake loses no row it
\* took, whatever uploads fail: the batch holds it until an object does
\* (security_lake.go:515).
LakeKeepsUntilStored(given) ==
    ~loverlap /\ lstate = "up" =>
        \A e \in given : lstored[e] = 0 => e \in lin \cup ldrops \cup Rows(lbuf)

\* The same without the reservation.
LakeLosesNothing(given) ==
    lstate = "up" => \A e \in given : lstored[e] = 0 => e \in lin \cup ldrops \cup Rows(lbuf)

\* "If the upload fails the rows are surfaced via the dropped counter +
\* last_error" (object_storage.go:462).
FailedUploadIsCounted(given) ==
    ostate = "up" => \A e \in given : ostored[e] = 0 =>
        e \in oin \cup odrops \cup ToSet(obuf) \cup InFlight(oflight)
=============================================================================
