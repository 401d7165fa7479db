-------------------------- MODULE SessionRecorder --------------------------
(***************************************************************************)
(* The recorder that writes each event to its session's file: appended to   *)
(* <session>.ndjson.partial, which gets its final name when the recorder    *)
(* stops, or when a later process finds it and no event came for a while.   *)
(* (FinaliseIdle, the third way, has no caller.)  The session commands, each *)
(* a process of its own, list, show and purge what there is.                *)
(*                                                                          *)
(* Files are kept by inode: an open session writes to the file it opened,   *)
(* whatever name that file has by now.                                      *)
(***************************************************************************)
EXTENDS Naturals, Sequences, SequencesExt

CONSTANTS
    Session,
    SessionOf(_),   \* the session of an event, NoSession if it names none
    NoSession,
    MaxFiles        \* bound on the files created

ASSUME RecorderAssumption == NoSession \notin Session /\ MaxFiles \in Nat

VARIABLES
    sstarted,    \* the flag Start sets and Stop clears
    sin,         \* callers of Record past that flag
    sopen,       \* the file each open session writes to, None if it is not open
    spartial,    \* the file each session's .partial names
    sfinal,      \* the file each session's .ndjson names
    sfile,       \* rows of every file, by inode
    sstop,       \* sessions Stop has still to finalise; Running before Stop
    srename,     \* sessions closed and not renamed yet
    swritten,    \* events this process has counted as recorded
    sbefore,     \* events that earlier processes had recorded
    sdropped,
    sold,        \* the recordings a purge has found old and will remove, by session
    spurged      \* history: what purges removed, [found, removed]

spurge == <<sold, spurged>>
svars == <<sstarted, sin, sopen, spartial, sfinal, sfile, sstop, srename, swritten,
           sbefore, sdropped, spurge>>

None == 0
Header == 0
Running == {NoSession}

SInit ==
    /\ sstarted = TRUE /\ sin = {} /\ sopen = [s \in Session |-> None]
    /\ spartial = [s \in Session |-> None] /\ sfinal = [s \in Session |-> None]
    /\ sfile = <<>> /\ sstop = Running /\ srename = {}
    /\ swritten = {} /\ sbefore = {} /\ sdropped = 0
    /\ sold = [s \in Session |-> None] /\ spurged = {}

\* Record, up to the lock.
SEnter(e) ==
    /\ IF ~sstarted THEN UNCHANGED <<sin, sdropped>>
       ELSE IF SessionOf(e) = NoSession
         THEN sdropped' = sdropped + 1 /\ UNCHANGED sin
         ELSE sin' = sin \cup {e} /\ UNCHANGED sdropped
    /\ UNCHANGED <<sstarted, sopen, spartial, sfinal, sfile, sstop, srename, swritten, sbefore, spurge>>

\* O_APPEND | O_CREATE: the file of that name, or a new one.
OpenAppending(s) ==
    IF spartial[s] # None
      THEN [inode |-> spartial[s], files |-> [sfile EXCEPT ![spartial[s]] = Append(@, Header)]]
      ELSE [inode |-> Len(sfile) + 1, files |-> Append(sfile, <<Header>>)]

\* writeEvent, under the mutex: the session is opened if it is not open.
SWrite(e) ==
    LET s == SessionOf(e)
    IN  /\ e \in sin
        /\ sin' = sin \ {e}
        /\ IF sopen[s] # None
             THEN /\ sfile' = [sfile EXCEPT ![sopen[s]] = Append(@, e)]
                  /\ UNCHANGED <<sopen, spartial>>
             ELSE LET f == OpenAppending(s)
                  IN  /\ f.inode <= MaxFiles
                      /\ sfile' = [f.files EXCEPT ![f.inode] = Append(@, e)]
                      /\ sopen' = [sopen EXCEPT ![s] = f.inode]
                      /\ spartial' = [spartial EXCEPT ![s] = f.inode]
        /\ swritten' = swritten \cup {e}
        /\ UNCHANGED <<sstarted, sfinal, sstop, srename, sbefore, sdropped, spurge>>

\* The file could not be opened or written: an error for the status, no count.
SWriteFails(e) ==
    /\ e \in sin
    /\ sin' = sin \ {e}
    /\ UNCHANGED <<sstarted, sopen, spartial, sfinal, sfile, sstop, srename, swritten,
                   sbefore, sdropped, spurge>>

\* Stop: the sessions there are now, one after the other.
SStop ==
    /\ sstarted /\ sstop = Running
    /\ sstop' = {s \in Session : sopen[s] # None}
    /\ UNCHANGED <<sstarted, sin, sopen, spartial, sfinal, sfile, srename, swritten,
                   sbefore, sdropped, spurge>>

\* finaliseSession, its critical section and the Close of the file.
SForget(s) ==
    /\ sstop # Running /\ s \in sstop /\ srename = {}
    /\ sstop' = sstop \ {s}
    /\ sopen' = [sopen EXCEPT ![s] = None]
    /\ srename' = IF sopen[s] # None THEN {s} ELSE {}
    /\ UNCHANGED <<sstarted, sin, spartial, sfinal, sfile, swritten, sbefore, sdropped, spurge>>

\* The file `.partial` names takes the final name from whatever had it.
Finalised(part, fin, S) ==
    /\ sfinal' = [s \in Session |-> IF s \in S /\ part[s] # None THEN part[s] ELSE fin[s]]
    /\ spartial' = [s \in Session |-> IF s \in S THEN None ELSE part[s]]

\* finaliseSession, its rename, or a rename that fails.
SRename(s) ==
    /\ s \in srename
    /\ srename' = {}
    /\ \/ Finalised(spartial, sfinal, {s})
       \/ UNCHANGED <<spartial, sfinal>>
    /\ UNCHANGED <<sstarted, sin, sopen, sfile, sstop, swritten, sbefore, sdropped, spurge>>

SStopped ==
    /\ sstarted /\ sstop = {} /\ srename = {}
    /\ sstarted' = FALSE
    /\ UNCHANGED <<sin, sopen, spartial, sfinal, sfile, sstop, srename, swritten,
                   sbefore, sdropped, spurge>>

SNext ==
    \/ \E e \in sin : SWrite(e) \/ SWriteFails(e)
    \/ \E s \in Session : SForget(s) \/ SRename(s)
    \/ SStopped

\* A new process: Start gives the .partial files nobody has written to for a
\* while their final names.
SRestart ==
    /\ \E S \in SUBSET {s \in Session : spartial[s] # None} : Finalised(spartial, sfinal, S)
    /\ sstarted' = TRUE /\ sin' = {} /\ sopen' = [s \in Session |-> None]
    /\ sstop' = Running /\ srename' = {}
    /\ swritten' = {} /\ sbefore' = sbefore \cup swritten /\ sdropped' = 0
    /\ UNCHANGED <<sfile, spurge>>

-----------------------------------------------------------------------------
(* session list, session show, session purge *)

\* PurgeOlderThan, of one recording: it has its final name and nobody wrote to it
\* for as long as the operator says.
SFindOld(s) ==
    /\ sfinal[s] # None /\ sold[s] = None
    /\ sold' = [sold EXCEPT ![s] = sfinal[s]]
    /\ UNCHANGED <<sstarted, sin, sopen, spartial, sfinal, sfile, sstop, srename, swritten,
                   sbefore, sdropped, spurged>>

\* The removal, of what has the name by then.
SRemove(s) ==
    /\ sold[s] # None
    /\ sold' = [sold EXCEPT ![s] = None]
    /\ spurged' = spurged \cup {[found |-> sold[s], removed |-> sfinal[s]]}
    /\ sfinal' = [sfinal EXCEPT ![s] = None]
    /\ UNCHANGED <<sstarted, sin, sopen, spartial, sfile, sstop, srename, swritten,
                   sbefore, sdropped>>

\* ListSessions: both names of a session.
Listing(s) == {sfinal[s], spartial[s]} \ {None}

\* ReadSession: the final name first.
ReadSession(s) == IF sfinal[s] # None THEN sfinal[s] ELSE spartial[s]

\* The rows after the first, which is the header.
ReadSessionFile(i) == IF i = None THEN <<>> ELSE Tail(sfile[i])
-----------------------------------------------------------------------------
RowsOf(files) == UNION {ToSet(ReadSessionFile(i)) : i \in files}
Recorded(s) == RowsOf(Listing(s))
Purged == RowsOf({x.removed : x \in spurged})

\* What a process counted as recorded is in a file of its session that is listed,
\* or in one that an operator purged, also when Record meets Stop between the
\* close of the file and its rename (recorder.go:369).
RunIsRecorded == \A e \in swritten : e \in Recorded(SessionOf(e)) \cup Purged

\* "Operator owns retention by default; this is the explicit cleanup surface"
\* (recorder.go:577): a recording of an earlier process stays until it is purged.
RecordingsStay == \A e \in sbefore : e \in Recorded(SessionOf(e)) \cup Purged

\* "Remove recordings older than a threshold" (cli/session.go:265): what gets the
\* name after it was found old is removed with it.
PurgeTakesOnlyOld == \A x \in spurged : x.removed = x.found

\* "Print a summary + event-count-by-type for one recording" (cli/session.go:165): of
\* a session that goes on after a restart, the older part.
ShowIsWhole ==
    \A s \in Session : Recorded(s) = RowsOf({ReadSession(s)} \ {None})

\* "List recorded sessions with event counts" (cli/session.go:117): the header that a
\* later process appends is counted.
CountsAreOfEvents ==
    \A s \in Session : \A i \in Listing(s) : Header \notin ToSet(ReadSessionFile(i))
=============================================================================
