------------------------------ MODULE AuditLog ------------------------------
(***************************************************************************)
(* The JSONL audit log.  Emitters put events on a bounded queue without     *)
(* waiting; one worker takes them off, stamps each with its place in a hash *)
(* chain, appends it to the active file, signs a manifest every few events  *)
(* and, when the file has grown, closes it, renames it, compresses it under *)
(* the name of the second and opens a new one.  An admin command of the CLI *)
(* appends to the same file from a process of its own.                      *)
(*                                                                          *)
(* A hash covers its predecessor's hash, so it is modelled by the sequence  *)
(* of events it covers; the sequence number is the length of that less one. *)
(* The clock does not go back.  Recovery of a partial tail is one step.     *)
(***************************************************************************)
EXTENDS Naturals, Sequences, FiniteSets, FiniteSetsExt, SequencesExt

CONSTANTS
    MaxEvents,     \* bound on the events submitted
    Depth,         \* capacity of the queue
    MaxRows,       \* rows beyond which the size trigger fires
    SaveEvery,     \* events between two saves of the chain's state
    Interval,      \* events between two signed manifests
    Seconds,       \* bound on the clock
    MaxCli,        \* bound on the admin commands
    MaxMishaps     \* bound on the crashes and the file operations that fail

ASSUME ConstantsAssumption ==
    /\ {MaxEvents, Depth, SaveEvery, Interval} \subseteq Nat \ {0}
    /\ {MaxRows, Seconds, MaxCli, MaxMishaps} \subseteq Nat

VARIABLES
    now,        \* the clock's second
    stamp,      \* the second a rotation under way has read
    sent,       \* number of the last event submitted
    queue,
    worker,     \* "idle", "check", "renamed", "zipped", "draining", "done" or "down"
    fd,         \* whether the worker's descriptor is open, and on the active file
    active,     \* complete lines of the active file
    tail,       \* what follows its last newline
    rotating,   \* lines of the .rotating file, NoFile if there is none
    archives,   \* lines of each archive, by the second in its name
    head,       \* the chain's last hash
    saved,      \* the hash in the state file, NoState if there is none
    unsaved,    \* events since the last save
    signed,     \* length of the chain at the signer's last manifest, 0 before
    manifests,  \* the heads signed
    counters,   \* what the process reports: dropped, failed, rotationFailures
    cli,        \* the file an admin command has open, and the commands begun
    mishaps,    \* crashes and failed operations so far, purges, colliding rotations, and
                \* whether a process began behind the chain's last hash
    taken,      \* number of the last event the worker took
    written,    \* events counted as written
    closed      \* number of the last event submitted before Close returned

clock == <<now, stamp>>
log   == <<active, tail>>
old   == <<rotating, archives>>
chain == <<head, saved, unsaved, signed, manifests>>
told  == <<counters, mishaps>>
past  == <<taken, written, closed>>
vars  == <<clock, sent, queue, worker, fd, log, old, chain, told, cli, past>>

Event   == 1 .. MaxEvents
NoState == <<0>>

\* Lines of the log: a stamped event, an event of the CLI, which has no chain
\* block, and a line that is no JSON.  A line may have a second document glued to
\* its first.
Row(hash) == [kind |-> "chained", hash |-> hash, glued |-> FALSE]
Bare      == [kind |-> "bare", hash |-> <<>>, glued |-> FALSE]
Bad       == [kind |-> "bad", hash |-> <<>>, glued |-> FALSE]
NoFile    == <<[kind |-> "no file", hash |-> <<>>, glued |-> FALSE]>>

\* What may follow the last newline: nothing, part of a line, or all of a line.
Clean == [state |-> "clean", line |-> Bad]
Torn  == [state |-> "torn", line |-> Bad]
Unterminated(line) == [state |-> "unterminated", line |-> line]

NoCounts == [dropped |-> 0, failed |-> 0, rotationFailures |-> 0]
Count(field) == counters' = [counters EXCEPT ![field] = @ + 1]

Fault == /\ mishaps.faults + mishaps.crashes < MaxMishaps
         /\ mishaps' = [mishaps EXCEPT !.faults = @ + 1]

Init ==
    /\ now = 0 /\ stamp = 0 /\ sent = 0 /\ queue = <<>>
    /\ worker = "idle" /\ fd = "active"
    /\ active = <<>> /\ tail = Clean /\ rotating = NoFile /\ archives = <<>>
    /\ head = <<>> /\ saved = NoState /\ unsaved = 0 /\ signed = 0 /\ manifests = {}
    /\ counters = NoCounts
    /\ mishaps = [crashes |-> 0, faults |-> 0, purged |-> FALSE, collided |-> FALSE,
                  forgot |-> FALSE]
    /\ cli = [file |-> "none", runs |-> 0]
    /\ taken = 0 /\ written = {} /\ closed = 0

\* What a line becomes on the file.  After part of a line it is not JSON; after
\* a whole one without a newline it is a second document that the verifier's
\* decoder, which takes the first, never sees.
Joined(line) == CASE tail.state = "clean" -> line
                  [] tail.state = "torn" -> Bad
                  [] tail.state = "unterminated" -> [tail.line EXCEPT !.glued = TRUE]

AppendLine(line) == active' = Append(active, Joined(line)) /\ tail' = Clean

\* The write ended early.
AppendPart ==
    /\ active' = active
    /\ tail' = IF tail.state = "unterminated" THEN Unterminated(Joined(Bad)) ELSE Torn
-----------------------------------------------------------------------------
\* LogWriter.Write.  The channel outlives the worker: an event of a late
\* emitter is accepted as long as there is room.
Submit ==
    /\ worker # "down" /\ sent < MaxEvents
    /\ sent' = sent + 1
    /\ IF Len(queue) < Depth
       THEN queue' = Append(queue, sent + 1) /\ UNCHANGED counters
       ELSE Count("dropped") /\ UNCHANGED queue
    /\ UNCHANGED <<clock, worker, fd, log, old, chain, mishaps, cli, past>>

\* The chain advances before the line is on the file, and every SaveEvery
\* events its state is saved.
Stamp(e) ==
    /\ head' = Append(head, e)
    /\ IF unsaved + 1 >= SaveEvery
       THEN unsaved' = 0 /\ saved' = head'
       ELSE unsaved' = unsaved + 1 /\ UNCHANGED saved

Sign ==
    IF Len(head') - signed >= Interval
    THEN signed' = Len(head') /\ manifests' = manifests \cup {head'}
    ELSE UNCHANGED <<signed, manifests>>

Take(e) ==
    /\ worker \in {"idle", "draining"} /\ queue # <<>>
    /\ e = Head(queue) /\ queue' = Tail(queue)
    /\ taken' = e
    /\ worker' = IF worker = "idle" THEN "check" ELSE worker

\* writeOne, to its end.
WriteRow ==
    \E e \in Event :
        /\ Take(e) /\ fd = "active" /\ Stamp(e)
        /\ AppendLine(Row(head'))
        /\ Sign
        /\ counters' = [counters EXCEPT !.failed = 0]
        /\ written' = written \cup {e}
        /\ UNCHANGED <<clock, sent, fd, old, mishaps, cli, closed>>

\* writeOne when the write fails, with some of the line on the file or none of
\* it, or when only the sync fails; a closed descriptor always fails.
WriteFails ==
    \E e \in Event :
        /\ Take(e) /\ Stamp(e)
        /\ \/ /\ fd = "active" /\ Fault
              /\ AppendPart \/ AppendLine(Row(head')) \/ UNCHANGED log
           \/ fd = "closed" /\ UNCHANGED <<log, mishaps>>
        /\ Count("failed")
        /\ UNCHANGED <<clock, sent, fd, old, signed, manifests, cli, written, closed>>

\* maybeRotate finds the file small.  Its age is that of its last write, which
\* was a moment ago.
KeepFile ==
    /\ worker = "check" /\ Len(active) <= MaxRows
    /\ worker' = "idle"
    /\ UNCHANGED <<clock, sent, queue, fd, log, old, chain, told, cli, past>>

RotateByCopy ==
    /\ worker = "check" /\ Len(active) > MaxRows
    /\ worker' = "renamed" /\ fd' = "closed" /\ stamp' = now
    /\ rotating' = active
    /\ UNCHANGED <<now, sent, queue, log, archives, chain, told, cli, past>>

\* Rotate, as far as the rename.  A .rotating file that is there is removed; a
\* descriptor that another process has open follows the file.
RotateRename ==
    /\ worker = "check" /\ Len(active) > MaxRows
    /\ worker' = "renamed" /\ fd' = "closed" /\ stamp' = now
    /\ rotating' = IF tail = Clean THEN active ELSE Append(active, tail.line)
    /\ active' = <<>> /\ tail' = Clean
    /\ cli' = [cli EXCEPT !.file = CASE @ = "active"   -> "rotating"
                                     [] @ = "rotating" -> "gone"
                                     [] OTHER          -> @]
    /\ UNCHANGED <<now, sent, queue, archives, chain, told, past>>

NameTaken == stamp \in DOMAIN archives
PutArchive(lines) == archives' = [s \in DOMAIN archives \cup {stamp} |->
                                    IF s = stamp THEN lines ELSE archives[s]]

\* What a copy that ended early leaves: some lines, and perhaps part of one.
PartOf(lines) == {SubSeq(lines, 1, k) \o rest :
                    k \in 0 .. Len(lines), rest \in {<<>>, <<Bad>>}}

\* gzipFile under the name of the second, then the original is removed.
RotateZip ==
    /\ worker = "renamed" /\ ~NameTaken
    /\ PutArchive(rotating) /\ rotating' = NoFile
    /\ cli' = [cli EXCEPT !.file = IF @ = "rotating" THEN "gone" ELSE @]
    /\ worker' = "zipped"
    /\ UNCHANGED <<clock, sent, queue, fd, log, chain, told, past>>

\* The name is taken already, by an earlier rotation of this second: the rows
\* stay in the .rotating file.
RotateCollides ==
    /\ worker = "renamed" /\ NameTaken
    /\ Count("rotationFailures") /\ mishaps' = [mishaps EXCEPT !.collided = TRUE]
    /\ worker' = "zipped"
    /\ UNCHANGED <<clock, sent, queue, fd, log, old, chain, cli, past>>

\* The copy fails half way and leaves part of an archive.
RotateZipFails ==
    /\ worker = "renamed" /\ ~NameTaken /\ Fault
    /\ \E lines \in PartOf(rotating) : PutArchive(lines)
    /\ Count("rotationFailures")
    /\ worker' = "zipped"
    /\ UNCHANGED <<clock, sent, queue, fd, log, rotating, chain, cli, past>>

\* The worker opens the active file anew, whatever became of the rotation.
Reopen ==
    /\ worker = "zipped"
    /\ worker' = "idle" /\ fd' = "active"
    /\ UNCHANGED <<clock, sent, queue, log, old, chain, told, cli, past>>

\* It cannot: maybeRotate returns nothing, and the worker keeps the closed one.
ReopenFails ==
    /\ worker = "zipped" /\ Fault
    /\ worker' = "idle"
    /\ UNCHANGED <<clock, sent, queue, fd, log, old, chain, counters, cli, past>>

\* Close: the worker drains the queue, rotating no more, and the state is saved.
BeginClose ==
    /\ worker = "idle"
    /\ worker' = "draining"
    /\ UNCHANGED <<clock, sent, queue, fd, log, old, chain, told, cli, past>>

CloseReturns ==
    /\ worker = "draining"
    /\ worker' = "done" /\ fd' = "closed" /\ closed' = sent
    /\ \/ saved' = head /\ UNCHANGED mishaps
       \/ Fault /\ UNCHANGED saved
    /\ UNCHANGED <<clock, sent, queue, log, old, head, unsaved, signed, manifests,
                   counters, cli, taken, written>>

EndCloseWithoutDrain == CloseReturns
EndClose == queue = <<>> /\ CloseReturns

\* The process ends after Close.
Exit ==
    /\ worker = "done"
    /\ worker' = "down" /\ queue' = <<>>
    /\ UNCHANGED <<clock, sent, fd, log, old, chain, told, cli, past>>

\* It dies in the middle of anything.
Die == /\ worker \in {"idle", "check", "renamed", "zipped", "draining"}
       /\ mishaps.faults + mishaps.crashes < MaxMishaps
       /\ mishaps' = [mishaps EXCEPT !.crashes = @ + 1]
       /\ worker' = "down" /\ fd' = "closed" /\ queue' = <<>>

Crash ==
    /\ Die
    /\ UNCHANGED <<clock, sent, log, old, chain, counters, cli, past>>

\* In a write: part of its line is on the file, or all of it but the newline,
\* and the chain's state may have been saved for it.
CrashInWrite ==
    /\ Die /\ queue # <<>> /\ fd = "active" /\ worker \in {"idle", "draining"}
    /\ taken' = Head(queue) /\ Stamp(taken')
    /\ \/ AppendPart
       \/ /\ tail' = Unterminated(Joined(Row(head')))
          /\ UNCHANGED active
    /\ UNCHANGED <<clock, sent, old, signed, manifests, counters, cli, written, closed>>

\* In a compression.
CrashInZip ==
    /\ Die /\ worker = "renamed" /\ ~NameTaken
    /\ \E lines \in PartOf(rotating) : PutArchive(lines)
    /\ UNCHANGED <<clock, sent, log, rotating, chain, counters, cli, past>>

\* RecoverPartialTail.  A tail that parses is taken for whole, newline or not,
\* and a file that has no newline is left as it is.
Parses    == tail.state = "unterminated" /\ tail.line.kind # "bad" /\ ~tail.line.glued
Recovered == IF Parses \/ active = <<>> THEN tail ELSE Clean

\* A new process: NewLogWriter on what is on disk, LoadChainState, and a signer
\* that knows of no manifest.
Start ==
    /\ worker = "down"
    /\ worker' = "idle" /\ fd' = "active"
    /\ tail' = Recovered
    /\ head' = (IF saved = NoState THEN <<>> ELSE saved)
    /\ unsaved' = 0 /\ signed' = 0
    /\ counters' = NoCounts /\ mishaps' = [mishaps EXCEPT !.forgot = @ \/ head' # head]
    /\ UNCHANGED <<clock, sent, queue, active, old, saved, manifests, cli, past>>

\* emitAdminAction of a CLI command: a LogWriter of its own, without a chain.
CliOpen ==
    /\ cli.file = "none" /\ cli.runs < MaxCli
    /\ cli' = [file |-> "active", runs |-> cli.runs + 1]
    /\ tail' = Recovered
    /\ UNCHANGED <<clock, sent, queue, worker, fd, active, old, chain, told, past>>

CliAppend ==
    /\ cli.file # "none"
    /\ CASE cli.file = "active"   -> AppendLine(Bare) /\ UNCHANGED rotating
         [] cli.file = "rotating" -> rotating' = Append(rotating, Bare) /\ UNCHANGED log
         [] cli.file = "gone"     -> UNCHANGED <<log, rotating>>
    /\ cli' = [cli EXCEPT !.file = "none"]
    /\ UNCHANGED <<clock, sent, queue, worker, fd, archives, chain, told, past>>

\* The oldest archive goes: `logs purge`, or the disk-pressure loop.
Purge ==
    /\ DOMAIN archives # {}
    /\ archives' = [s \in DOMAIN archives \ {Min(DOMAIN archives)} |-> archives[s]]
    /\ mishaps' = [mishaps EXCEPT !.purged = TRUE]
    /\ UNCHANGED <<clock, sent, queue, worker, fd, log, rotating, chain, counters, cli, past>>

Tick ==
    /\ now < Seconds
    /\ now' = now + 1
    /\ UNCHANGED <<stamp, sent, queue, worker, fd, log, old, chain, told, cli, past>>

WorkGivingUp ==
    \/ WriteRow
    \/ KeepFile \/ RotateRename \/ RotateZip \/ RotateCollides \/ RotateZipFails
    \/ Reopen \/ ReopenFails
    \/ EndClose

Work ==
    \/ WriteRow \/ WriteFails
    \/ KeepFile \/ RotateRename \/ RotateZip \/ RotateCollides \/ RotateZipFails
    \/ Reopen \/ ReopenFails
    \/ EndClose

Next ==
    \/ Submit \/ Work
    \/ BeginClose \/ Exit \/ Crash \/ CrashInWrite \/ CrashInZip \/ Start
    \/ CliOpen \/ CliAppend
    \/ Purge \/ Tick

\* The worker's goroutine waits for nobody but its channels.
Spec == Init /\ [][Next]_vars /\ WF_vars(Work)
-----------------------------------------------------------------------------
\* What a reader finds: the lines of each file, the files numbered in the order that
\* chainSourceFiles gives: the archives by name, the active file behind them.
Rotating == Seconds + 1
Active == Seconds + 2

ActiveLines == active \o (IF tail = Clean THEN <<>> ELSE <<tail.line>>)
Lines == [f \in DOMAIN archives \cup {Active} |-> IF f = Active THEN ActiveLines ELSE archives[f]]

\* What is on disk for good, a file that is being compressed included.
Kept == [f \in DOMAIN Lines \cup (IF worker = "renamed" THEN {Rotating} ELSE {}) |->
           IF f = Rotating THEN rotating ELSE Lines[f]]

Places(files) == UNION {{<<f, i>> : i \in DOMAIN files[f]} : f \in DOMAIN files}
Line(files, p) == files[p[1]][p[2]]
Before(p, q) == p[1] < q[1] \/ (p[1] = q[1] /\ p[2] < q[2])
Chained(files) == {p \in Places(files) : Line(files, p).kind = "chained"}

\* The place before q among some.
Precedes(p, q, places) == Before(p, q) /\ ~\E r \in places : Before(p, r) /\ Before(r, q)

ChainOKAnywhere(files) ==
    /\ Chained(files) = Places(files)
    /\ \A p, q \in Places(files) :
         Precedes(p, q, Places(files)) => Front(Line(files, q).hash) = Line(files, p).hash

\* VerifyChain finds nothing to say: every line is stamped, the first begins the chain,
\* and the others follow the line before them.
ChainOK(files) ==
    /\ Chained(files) = Places(files)
    /\ \A q \in Places(files) :
         IF \A p \in Places(files) : ~Before(p, q) THEN Front(Line(files, q).hash) = <<>>
         ELSE \E p \in Places(files) :
                Precedes(p, q, Places(files)) /\ Front(Line(files, q).hash) = Line(files, p).hash

\* A manifest is compared with the last stamped line if it ends there, and
\* refutes the log if it ends behind it; a log without lines is not compared.
ManifestOK(m, files) ==
    \A p \in Chained(files) :
        (\A q \in Chained(files) : ~Before(p, q)) =>
            LET last == Line(files, p).hash
            IN  Len(m) <= Len(last) /\ (Len(m) = Len(last) => m = last)

\* VerifyChainAndManifests, what `logs verify-chain --manifest` reports.
VerifyOK(files) == ChainOK(files) /\ \A m \in manifests : ManifestOK(m, files)

\* The proxy's events in files.
EventAt(files, p) == Last(Line(files, p).hash)
EventsOf(files) == {EventAt(files, p) : p \in Chained(files)}

\* Which of two events a reader of what is kept comes to first.
ReadBefore ==
    {de \in EventsOf(Kept) \X EventsOf(Kept) :
       \E p, q \in Chained(Kept) :
         Before(p, q) /\ de = <<EventAt(Kept, p), EventAt(Kept, q)>>}
-----------------------------------------------------------------------------
TypeOK ==
    /\ now \in 0 .. Seconds /\ stamp \in 0 .. now
    /\ sent \in 0 .. MaxEvents /\ taken \in 0 .. sent /\ closed \in 0 .. sent
    /\ queue \in Seq(Event) /\ Len(queue) <= Depth
    /\ worker \in {"idle", "check", "renamed", "zipped", "draining", "done", "down"}
    /\ fd \in {"active", "closed"}
    /\ tail.state \in {"clean", "torn", "unterminated"}
    /\ DOMAIN archives \subseteq 0 .. now
    /\ head \in Seq(Event) /\ saved \in Seq(Event) \cup {NoState}
    /\ unsaved \in 0 .. SaveEvery /\ signed \in Nat
    /\ \A m \in manifests : m \in Seq(Event)
    /\ DOMAIN counters = DOMAIN NoCounts
    /\ cli.file \in {"none", "active", "rotating", "gone"} /\ cli.runs \in 0 .. MaxCli
    /\ written \subseteq Event

\* The files implement the trail of AuditTrail: rotations, restarts, failed
\* writes, torn lines and purges may lose events, and never reorder, repeat or
\* bring back one (log.go, rotation.go).
Trail == INSTANCE AuditTrail
           WITH Events <- Event, shown <- EventsOf(Kept), order <- ReadBefore, last <- taken
KeepsOrder == Trail!Spec

\* As long as no operation failed, nothing crashed, nothing was purged and no two
\* rotations fell into one second, the log is whole, across rotations and
\* restarts: what was counted as written is there, so is all that was accepted
\* before Close returned, and the verifier agrees unless the CLI wrote to the
\* file (rotation.go:103, log.go:280, chain.go:332).
Undisturbed == mishaps.crashes = 0 /\ mishaps.faults = 0
               /\ ~mishaps.purged /\ ~mishaps.collided
WholeLog ==
    Undisturbed =>
        /\ written \subseteq EventsOf(Kept)
        /\ worker = "done" => \A i \in DOMAIN queue : queue[i] > closed
        /\ cli.runs = 0 => VerifyOK(Kept)

\* A verification that finds nothing to say is right about the events a signed
\* manifest covers: all of them are there.  Unless a process began with a state of the
\* chain that was not the last, after a crash or a save that failed, and with at least
\* one event left to look at (chain_verify.go:226, manifest.go:227).
VerifyIsHonest ==
    ~mishaps.forgot /\ Chained(Lines) # {} /\ VerifyOK(Lines) =>
        \A m \in manifests : ToSet(m) \subseteq EventsOf(Lines)

\* The same without the last reservation: a log that lost all its lines.
VerifyIsHonestOfEmpty ==
    ~mishaps.forgot /\ VerifyOK(Lines) =>
        \A m \in manifests : ToSet(m) \subseteq EventsOf(Lines)

\* The same without the first: a chain that began anew behind lines that are gone.
VerifyIsHonestOfRestarts ==
    Chained(Lines) # {} /\ VerifyOK(Lines) =>
        \A m \in manifests : ToSet(m) \subseteq EventsOf(Lines)

\* "point this at the same file the proxy daemon's --audit-log-path uses so all
\* events land in one stream" (cli/admin_action.go:52): a log to which nothing
\* happened but that verifies.
OneStreamVerifies == Undisturbed /\ written # {} => VerifyOK(Kept)

\* "Reuse stale `.rotating` if a previous rotation crashed mid-gzip"
\* (rotation.go:123): rows that were rotated out stay on disk until somebody
\* purges them.
RotatedRowsStay ==
    ~mishaps.purged /\ mishaps.faults = 0 /\ mishaps.crashes = 0 =>
        written \subseteq EventsOf(Kept) \cup EventsOf([f \in {Rotating} |-> rotating])

\* An event in the queue is taken from it, unless the process ends.
EveryEventIsTaken ==
    \A e \in Event : e \in ToSet(queue) ~> taken >= e \/ worker \in {"done", "down"}
=============================================================================
