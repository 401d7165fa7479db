----------------------------- MODULE LogCommands -----------------------------
(***************************************************************************)
(* The commands that look after the files of the audit log while the proxy  *)
(* goes on writing them: `logs archive` lists the directory and copies one   *)
(* file after the other into a bundle, `logs verify` and `logs verify-chain` *)
(* read them, `logs purge` removes old archives, and `doctor logs` says      *)
(* whether the log is sound and recent.                                      *)
(*                                                                          *)
(* The commands know the active file by the name audit.jsonl; the proxy is   *)
(* started with any name and calls every archive audit-<second>.jsonl.gz.    *)
(* An archive is as old as the second in its name.                           *)
(***************************************************************************)
EXTENDS AuditLog

CONSTANTS
    Stem,       \* what the active file is called: "audit", or another name
    Day,        \* length of a day on the clock
    Asked,      \* durations given to `logs purge --older-than`
    MaxAge      \* what `doctor logs --max-age-days` allows, on the clock

ASSUME CommandsAssumption == Day \in Nat \ {0} /\ Asked \subseteq Nat /\ MaxAge \in Nat

VARIABLES
    bundle,     \* the archive command's progress
    wrote,      \* when the active file last grew
    early       \* whether a purge removed what it was not asked for

commands == <<bundle, wrote, early>>

NoBundle == [at |-> "none", todo |-> {}, sized |-> <<>>, got |-> <<>>, cut |-> FALSE,
             had |-> {}, calm |-> TRUE]

InitCommands == bundle = NoBundle /\ wrote = 0 /\ early = FALSE

\* gzipFile is in the middle of writing the archive of this second.
Compressing == worker = "renamed" /\ ~NameTaken

\* An empty active file may not be there, between a rename and the reopening.
Absent == fd = "closed" /\ ActiveLines = <<>>

\* The files a command finds that goes by the name audit.
Found(withActive) ==
    {DOMAIN archives \cup half \cup live :
       half \in IF Compressing THEN {{}, {stamp}} ELSE {{}},
       live \in IF Stem # "audit" \/ ~withActive THEN {{}}
                ELSE IF Absent THEN {{}, {Active}} ELSE {{Active}}}

\* What may be in a file when it is looked at; nothing is possible if it is gone.
Contents(f) ==
    IF f = Active THEN {ActiveLines}
    ELSE IF f \in DOMAIN archives THEN {archives[f]}
    ELSE IF Compressing /\ f = stamp THEN PartOf(rotating)
    ELSE {}
-----------------------------------------------------------------------------
\* ArchiveLogs lists the directory; it takes the names in their order.
ListFiles ==
    /\ bundle.at = "none"
    /\ \E withActive \in BOOLEAN : \E found \in Found(withActive) :
         bundle' = [at |-> "stat", todo |-> found, sized |-> <<>>, got |-> <<>>, cut |-> FALSE,
                    had |-> EventsOf(archives) \cup
                            (IF withActive THEN EventsOf([f \in {Active} |-> ActiveLines]) ELSE {}),
                    calm |-> ~Compressing /\ fd = "active"]

FirstToDo(f) == f \in bundle.todo /\ \A g \in bundle.todo : f <= g
Gone(f) == Contents(f) = {} \/ (f = Active /\ Absent)
Fails == bundle' = [bundle EXCEPT !.at = "failed"]

\* addFile looks at the file and announces its size.  A file that is gone by now
\* ends the command.
StatFile ==
    /\ bundle.at = "stat"
    /\ \E f \in bundle.todo :
         /\ FirstToDo(f)
         /\ \/ \E lines \in Contents(f) :
                 bundle' = [at |-> "copy", todo |-> bundle.todo, sized |-> lines, got |-> bundle.got,
                            cut |-> bundle.cut, had |-> bundle.had, calm |-> bundle.calm]
            \/ Gone(f) /\ Fails

\* It copies what the file has now.  More than was announced is an error.  Less is
\* one for the next file; after the last one nobody looks at the error of Close.
CopyFile ==
    /\ bundle.at = "copy"
    /\ \E f \in bundle.todo :
         LET rest == bundle.todo \ {f} IN
         /\ FirstToDo(f)
         /\ \/ \E lines \in Contents(f) :
                 LET less == Len(lines) < Len(bundle.sized)
                     more == Len(lines) > Len(bundle.sized)
                 IN  bundle' = [at    |-> IF more \/ (less /\ rest # {}) THEN "failed" ELSE "stat",
                                todo  |-> rest,
                                sized |-> bundle.sized,
                                got   |-> [g \in DOMAIN bundle.got \cup {f} |->
                                             IF g = f THEN lines ELSE bundle.got[g]],
                                cut   |-> less,
                                had   |-> bundle.had, calm |-> bundle.calm]
            \/ Gone(f) /\ Fails

EndBundle ==
    /\ bundle.at = "stat" /\ bundle.todo = {}
    /\ bundle' = [bundle EXCEPT !.at = "done"]

ArchiveLogs == ListFiles \/ StatFile \/ CopyFile \/ EndBundle

\* `logs purge` counts whole days, and at least one.
Days(asked) == LET d == asked \div Day IN IF d < 1 THEN 1 ELSE d

\* PurgeLogsOlderThan; its loop is one step, since the age of an archive that it
\* has listed does not change.
PurgeLogsOlderThan(asked) ==
    LET old_ == {s \in DOMAIN archives : s < now - Days(asked) * Day}
    IN  /\ old_ # {}
        /\ archives' = [s \in DOMAIN archives \ old_ |-> archives[s]]
        /\ mishaps' = [mishaps EXCEPT !.purged = TRUE]
        /\ early' = (early \/ \E s \in old_ : s >= now - asked)

\* What becomes of the commands' variables in a step of the log.
Watch ==
    /\ bundle' = [bundle EXCEPT
          !.calm = @ /\ ~(worker = "check" /\ worker' = "renamed")
                     /\ DOMAIN archives \subseteq DOMAIN archives']
    /\ wrote' = IF Len(active') > Len(active) THEN now ELSE wrote
    /\ UNCHANGED early

LogStep == Next /\ Watch

PurgeStep ==
    /\ \E asked \in Asked : PurgeLogsOlderThan(asked)
    /\ bundle' = [bundle EXCEPT !.calm = FALSE]
    /\ UNCHANGED <<wrote, clock, sent, queue, worker, fd, log, rotating, chain, counters,
                   cli, past>>

BundleStep == ArchiveLogs /\ UNCHANGED <<wrote, early, vars>>

NextCommands == LogStep \/ PurgeStep \/ BundleStep
-----------------------------------------------------------------------------
\* VerifyIntegrity: the files it finds fault with.  An archive has to be a whole
\* gzip file of JSON documents, glued or not, and the active file one document per
\* line, what follows its last newline aside.
FlawedActive == \E i \in DOMAIN active : active[i].kind = "bad" \/ active[i].glued
FlawedArchives == {s \in DOMAIN archives : Bad \in ToSet(archives[s])}
Failures == FlawedArchives
            \cup (IF Compressing THEN {stamp} ELSE {})
            \cup (IF Stem = "audit" /\ FlawedActive THEN {Active} ELSE {})

\* What `doctor logs` calls fresh: the newest archive is recent, or there is none
\* yet and an active file is.
Fresh == IF DOMAIN archives = {} THEN Stem = "audit" /\ ~Absent
         ELSE now - Max(DOMAIN archives) <= MaxAge

\* `doctor logs`, on a disk that is or is not critically full.
DoctorPasses(critical) == Failures = {} /\ Fresh /\ ~critical

\* The lines that `logs verify-chain` reads: given the name of a file, the archives
\* of its stem and the file; with --manifest, always those of audit.jsonl.
ScopedLines(withManifest) ==
    IF Stem = "audit" THEN Lines
    ELSE IF withManifest THEN archives ELSE [f \in {Active} |-> ActiveLines]

VerifyChainFile == ChainOK(ScopedLines(FALSE))
VerifyChainAndManifests == VerifyOK(ScopedLines(TRUE))
VerifyChain(withManifest) ==
    IF withManifest THEN VerifyChainAndManifests ELSE VerifyChainFile
-----------------------------------------------------------------------------
\* A bundle that was reported as written shows every event at most once and in
\* order, whatever was rotated or purged while it was copied; and if no rotation
\* and no purge fell into the copying, its last entry is whole, and it has all that a
\* reader saw when it was begun, for an active file that goes by the name that the
\* command looks for (rotation.go:280, tar.go:28).
BundlesAreSound ==
    bundle.at = "done" =>
        /\ \A p, q \in Chained(bundle.got) :
             Before(p, q) => EventAt(bundle.got, p) < EventAt(bundle.got, q)
        /\ bundle.calm => ~bundle.cut /\ (Stem = "audit" => bundle.had \subseteq EventsOf(bundle.got))

\* A chain that verifies is made of lines that `logs verify` accepts, unless an
\* archive is being written: of the two, verify-chain is the stricter, but for the
\* line that a crash left without its newline and the next row was glued to
\* (chain_verify.go:107, rotation.go:396).
StricterOfTwo ==
    ChainOK(Lines) =>
        \A f \in Failures : \/ f = Active /\ (\E i \in DOMAIN active : active[i].glued)
                            \/ Compressing /\ f = stamp

\* The same as the two are described: what verifies is well-formed.
VerifiedIsWellFormed == ChainOK(Lines) => Failures = {}

\* "truncates a corrupt trailing line to the previous newline" (rotation.go:14): after
\* a crash and a restart the log is well-formed again.
CrashesHeal == mishaps.faults = 0 /\ worker = "idle" => Failures = {}

\* "Bundle all audit files": a bundle reported as done has all that was there.
BundleIsWhole == bundle.at = "done" => bundle.had \subseteq EventsOf(bundle.got)

\* A bundle reported as done can be read to its end.
BundleIsReadable == bundle.at = "done" => ~bundle.cut

\* A running log can be bundled, the active file included.
BundlingSucceeds == bundle.at = "failed" => mishaps.purged

\* "Delete rotated archives older than DURATION": no younger ones.
PurgeTakesOnlyOlder == ~early

\* "passing --audit-log /logs/run1.jsonl only verifies run1-TIMESTAMP.jsonl.gz
\* archives" (chain_verify.go:333): a log of any name verifies, to which nothing happened.
AnyNameVerifies ==
    Undisturbed /\ cli.runs = 0 /\ worker = "idle" =>
        \A withManifest \in BOOLEAN : VerifyChain(withManifest)

\* The archives that were purged as they should be are no tampering.
PurgedLogVerifies ==
    mishaps.crashes = 0 /\ mishaps.faults = 0 /\ ~mishaps.collided /\ cli.runs = 0 => VerifyOK(Kept)

\* "the most recent rotated archive must be newer" (cli/logs.go:487): a log that is
\* called fresh was written not long ago.
FreshIsRecent == Fresh => now - wrote <= MaxAge

\* A log that was written not long ago, and to which nothing happened, passes.
RecentLogPasses ==
    Undisturbed /\ worker = "idle" /\ now - wrote <= MaxAge => DoctorPasses(FALSE)
=============================================================================
