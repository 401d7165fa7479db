------------------------------ MODULE StoreFile ------------------------------
(***************************************************************************)
(* The SQLite file of the store: processes that open it, bring its schema   *)
(* up to date, write, close and crash; a backup of it, and the restore that *)
(* puts a backup in its place.                                              *)
(*                                                                          *)
(* The file at the path is one of several inodes; what was committed since  *)
(* is in the write-ahead log beside the path, which the last process to     *)
(* close the file carries into it and removes, and which SQLite applies to  *)
(* whatever file it finds at the path.  Of the tables there are a rule, the *)
(* decisions (as in Decision) and the prompts that point to them.           *)
(***************************************************************************)
EXTENDS Integers, Sequences, FiniteSets, SequencesExt

CONSTANTS
    Openers,        \* the proxy, the MCP server, commands
    Proxy,          \* the one that /healthz tells of
    Columns,        \* added to decisions since the first version
    Includes,       \* what a backup may take along: sets of "audit", "prompts"
    MaxBorn,        \* decisions
    MaxCrashes, MaxOpens, MaxRestores

ConstantsAssumption == {MaxBorn, MaxCrashes, MaxOpens, MaxRestores} \subseteq Nat /\ Proxy \in Openers

VARIABLES
    inode,      \* files: what each holds
    path,       \* the one at the path, 0 if none is
    wal,        \* the log beside the path
    proc,       \* each process: where it is, the inode it has open
    backup,     \* the backup's file
    saver,      \* `kbounce backup`
    restorer,   \* `kbounce restore`
    born,       \* decisions so far
    crashes, opens, restores,
    disturbed,  \* a process had the file open while the restore replaced it
    failed      \* an Open failed

vars == <<inode, path, wal, proc, backup, saver, restorer, born, crashes, opens, restores,
          disturbed, failed>>
files == <<inode, path, wal>>
counters == <<crashes, opens, restores>>

\* Of the six keys, the two that a restore asks for.
MetaKeys == {"kbounce_version", "schema_version"}
Empty == [tables |-> {}, columns |-> {}, version |-> FALSE, rule |-> FALSE, log |-> <<>>,
          prompts |-> {}, meta |-> {}, mixed |-> FALSE]
NoWal == [of |-> 0, holds |-> Empty]
NoFile == [Empty EXCEPT !.mixed = TRUE]
Out == [at |-> "out", inode |-> 0, column |-> "none"]

\* What a reader of an inode sees.
Seen(i) ==
    IF wal = NoWal THEN inode[i]
    ELSE IF wal.of = i THEN wal.holds ELSE [wal.holds EXCEPT !.mixed = TRUE]

\* A commit goes to the log.
Commit(i, holds) == wal' = [of |-> i, holds |-> holds] /\ UNCHANGED <<inode, path>>

Connected == {o \in Openers : proc[o].at # "out"}

\* The last one to close carries the log into the file.
LastCloses(i) ==
    IF wal = NoWal THEN UNCHANGED <<inode, wal>>
    ELSE inode' = [inode EXCEPT ![i] = Seen(i)] /\ wal' = NoWal

Init ==
    /\ inode = <<>> /\ path = 0 /\ wal = NoWal
    /\ proc = [o \in Openers |-> Out]
    /\ backup = NoFile /\ saver = [at |-> "idle", by |-> Proxy, takes |-> {}]
    /\ restorer = [at |-> "idle", force |-> FALSE, rule |-> FALSE, holds |-> Empty]
    /\ born = 0 /\ crashes = 0 /\ opens = 0 /\ restores = 0 /\ disturbed = FALSE /\ failed = FALSE
-----------------------------------------------------------------------------
(* Open, and what the schema needs *)

Go(o, at) == proc' = [proc EXCEPT ![o].at = at]

Open(o) ==
    /\ proc[o].at = "out" /\ opens < MaxOpens /\ opens' = opens + 1
    /\ IF path = 0 THEN inode' = Append(inode, Empty) /\ path' = Len(inode')
       ELSE UNCHANGED <<inode, path>>
    /\ proc' = [proc EXCEPT ![o] = [at |-> "tables", inode |-> path', column |-> "none"]]
    /\ disturbed' = (disturbed \/ restorer.at \in {"copy", "rename", "report", "done"})
    /\ UNCHANGED <<wal, backup, saver, restorer, born, crashes, restores, failed>>

\* CREATE TABLE IF NOT EXISTS, each table with its first columns.
CreateTables(o) ==
    LET i == proc[o].inode
        db == Seen(i)
    IN  /\ proc[o].at = "tables" /\ Go(o, "columns")
        /\ Commit(i, [db EXCEPT !.tables = {"rules", "decisions", "prompts"}])
        /\ UNCHANGED <<backup, saver, restorer, born, counters, disturbed, failed>>

MissingByVersion(db) == IF db.version THEN {} ELSE Columns \ db.columns

\* addColumnIfMissing looks first.
Missing(db) == Columns \ db.columns

CheckColumn(o) ==
    /\ proc[o].at = "columns"
    /\ LET missing == Missing(Seen(proc[o].inode))
       IN IF missing = {} THEN Go(o, "stamp")
          ELSE \E c \in missing :
                 proc' = [proc EXCEPT ![o].at = "alter", ![o].column = c]
    /\ UNCHANGED <<files, backup, saver, restorer, born, counters, disturbed, failed>>

\* An Open that fails closes the file again.
Fail(o) ==
    /\ proc' = [proc EXCEPT ![o] = Out] /\ failed' = TRUE /\ UNCHANGED path
    /\ IF Connected = {o} THEN LastCloses(proc[o].inode) ELSE UNCHANGED <<inode, wal>>

AlterTable(o) ==
    LET i == proc[o].inode
        db == Seen(i)
    IN  /\ proc[o].at = "alter"
        /\ IF proc[o].column \in db.columns THEN Fail(o)
           ELSE /\ Go(o, "columns") /\ UNCHANGED failed
                /\ Commit(i, [db EXCEPT !.columns = @ \cup {proc[o].column}])
        /\ UNCHANGED <<backup, saver, restorer, born, counters, disturbed>>

ReadVersion(o) ==
    /\ proc[o].at = "stamp"
    /\ Go(o, IF Seen(proc[o].inode).version THEN "open" ELSE "insert")
    /\ UNCHANGED <<files, backup, saver, restorer, born, counters, disturbed, failed>>

InsertVersion(o) ==
    LET i == proc[o].inode
        db == Seen(i)
    IN  /\ proc[o].at = "insert"
        /\ IF db.version THEN Fail(o)
           ELSE Go(o, "open") /\ UNCHANGED failed /\ Commit(i, [db EXCEPT !.version = TRUE])
        /\ UNCHANGED <<backup, saver, restorer, born, counters, disturbed>>
-----------------------------------------------------------------------------
(* An open store *)

\* A decision, and the prompt that goes with a deny; a rule.
Write(o) ==
    LET i == proc[o].inode
        db == Seen(i)
    IN  /\ proc[o].at = "open"
        /\ \/ /\ born < MaxBorn /\ born' = born + 1
              /\ Commit(i, [db EXCEPT !.log = Append(@, born'),
                                      !.prompts = @ \cup {[row |-> Len(db.log) + 1, of |-> born']}])
           \/ /\ ~db.rule /\ UNCHANGED born
              /\ Commit(i, [db EXCEPT !.rule = TRUE])
        /\ UNCHANGED <<proc, backup, saver, restorer, counters, disturbed, failed>>

Close(o) ==
    /\ proc[o].at = "open" /\ (saver.at # "idle" => saver.by # o)
    /\ proc' = [proc EXCEPT ![o] = Out] /\ UNCHANGED path
    /\ IF Connected = {o} THEN LastCloses(proc[o].inode) ELSE UNCHANGED <<inode, wal>>
    /\ UNCHANGED <<backup, saver, restorer, born, counters, disturbed, failed>>

\* Nobody carries the log over; a backup stops where it was.
Crash(o) ==
    /\ proc[o].at # "out" /\ crashes < MaxCrashes /\ crashes' = crashes + 1
    /\ proc' = [proc EXCEPT ![o] = Out]
    /\ saver' = IF saver.by = o THEN [saver EXCEPT !.at = "idle"] ELSE saver
    /\ UNCHANGED <<files, backup, restorer, born, opens, restores, disturbed, failed>>
-----------------------------------------------------------------------------
(* Backup *)

Save(at) == saver' = [saver EXCEPT !.at = at]

\* VACUUM INTO a new file: all that was committed, and the metadata of the backup
\* that the store was itself restored from.
StartBackup(o) ==
    /\ proc[o].at = "open" /\ saver.at = "idle" /\ restorer.at = "idle"
    /\ \E takes \in Includes : saver' = [at |-> "drop", by |-> o, takes |-> takes]
    /\ backup' = Seen(proc[o].inode)
    /\ UNCHANGED <<files, proc, restorer, born, counters, disturbed, failed>>

Stripped(db, takes) ==
    [db EXCEPT !.tables = @ \ ((IF "audit" \in takes THEN {} ELSE {"decisions"})
                               \cup (IF "prompts" \in takes THEN {} ELSE {"prompts"})),
               !.log = IF "audit" \in takes THEN @ ELSE <<>>,
               !.columns = IF "audit" \in takes THEN @ ELSE {},
               !.prompts = IF "prompts" \in takes THEN @ ELSE {}]

DropExcluded ==
    /\ saver.at = "drop" /\ Save("meta")
    /\ backup' = Stripped(backup, saver.takes)
    /\ UNCHANGED <<files, proc, restorer, born, counters, disturbed, failed>>

\* One INSERT for each key, in any order.
WriteMeta ==
    /\ saver.at = "meta"
    /\ IF backup.meta = MetaKeys THEN Save("idle") /\ UNCHANGED backup
       ELSE /\ UNCHANGED saver
            /\ \E k \in MetaKeys \ backup.meta : backup' = [backup EXCEPT !.meta = @ \cup {k}]
    /\ UNCHANGED <<files, proc, restorer, born, counters, disturbed, failed>>

\* A statement fails: the file goes.
BackupFails ==
    /\ saver.at \in {"drop", "meta"} /\ crashes < MaxCrashes /\ crashes' = crashes + 1
    /\ Save("idle") /\ backup' = NoFile
    /\ UNCHANGED <<files, proc, restorer, born, opens, restores, disturbed, failed>>
-----------------------------------------------------------------------------
(* Restore *)

Step(at) == restorer' = [restorer EXCEPT !.at = at]

\* What the metadata must say; --force passes over a version, and over a
\* destination that has rules.
Accepted(force) == "schema_version" \in backup.meta /\ (force \/ "kbounce_version" \in backup.meta)

Probe ==
    /\ restorer.at = "idle" /\ restores < MaxRestores /\ restores' = restores + 1
    /\ proc[Proxy].at = "out" /\ backup # NoFile
    /\ disturbed' = FALSE
    /\ \E force \in BOOLEAN :
         restorer' = [restorer EXCEPT !.at = IF Accepted(force) THEN "inspect" ELSE "idle",
                                      !.force = force, !.holds = backup]
    /\ UNCHANGED <<files, proc, backup, saver, born, crashes, opens, failed>>

InspectNothing ==
    /\ restorer.at = "inspect" /\ Step("copy") /\ disturbed' = (Connected # {})
    /\ UNCHANGED <<files, proc, backup, saver, born, counters, failed>>

\* destRuleTaskCounts opens the destination and closes it: with nobody else there
\* the log of a process that crashed is carried over and gone.
Inspect ==
    /\ restorer.at = "inspect"
    /\ disturbed' = (Connected # {}) /\ UNCHANGED path
    /\ IF path = 0 THEN Step("copy") /\ UNCHANGED <<inode, wal>>
       ELSE /\ IF Seen(path).rule /\ ~restorer.force THEN Step("idle") ELSE Step("copy")
            /\ IF Connected = {} THEN LastCloses(path) ELSE UNCHANGED <<inode, wal>>
    /\ UNCHANGED <<proc, backup, saver, born, counters, failed>>

\* copyFile to a name beside the destination: what the backup is by then, if it
\* is there.
Copy ==
    /\ restorer.at = "copy"
    /\ restorer' = [restorer EXCEPT !.at = IF backup = NoFile THEN "idle" ELSE "rename",
                                   !.holds = backup]
    /\ UNCHANGED <<files, proc, backup, saver, born, counters, disturbed, failed>>

Rename ==
    /\ restorer.at = "rename" /\ Step("report")
    /\ inode' = Append(inode, restorer.holds) /\ path' = Len(inode')
    /\ UNCHANGED <<wal, proc, backup, saver, born, counters, disturbed, failed>>

\* The counts that are reported are read through SQLite.
Report ==
    /\ restorer.at = "report"
    /\ restorer' = [restorer EXCEPT !.at = "done", !.rule = Seen(path).rule]
    /\ IF Connected = {} THEN LastCloses(path) ELSE UNCHANGED <<inode, wal>>
    /\ UNCHANGED <<path, proc, backup, saver, born, counters, disturbed, failed>>

RestoreEnds ==
    /\ restorer.at = "done" /\ Step("idle")
    /\ UNCHANGED <<files, proc, backup, saver, born, counters, disturbed, failed>>

RestoreStops ==
    /\ restorer.at \in {"copy", "rename", "report"}
    /\ crashes < MaxCrashes /\ crashes' = crashes + 1 /\ Step("idle")
    /\ UNCHANGED <<files, proc, backup, saver, born, opens, restores, disturbed, failed>>

Next ==
    \/ \E o \in Openers :
         \/ Open(o) \/ CreateTables(o) \/ CheckColumn(o) \/ AlterTable(o) \/ ReadVersion(o)
         \/ InsertVersion(o) \/ Write(o) \/ Close(o) \/ Crash(o) \/ StartBackup(o)
    \/ DropExcluded \/ WriteMeta \/ BackupFails
    \/ Probe \/ Inspect \/ Copy \/ Rename \/ Report \/ RestoreEnds \/ RestoreStops

Rest ==
    /\ proc = [o \in Openers |-> Out] /\ saver.at = "idle" /\ restorer.at = "idle"
    /\ opens = MaxOpens /\ restores = MaxRestores

Spec == Init /\ [][Next]_vars
-----------------------------------------------------------------------------
TypeOK ==
    /\ path \in 0 .. Len(inode) /\ wal.of \in 0 .. Len(inode)
    /\ \A o \in Openers : proc[o].inode \in 0 .. Len(inode)
    /\ backup.meta \subseteq MetaKeys

\* A process that has opened the store finds every table and column, however it
\* came about: whatever process crashed half-way through the schema, and whatever
\* tables a backup left out that was then restored.
OpenedIsCurrent ==
    \A o \in Openers : proc[o].at = "open" =>
        LET db == Seen(proc[o].inode)
        IN  db.version /\ db.columns = Columns /\ db.tables = {"rules", "decisions", "prompts"}

\* A restore that reports success has put the whole of the backup in place and
\* nothing of what was there before, not what a crashed process had committed
\* either; and what it counted is what the backup holds.
RestoredIsBackup ==
    (restorer.at = "done" /\ ~disturbed) =>
        /\ Seen(path) = restorer.holds /\ wal = NoWal
        /\ restorer.rule = restorer.holds.rule
-----------------------------------------------------------------------------
(* What the code does not do: MCProfilesFileLimits.cfg *)

\* "Safe to call on an existing database" (store.go:202): two processes that bring
\* the schema up to date at once get in each other's way.
OpenSucceeds == ~failed

\* A backup that was cut short is not restored: one of a restored store carries its
\* metadata from the first moment on.
UnfinishedIsRefused ==
    restorer.at = "done" => restorer.holds = Stripped(restorer.holds, saver.takes)

\* RestoredIsBackup of a restore that another process looks on.
RestoredWhoeverLooks ==
    restorer.at = "done" => ~Seen(path).mixed

\* A prompt of a restored file points to the decision that it was raised for.
PromptsPointHome ==
    path # 0 => \A p \in Seen(path).prompts :
        p.row \in DOMAIN Seen(path).log => Seen(path).log[p.row] = p.of
=============================================================================
