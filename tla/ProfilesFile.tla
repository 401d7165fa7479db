---------------------------- MODULE ProfilesFile ----------------------------
(***************************************************************************)
(* profiles.yaml and the commands that write it: an answered prompt, an     *)
(* allow of the CLI or of an agent, a saved recommendation, an installed    *)
(* bundle, an imported configuration, the shipped defaults and the doctor.  *)
(* Each is a process of its own.  It loads the file, changes a profile in   *)
(* memory, reads the file once more and renames a new one over it; there is *)
(* no lock.  `config import` also empties and refills the rules table.      *)
(*                                                                          *)
(* Of a profile only what tells a loss is kept: where it came from, the     *)
(* allow rules added by commands, and the deny floor the doctor restores.   *)
(***************************************************************************)
EXTENDS Naturals, FiniteSets

CONSTANTS
    Cmd,          \* the commands
    Shipped,      \* the profile the defaults come with
    Named,        \* names an operator or a bundle may choose
    FullUser,     \* the profile that is always there
    Row,          \* rows of the rules table
    Kinds         \* the kinds of command there are

ASSUME ConstantsAssumption ==
    /\ Shipped # FullUser /\ {Shipped, FullUser} \cap Named = {}
    /\ "no file" \notin Named \cup {Shipped, FullUser}
    /\ IsFiniteSet(Cmd) /\ {"pending", "ignored"} \cap Cmd = {}

VARIABLES
    file,      \* profiles by name, NoFile if there is none
    version,   \* number of the inode that the path names
    job,       \* what each command is doing
    prompt,    \* "pending", or who answered it
    queue,     \* requests of agents that wait for an operator
    rows,      \* the rules table
    bundle,    \* the configuration that was exported
    wrote,     \* commands that put their profile into place
    owed,      \* what was applied, and not overwritten on purpose since
    alone      \* no two commands have overlapped so far

vars == <<file, version, job, prompt, queue, rows, bundle, wrote, owed, alone>>
rest == <<prompt, queue, rows, bundle>>

Name == {Shipped, FullUser} \cup Named
NoFile == [n \in {"no file"} |-> "absent"]
NoBundle == [profiles |-> NoFile, rows |-> {}]

Profile(source, allows, floor) == [source |-> source, allows |-> allows, floor |-> floor]
Fresh(c) == Profile("local", {c}, FALSE)
Defaults == [n \in {FullUser, Shipped} |-> Profile("local", {}, n = Shipped)]

\* What `f` and `g` have, and what f says where both have a name; and f with p as n.
Over(f, g) == [n \in DOMAIN f \cup DOMAIN g |-> IF n \in DOMAIN f THEN f[n] ELSE g[n]]
With(f, n, p) == [m \in DOMAIN f \cup {n} |-> IF m = n THEN p ELSE f[m]]

\* LoadProfiles: the defaults if there is no file, and FullUser in any case.
Loaded(f) == IF f = NoFile THEN Defaults
             ELSE Over(f, [n \in {FullUser} |-> Profile("local", {}, FALSE)])
\* What a writer merges into: what is on disk, and nothing else.
OnDisk(f) == IF f = NoFile THEN <<>> ELSE f

Idle == [step |-> "new", kind |-> "none", name |-> FullUser, flag |-> FALSE,
         mem |-> Profile("local", {}, FALSE), snap |-> <<>>, seen |-> 0, todo |-> {}]

Init ==
    /\ file \in {NoFile, Defaults,
                 Over(Defaults, [n \in Named |-> Profile("org", {}, TRUE)]),
                 [n \in {FullUser, Shipped} |-> Profile("local", {}, FALSE)]}
    /\ version = 0
    /\ job = [c \in Cmd |-> Idle]
    /\ prompt = "pending" /\ queue = {}
    /\ rows = Row /\ bundle = NoBundle
    /\ wrote = {} /\ owed = {} /\ alone = TRUE

Steps == {"new", "load", "drop", "insert", "snapshot", "rename", "create", "fill",
          "record", "done"}
Upserts == {"answer", "allow", "agent", "save"}
Running(c) == job[c].step \notin {"new", "done"}

Goto(c, step) == job' = [job EXCEPT ![c].step = step]
Refuse(c) == Goto(c, "done") /\ UNCHANGED <<file, version, rest, wrote, owed, alone>>

\* A new inode takes the path's place; rules that go with it on purpose are no
\* longer owed.
Replace(f, dropped) ==
    /\ file' = f /\ version' = version + 1
    /\ owed' = {o \in owed : o[1] \notin dropped}

\* A command begins: it has read its flags, and its process knows which profile it
\* is about.  `flag` is --force of an install or of the defaults, --replace of an
\* import, and the self-grant setting of an agent's request.
Start(c, kind, n, flag) ==
    /\ job[c].step = "new" /\ kind \in Kinds
    /\ job' = [job EXCEPT ![c] = [Idle EXCEPT !.step = "load", !.kind = kind, !.name = n,
                                             !.flag = flag, !.seen = version]]
    /\ alone' = (alone /\ \A d \in Cmd : ~Running(d))
    /\ UNCHANGED <<file, version, rest, wrote, owed>>

\* `prompts answer --save-to-profile`, of a prompt that it finds unanswered.
BeginAnswer(c) == prompt = "pending" /\ \E n \in Name : Start(c, "answer", n, FALSE)

\* `profile allow`.
BeginAllow(c) == \E n \in Name : Start(c, "allow", n, FALSE)

\* The MCP tool that asks for an allow rule.
BeginAgent(c) == \E n \in Name, selfGrant \in BOOLEAN : Start(c, "agent", n, selfGrant)

\* `recommend --save-as`.
BeginSave(c) == \E n \in Named : Start(c, "save", n, FALSE)

\* `profile install`.
BeginInstall(c) ==
    \E n \in Named \cup {Shipped}, force \in BOOLEAN : Start(c, "install", n, force)

\* `config import`.
BeginImport(c) == bundle # NoBundle /\ \E replace \in BOOLEAN : Start(c, "import", Shipped, replace)

\* `run`, and `profile install-defaults`.
BeginDefaults(c) == \E force \in BOOLEAN : Start(c, "defaults", Shipped, force)

\* `profile doctor --apply`.
BeginDoctor(c) == Start(c, "doctor", Shipped, FALSE)

InMemory(c, p) == job' = [job EXCEPT ![c].step = "snapshot", ![c].mem = p]

LoadProfileUnchecked(c) ==
    LET all == Loaded(file)
        n == job[c].name
    IN  /\ job[c].step = "load" /\ job[c].kind \in {"answer", "allow", "agent"}
        /\ n \in DOMAIN all /\ (job[c].kind = "agent" => job[c].flag)
        /\ InMemory(c, [all[n] EXCEPT !.allows = @ \cup {c}])
        /\ UNCHANGED <<file, version, rest, wrote, owed, alone>>

\* appendPromptToProfile and AddProfileAllowRule, up to their call of
\* UpsertProfile.
LoadProfile(c) ==
    LET all == Loaded(file)
        n == job[c].name
    IN  /\ job[c].step = "load" /\ job[c].kind \in {"answer", "allow", "agent"}
        /\ IF n \notin DOMAIN all \/ (n \in DOMAIN all /\ all[n].source = "org")
           THEN Refuse(c)
           ELSE IF job[c].kind = "agent" /\ ~job[c].flag
           THEN /\ queue' = queue \cup {c} /\ Goto(c, "done")
                /\ UNCHANGED <<file, version, prompt, rows, bundle, wrote, owed, alone>>
           ELSE /\ InMemory(c, [all[n] EXCEPT !.allows = @ \cup {c}])
                /\ UNCHANGED <<file, version, rest, wrote, owed, alone>>

\* saveRecommendationsAsProfile: AvoidNameCollision takes the name it was given or
\* another that is free, of which Named has only so many.
LoadNames(c) ==
    LET taken == DOMAIN Loaded(file)
        free  == IF job[c].name \notin taken THEN {job[c].name} ELSE Named \ taken
    IN  /\ job[c].step = "load" /\ job[c].kind = "save"
        /\ \/ free = {} /\ Refuse(c)
           \/ \E n \in free :
                job' = [job EXCEPT ![c].step = "snapshot", ![c].name = n, ![c].mem = Fresh(c)]
              /\ UNCHANGED <<file, version, rest, wrote, owed, alone>>

ReadForUpsertErrorIgnored(c) ==
    LET prior == OnDisk(file)
        n == job[c].name
    IN  /\ job[c].step = "snapshot" /\ job[c].kind \in Upserts
        /\ job' = [job EXCEPT ![c].snap = prior,
                     ![c].step = IF n \in DOMAIN prior /\ prior[n].source = "org"
                                 THEN "record" ELSE "rename"]
        /\ UNCHANGED <<file, version, rest, wrote, owed, alone>>

\* UpsertProfile reads the file again, and refuses to replace an org profile.
ReadForUpsert(c) ==
    LET prior == OnDisk(file)
        n == job[c].name
    IN  /\ job[c].step = "snapshot" /\ job[c].kind \in Upserts
        /\ IF n \in DOMAIN prior /\ prior[n].source = "org"
           THEN Refuse(c)
           ELSE /\ job' = [job EXCEPT ![c].step = "rename", ![c].snap = prior]
                /\ UNCHANGED <<file, version, rest, wrote, owed, alone>>

RenameUpsertUnmerged(c) ==
    LET n == job[c].name
    IN  /\ job[c].step = "rename" /\ job[c].kind \in Upserts
        /\ file' = With(<<>>, n, job[c].mem) /\ version' = version + 1
        /\ wrote' = wrote \cup {c} /\ owed' = owed \cup {<<n, c>>}
        /\ Goto(c, IF job[c].kind = "answer" THEN "record" ELSE "done")
        /\ UNCHANGED <<rest, alone>>

\* upsertProfileClean.
RenameUpsert(c) ==
    LET n == job[c].name
    IN  /\ job[c].step = "rename" /\ job[c].kind \in Upserts
        /\ file' = With(job[c].snap, n, job[c].mem) /\ version' = version + 1
        /\ wrote' = wrote \cup {c} /\ owed' = owed \cup {<<n, c>>}
        /\ Goto(c, IF job[c].kind = "answer" THEN "record" ELSE "done")
        /\ UNCHANGED <<rest, alone>>

\* AnswerPendingPrompt, after the profile was written.
Record(c) ==
    /\ job[c].step = "record"
    /\ prompt' = (IF prompt = "pending" THEN c ELSE prompt)
    /\ Goto(c, "done")
    /\ UNCHANGED <<file, version, queue, rows, bundle, wrote, owed, alone>>

\* Somebody else answers it, without a change to a profile.
AnswerOtherwise ==
    /\ prompt = "pending"
    /\ prompt' = "ignored"
    /\ UNCHANGED <<file, version, job, queue, rows, bundle, wrote, owed, alone>>

\* InstallFromBytes: the conflict check is made on a reading of its own.
CheckConflict(c) ==
    /\ job[c].step = "load" /\ job[c].kind = "install"
    /\ IF job[c].name \in DOMAIN OnDisk(file) /\ ~job[c].flag
       THEN Refuse(c)
       ELSE /\ InMemory(c, Profile("org", {}, TRUE))
            /\ UNCHANGED <<file, version, rest, wrote, owed, alone>>

\* writeInstalledProfiles reads the file again, and renames.
ReadForInstall(c) ==
    /\ job[c].step = "snapshot" /\ job[c].kind = "install"
    /\ job' = [job EXCEPT ![c].step = "rename", ![c].snap = OnDisk(file)]
    /\ UNCHANGED <<file, version, rest, wrote, owed, alone>>

RenameInstall(c) ==
    /\ job[c].step = "rename" /\ job[c].kind = "install"
    /\ file' = With(job[c].snap, job[c].name, job[c].mem) /\ version' = version + 1
    /\ owed' = {o \in owed : o[1] # job[c].name} \cup {<<job[c].name, c>>}
    /\ wrote' = wrote \cup {c} /\ Goto(c, "done")
    /\ UNCHANGED <<rest, alone>>
-----------------------------------------------------------------------------
\* BuildExport.  The projection of a profile has no allow rules.
Exported(p) == [p EXCEPT !.allows = {}]
Export ==
    /\ bundle = NoBundle
    /\ bundle' = [profiles |-> [n \in DOMAIN Loaded(file) |-> Exported(Loaded(file)[n])],
                  rows |-> rows]
    /\ UNCHANGED <<file, version, job, prompt, queue, rows, wrote, owed, alone>>

\* applyImport lists the rows to be dropped before anything else.
ReadForImport(c) ==
    /\ job[c].step = "load" /\ job[c].kind = "import"
    /\ job' = [job EXCEPT ![c].step = "drop", ![c].todo = IF job[c].flag THEN rows ELSE {}]
    /\ UNCHANGED <<file, version, rest, wrote, owed, alone>>

DropRow(c) ==
    /\ job[c].step = "drop"
    /\ IF job[c].todo = {}
       THEN /\ job' = [job EXCEPT ![c].step = "insert", ![c].todo = bundle.rows]
            /\ UNCHANGED rows
       ELSE \E r \in job[c].todo :
                /\ rows' = rows \ {r}
                /\ job' = [job EXCEPT ![c].todo = @ \ {r}]
    /\ UNCHANGED <<file, version, prompt, queue, bundle, wrote, owed, alone>>

InsertRow(c) ==
    /\ job[c].step = "insert"
    /\ IF job[c].todo = {}
       THEN Goto(c, "snapshot") /\ UNCHANGED rows
       ELSE \E r \in job[c].todo :
                /\ rows' = rows \cup {r}
                /\ job' = [job EXCEPT ![c].todo = @ \ {r}]
    /\ UNCHANGED <<file, version, prompt, queue, bundle, wrote, owed, alone>>

\* writeProfilesForImport.  It asks nobody where a profile came from.
ReadForMerge(c) ==
    /\ job[c].step = "snapshot" /\ job[c].kind = "import"
    /\ job' = [job EXCEPT ![c].step = "rename",
                          ![c].snap = IF job[c].flag THEN <<>> ELSE OnDisk(file)]
    /\ UNCHANGED <<file, version, rest, wrote, owed, alone>>

RenameImport(c) ==
    /\ job[c].step = "rename" /\ job[c].kind = "import"
    /\ Replace(Over(bundle.profiles, job[c].snap),
               IF job[c].flag THEN Name ELSE DOMAIN bundle.profiles)
    /\ wrote' = wrote \cup {c} /\ Goto(c, "done")
    /\ UNCHANGED <<rest, alone>>

\* EnsureDefaultProfilesFile, of `run` and `profile install-defaults`.  With
\* --force the file is removed first.
FindFile(c) ==
    /\ job[c].step = "load" /\ job[c].kind = "defaults"
    /\ IF job[c].flag /\ file # NoFile
       THEN Replace(NoFile, Name) /\ Goto(c, "create")
       ELSE /\ Goto(c, IF file = NoFile THEN "create" ELSE "done")
            /\ UNCHANGED <<file, version, owed>>
    /\ UNCHANGED <<rest, wrote, alone>>

\* os.WriteFile truncates whatever the path names by then, and fills it.
CreateFile(c) ==
    /\ job[c].step = "create"
    /\ file' = <<>>
    /\ version' = IF file = NoFile THEN version + 1 ELSE version
    /\ job' = [job EXCEPT ![c].step = "fill", ![c].seen = version']
    /\ UNCHANGED <<rest, wrote, owed, alone>>

FillFile(c) ==
    /\ job[c].step = "fill"
    /\ file' = IF version = job[c].seen THEN Defaults ELSE file
    /\ Goto(c, "done")
    /\ UNCHANGED <<version, rest, wrote, owed, alone>>

\* Apply of the doctor: a shipped profile that lacks the floor gets it.
ReadForDoctor(c) ==
    LET f == OnDisk(file)
    IN  /\ job[c].step = "load" /\ job[c].kind = "doctor"
        /\ IF Shipped \in DOMAIN f /\ ~f[Shipped].floor
           THEN /\ job' = [job EXCEPT ![c].step = "rename", ![c].snap = f]
                /\ UNCHANGED <<file, version, rest, wrote, owed, alone>>
           ELSE Refuse(c)

RenameDoctor(c) ==
    /\ job[c].step = "rename" /\ job[c].kind = "doctor"
    /\ file' = [job[c].snap EXCEPT ![Shipped].floor = TRUE] /\ version' = version + 1
    /\ wrote' = wrote \cup {c} /\ Goto(c, "done")
    /\ UNCHANGED <<rest, owed, alone>>

\* A command is killed.
Kill(c) == Running(c) /\ Refuse(c)

Next ==
    \/ \E c \in Cmd :
        \/ BeginAnswer(c) \/ BeginAllow(c) \/ BeginAgent(c) \/ BeginSave(c)
        \/ BeginInstall(c) \/ BeginImport(c) \/ BeginDefaults(c) \/ BeginDoctor(c)
        \/ LoadProfile(c) \/ LoadNames(c) \/ ReadForUpsert(c)
        \/ RenameUpsert(c) \/ Record(c)
        \/ CheckConflict(c) \/ ReadForInstall(c) \/ RenameInstall(c)
        \/ ReadForImport(c) \/ DropRow(c) \/ InsertRow(c) \/ ReadForMerge(c) \/ RenameImport(c)
        \/ FindFile(c) \/ CreateFile(c) \/ FillFile(c)
        \/ ReadForDoctor(c) \/ RenameDoctor(c)
        \/ Kill(c)
    \/ AnswerOtherwise \/ Export

Spec == Init /\ [][Next]_vars
-----------------------------------------------------------------------------
Profiles == [source : {"local", "org"}, allows : SUBSET Cmd, floor : BOOLEAN]
Files == UNION {[names -> Profiles] : names \in SUBSET Name}
Jobs == [step : Steps, kind : Upserts \cup {"none", "install", "import", "defaults", "doctor"},
         name : Name, flag : BOOLEAN, mem : Profiles, snap : Files, seen : Nat,
         todo : SUBSET Row]

TypeOK ==
    /\ file \in Files \cup {NoFile} /\ version \in Nat
    /\ job \in [Cmd -> Jobs]
    /\ prompt \in Cmd \cup {"pending", "ignored"}
    /\ queue \subseteq Cmd /\ rows \subseteq Row /\ wrote \subseteq Cmd
    /\ bundle \in [profiles : Files \cup {NoFile}, rows : SUBSET Row]
    /\ owed \subseteq Name \X Cmd /\ alone \in BOOLEAN

\* An org-distributed profile never carries a rule somebody added on this
\* machine, however the commands interleave (install.go:820,
\* profileallow.go:434, cli/prompts.go:315).
OrgRulesAreTheirs ==
    file # NoFile =>
        \A n \in DOMAIN file : file[n].source = "org" => file[n].allows = {}

\* A prompt whose row says that a profile was changed for it has had that
\* profile written: the side effect comes before the answer (cli/prompts.go:213).
AnswerWasApplied == prompt \in Cmd => prompt \in wrote

\* What a command put into the file is still there: the rule it added, or the
\* bundle's profile it installed.
StillThere(o) ==
    /\ file # NoFile /\ o[1] \in DOMAIN file
    /\ IF job[o[2]].kind = "install" THEN file[o[1]].source = "org"
                                     ELSE o[2] \in file[o[1]].allows

\* As long as the commands run one at a time, killed or not, nothing is lost
\* that no command overwrote on purpose (prompts.go:304, install.go:788).
AloneNothingIsLost == alone => \A o \in owed : StillThere(o)

\* The same without the reservation, which nobody promises: two commands that
\* overlap may undo each other.
NothingIsLost == \A o \in owed : StillThere(o)

\* "portable JSON bundle of the operator's full kbounce configuration so an
\* operator can back up" (docs/CONFIG-EXPORT-IMPORT.md:3): an import of an
\* export restores the profiles.
ExportIsFull ==
    bundle # NoBundle /\ alone /\ (\A c \in Cmd : ~Running(c))
        /\ (\E c \in wrote : job[c].kind = "import" /\ job[c].flag)
        /\ (\A c \in wrote : job[c].kind \in {"allow", "import"}) =>
        \A c \in wrote : job[c].kind = "allow" => \E n \in DOMAIN file : c \in file[n].allows

\* "existing files are NEVER overwritten (operator edits must survive)"
\* (profile.go:1266).
DefaultsOverwriteNothing ==
    [][\A c \in Cmd : job[c].step = "create" /\ job'[c].step = "fill" => file = NoFile]_vars
=============================================================================
