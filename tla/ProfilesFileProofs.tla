-------------------------- MODULE ProfilesFileProofs --------------------------
(***************************************************************************)
(* Proofs about the two files that processes share, each under any number  *)
(* of them: profiles.yaml under commands, and the store's file under those *)
(* that open it, a backup and a restore.                                   *)
(*                                                                         *)
(* Of profiles.yaml three properties hold; the invariant also says them of *)
(* what is on its way there: the profile a command has in memory, the file *)
(* it has read and will write back, the exported configuration.  For one   *)
(* command at a time it adds that what was read is what is still there,    *)
(* and that the profile in memory extends it.                              *)
(*                                                                         *)
(* Of the store's file the invariant follows the schema in the write-ahead *)
(* log: whoever is past a statement of Open keeps the log from being       *)
(* carried over, and every commit carries the schema on.  Where a restore  *)
(* goes unseen there is no log, from the moment it has looked.             *)
(***************************************************************************)
EXTENDS MCProfilesFile, SequenceTheorems, TLAPS

\* What an org-distributed profile of f may not carry.
NoneAdded(f) == \A n \in DOMAIN f : f[n].source = "org" => f[n].allows = {}

\* Whatever may yet be written is as clean as what is there: the profile a command
\* has in memory, the file it has read, and the exported configuration.
AllClean ==
    /\ file # NoFile => NoneAdded(file)
    /\ \A c \in Cmd : NoneAdded(job[c].snap) /\ (job[c].mem.source = "org" => job[c].mem.allows = {})
    /\ bundle # NoBundle => bundle.profiles \in Files /\ NoneAdded(bundle.profiles)
    /\ \A c \in Cmd : job[c].kind = "import" => bundle # NoBundle

\* The row is answered last.
RecordedLast ==
    /\ prompt \in Cmd => prompt \in wrote
    /\ \A c \in Cmd : job[c].step = "record" => c \in wrote

\* What is owed was written by a command that is past its rename.
OwedAreWritten ==
    \A o \in owed : /\ job[o[2]].step \in {"record", "done"}
                    /\ job[o[2]].kind \in Upserts \cup {"install"}

\* Only an import empties and refills the table, and the doctor repairs a profile it
\* has seen.
StepsFit(c) ==
    /\ job[c].step \in {"drop", "insert"} => job[c].kind = "import"
    /\ job[c].step = "rename" /\ job[c].kind = "doctor" => Shipped \in DOMAIN job[c].snap

KindsFit == \A c \in Cmd : StepsFit(c)

\* What a command has read is what the file still says.
ReadIsCurrent(c) ==
    job[c].step = "rename" =>
        job[c].snap = IF job[c].kind = "import" /\ job[c].flag THEN <<>> ELSE OnDisk(file)

\* What an upsert has in memory keeps what the file has under that name, and adds
\* the command's own rule.
MemoryExtends(c) ==
    job[c].kind \in Upserts /\ job[c].step \in {"snapshot", "rename"} =>
        /\ c \in job[c].mem.allows /\ job[c].mem.source = "local"
        /\ job[c].name \in DOMAIN OnDisk(file) =>
               /\ file[job[c].name].source = "local"
               /\ file[job[c].name].allows \subseteq job[c].mem.allows

\* The bundle's profile stays the bundle's.
MemoryInstalls(c) ==
    job[c].kind = "install" /\ job[c].step \in {"snapshot", "rename"} => job[c].mem.source = "org"

\* The defaults are written where there is nothing to lose.
NothingToLose(c) == job[c].step \in {"create", "fill"} => owed = {}

InStep(c) == ReadIsCurrent(c) /\ MemoryExtends(c) /\ MemoryInstalls(c) /\ NothingToLose(c)

Alone ==
    alone =>
        /\ \A c, d \in Cmd : Running(c) /\ Running(d) => c = d
        /\ \A c \in Cmd : InStep(c)
        /\ \A o \in owed : StillThere(o)

Inv == TypeOK /\ AllClean /\ RecordedLast /\ OwedAreWritten /\ KindsFit /\ Alone
-----------------------------------------------------------------------------
\* What a file has, has the type of a profile; and no file is NoFile.
LEMMA FilesDef ==
    ASSUME NEW f \in Files
    PROVE  /\ DOMAIN f \subseteq Name /\ \A n \in DOMAIN f : f[n] \in Profiles
           /\ f = [n \in DOMAIN f |-> f[n]]
BY DEF Files

\* A function from some of the names to profiles is a file.
LEMMA FilesIntro ==
    ASSUME NEW D \in SUBSET Name, NEW f \in [D -> Profiles]
    PROVE  f \in Files
BY DEF Files

\* An absent file is none of the files.
LEMMA NoFileIsNoFile == NoFile \notin Files
<1>1. DOMAIN NoFile = {"no file"}
  BY DEF NoFile
<1>2. "no file" \notin Name
  BY ConstantsAssumption DEF Name
<1> QED
  BY <1>1, <1>2, FilesDef

\* A file without a profile.
LEMMA EmptyIsFile == <<>> \in Files /\ NoneAdded(<<>>) /\ DOMAIN <<>> = {}
<1>1. <<>> \in [{} -> Profiles]
  OBVIOUS
<1>2. {} \in SUBSET Name
  OBVIOUS
<1>3. DOMAIN <<>> = {}
  OBVIOUS
<1> QED
  BY <1>1, <1>2, <1>3 DEF Files, NoneAdded

\* A profile that nobody has added a rule to.
LEMMA PlainProfile ==
    ASSUME NEW source \in {"local", "org"}, NEW floor \in BOOLEAN, NEW allows \in SUBSET Cmd
    PROVE  /\ Profile(source, allows, floor) \in Profiles
           /\ Profile(source, allows, floor).source = source
           /\ Profile(source, allows, floor).allows = allows
BY DEF Profile, Profiles

\* The defaults are a file, with a full-user profile and no rule added.
LEMMA DefaultsIsFile ==
    /\ Defaults \in Files /\ NoneAdded(Defaults) /\ FullUser \in DOMAIN Defaults
<1>1. \A n \in {FullUser, Shipped} : Profile("local", {}, n = Shipped) \in Profiles
  BY PlainProfile
<1>2. Defaults \in Files
  <2>1. Defaults \in [{FullUser, Shipped} -> Profiles] /\ {FullUser, Shipped} \in SUBSET Name
    BY <1>1 DEF Defaults, Name
  <2> QED
    BY <2>1, FilesIntro
<1>3. NoneAdded(Defaults)
  BY PlainProfile DEF Defaults, NoneAdded, Profile
<1> QED
  BY <1>2, <1>3 DEF Defaults

\* Two files read together are a file, as clean as they are.
LEMMA OverIsFile ==
    ASSUME NEW f \in Files, NEW g \in Files
    PROVE  /\ Over(f, g) \in Files /\ DOMAIN Over(f, g) = DOMAIN f \cup DOMAIN g
           /\ \A n \in DOMAIN f : Over(f, g)[n] = f[n]
           /\ \A n \in DOMAIN g \ DOMAIN f : Over(f, g)[n] = g[n]
           /\ NoneAdded(f) /\ NoneAdded(g) => NoneAdded(Over(f, g))
<1> USE FilesDef
<1>1. Over(f, g) \in Files
  <2>1. Over(f, g) \in [DOMAIN f \cup DOMAIN g -> Profiles] /\ DOMAIN f \cup DOMAIN g \in SUBSET Name
    BY DEF Over
  <2> QED
    BY <2>1, FilesIntro
<1>2. /\ DOMAIN Over(f, g) = DOMAIN f \cup DOMAIN g
      /\ \A n \in DOMAIN f : Over(f, g)[n] = f[n]
      /\ \A n \in DOMAIN g \ DOMAIN f : Over(f, g)[n] = g[n]
  BY DEF Over
<1> QED
  BY <1>1, <1>2 DEF NoneAdded

\* A file with one profile put in is a file, as clean as file and profile.
LEMMA WithIsFile ==
    ASSUME NEW f \in Files, NEW n \in Name, NEW p \in Profiles
    PROVE  /\ With(f, n, p) \in Files /\ DOMAIN With(f, n, p) = DOMAIN f \cup {n}
           /\ With(f, n, p)[n] = p
           /\ \A m \in DOMAIN f : m # n => With(f, n, p)[m] = f[m]
           /\ NoneAdded(f) /\ (p.source = "org" => p.allows = {}) => NoneAdded(With(f, n, p))
<1> USE FilesDef
<1>1. With(f, n, p) \in Files
  <2>1. With(f, n, p) \in [DOMAIN f \cup {n} -> Profiles] /\ DOMAIN f \cup {n} \in SUBSET Name
    BY DEF With
  <2> QED
    BY <2>1, FilesIntro
<1>2. /\ DOMAIN With(f, n, p) = DOMAIN f \cup {n}
      /\ With(f, n, p)[n] = p
      /\ \A m \in DOMAIN f : m # n => With(f, n, p)[m] = f[m]
  BY DEF With
<1> QED
  BY <1>1, <1>2 DEF NoneAdded

\* What LoadProfiles returns agrees with what is on disk.
LEMMA LoadedIsFile ==
    ASSUME NEW f \in Files \cup {NoFile}, f # NoFile => NoneAdded(f)
    PROVE  /\ Loaded(f) \in Files /\ NoneAdded(Loaded(f))
           /\ OnDisk(f) \in Files /\ NoneAdded(OnDisk(f))
           /\ DOMAIN OnDisk(f) \subseteq DOMAIN Loaded(f)
           /\ \A n \in DOMAIN OnDisk(f) : f # NoFile /\ Loaded(f)[n] = f[n] /\ OnDisk(f)[n] = f[n]
<1> DEFINE added == [n \in {FullUser} |-> Profile("local", {}, FALSE)]
<1>1. added \in Files /\ NoneAdded(added)
  <2>1. Profile("local", {}, FALSE) \in Profiles /\ Profile("local", {}, FALSE).source = "local"
    BY PlainProfile
  <2>2. added \in [{FullUser} -> Profiles] /\ {FullUser} \in SUBSET Name
    BY <2>1 DEF Name
  <2>3. NoneAdded(added)
    BY <2>1 DEF NoneAdded
  <2> QED
    BY <2>2, <2>3, FilesIntro
<1> HIDE DEF added
<1>2. CASE f = NoFile
  BY <1>2, DefaultsIsFile, EmptyIsFile DEF Loaded, OnDisk
<1>3. CASE f # NoFile
  <2>1. Loaded(f) = Over(f, added) /\ OnDisk(f) = f /\ f \in Files
    BY <1>3 DEF Loaded, OnDisk, added
  <2>2. /\ Over(f, added) \in Files /\ NoneAdded(Over(f, added))
        /\ DOMAIN f \subseteq DOMAIN Over(f, added)
        /\ \A n \in DOMAIN f : Over(f, added)[n] = f[n]
    BY <2>1, <1>1, <1>3, OverIsFile
  <2> QED
    BY <2>1, <2>2, <1>3
<1> QED
  BY <1>2, <1>3
-----------------------------------------------------------------------------
\* The other commands are where they were.
OthersStay(c) == \A d \in Cmd \ {c} : job'[d] = job[d]

\* One command moves on, the others stay where they are.
LEMMA JobStep ==
    ASSUME TypeOK, NEW c \in Cmd, NEW l \in Jobs, job' = [job EXCEPT ![c] = l]
    PROVE  job' \in [Cmd -> Jobs] /\ job'[c] = l /\ OthersStay(c)
BY DEF TypeOK, OthersStay

\* What a command that has not begun holds.
LEMMA IdleIsJob ==
    /\ Idle \in Jobs /\ Idle.mem.source = "local" /\ Idle.snap = <<>> /\ Idle.kind = "none"
    /\ Idle.step = "new"
BY PlainProfile, EmptyIsFile DEF Idle, Jobs, Steps, Name

\* A command that only moves on keeps what it has.
LEMMA GotoStep ==
    ASSUME TypeOK, NEW c \in Cmd, NEW s \in Steps, Goto(c, s)
    PROVE  /\ job' \in [Cmd -> Jobs] /\ OthersStay(c) /\ job'[c].step = s
           /\ job'[c].kind = job[c].kind /\ job'[c].name = job[c].name
           /\ job'[c].flag = job[c].flag /\ job'[c].mem = job[c].mem
           /\ job'[c].snap = job[c].snap
<1> DEFINE l == [job[c] EXCEPT !.step = s]
<1>a. job[c] \in Jobs
  BY DEF TypeOK
<1>1. /\ l \in Jobs /\ l.step = s /\ l.kind = job[c].kind /\ l.name = job[c].name
      /\ l.flag = job[c].flag /\ l.mem = job[c].mem /\ l.snap = job[c].snap
  BY <1>a DEF Jobs
<1>2. job' = [job EXCEPT ![c] = l]
  BY DEF Goto, TypeOK
<1> QED
  BY <1>1, <1>2, JobStep

\* What a command that begins holds.
LEMMA StartStep ==
    ASSUME TypeOK, NEW c \in Cmd, NEW kind \in Upserts \cup {"install", "import", "defaults", "doctor"},
           NEW n \in Name, NEW flag \in BOOLEAN, Start(c, kind, n, flag)
    PROVE  /\ job' \in [Cmd -> Jobs] /\ OthersStay(c)
           /\ job'[c].step = "load" /\ job'[c].kind = kind
           /\ job'[c].mem.source = "local" /\ job'[c].snap = <<>>
<1> DEFINE l == [Idle EXCEPT !.step = "load", !.kind = kind, !.name = n, !.flag = flag, !.seen = version]
<1>1. l \in Jobs /\ l.step = "load" /\ l.kind = kind /\ l.mem = Idle.mem /\ l.snap = Idle.snap
  <2>1. version \in Nat /\ "load" \in Steps
    BY DEF TypeOK, Steps
  <2> QED
    BY <2>1, IdleIsJob DEF Jobs
<1>2. job' = [job EXCEPT ![c] = l]
  BY DEF Start
<1> QED
  BY <1>1, <1>2, JobStep, IdleIsJob

\* A command puts together what it will write.
LEMMA InMemoryStep ==
    ASSUME TypeOK, NEW c \in Cmd, NEW p \in Profiles, InMemory(c, p)
    PROVE  /\ job' \in [Cmd -> Jobs] /\ OthersStay(c)
           /\ job'[c].step = "snapshot" /\ job'[c].mem = p
           /\ job'[c].kind = job[c].kind /\ job'[c].name = job[c].name
           /\ job'[c].snap = job[c].snap
<1> DEFINE l == [job[c] EXCEPT !.step = "snapshot", !.mem = p]
<1>a. job[c] \in Jobs /\ "snapshot" \in Steps
  BY DEF TypeOK, Steps
<1>1. /\ l \in Jobs /\ l.step = "snapshot" /\ l.mem = p
      /\ l.kind = job[c].kind /\ l.name = job[c].name /\ l.snap = job[c].snap
  BY <1>a DEF Jobs
<1>2. job' = [job EXCEPT ![c] = l]
  BY DEF InMemory, TypeOK
<1> QED
  BY <1>1, <1>2, JobStep

\* A command has read the file for the second time.
LEMMA SnapStep ==
    ASSUME TypeOK, NEW c \in Cmd, NEW f \in Files,
           job' = [job EXCEPT ![c].step = "rename", ![c].snap = f]
    PROVE  /\ job' \in [Cmd -> Jobs] /\ OthersStay(c)
           /\ job'[c].step = "rename" /\ job'[c].snap = f
           /\ job'[c].kind = job[c].kind /\ job'[c].name = job[c].name
           /\ job'[c].flag = job[c].flag /\ job'[c].mem = job[c].mem
<1> DEFINE l == [job[c] EXCEPT !.step = "rename", !.snap = f]
<1>a. job[c] \in Jobs /\ "rename" \in Steps
  BY DEF TypeOK, Steps
<1>1. /\ l \in Jobs /\ l.step = "rename" /\ l.snap = f
      /\ l.kind = job[c].kind /\ l.name = job[c].name /\ l.flag = job[c].flag /\ l.mem = job[c].mem
  BY <1>a DEF Jobs
<1>2. job' = [job EXCEPT ![c] = l]
  BY DEF TypeOK
<1> QED
  BY <1>1, <1>2, JobStep

\* A command has rows yet to drop or to insert.
LEMMA RowsStep ==
    ASSUME TypeOK, NEW c \in Cmd, NEW s \in Steps, NEW todo \in SUBSET Row,
           job' = [job EXCEPT ![c].step = s, ![c].todo = todo]
    PROVE  /\ job' \in [Cmd -> Jobs] /\ OthersStay(c)
           /\ job'[c].step = s /\ job'[c].kind = job[c].kind
           /\ job'[c].mem = job[c].mem /\ job'[c].snap = job[c].snap
<1> DEFINE l == [job[c] EXCEPT !.step = s, !.todo = todo]
<1>a. job[c] \in Jobs
  BY DEF TypeOK
<1>1. /\ l \in Jobs /\ l.step = s /\ l.kind = job[c].kind
      /\ l.snap = job[c].snap /\ l.mem = job[c].mem
  BY <1>a DEF Jobs
<1>2. job' = [job EXCEPT ![c] = l]
  BY DEF TypeOK
<1> QED
  BY <1>1, <1>2, JobStep
-----------------------------------------------------------------------------
\* What a step of one running command must show to keep the invariant: the others
\* are only touched through the file, and none of them runs while c is alone.
LEMMA RunningStep ==
    ASSUME Inv, NEW c \in Cmd, Running(c),
           job' \in [Cmd -> Jobs], OthersStay(c), job'[c].kind = job[c].kind,
           file' \in Files \cup {NoFile}, file' # NoFile => NoneAdded(file'), version' \in Nat,
           NoneAdded(job'[c].snap), job'[c].mem.source = "org" => job'[c].mem.allows = {},
           StepsFit(c)',
           UNCHANGED <<bundle, alone>>, queue' \subseteq Cmd, rows' \subseteq Row,
           prompt' \in Cmd \cup {"pending", "ignored"}, prompt' \in Cmd => prompt' \in wrote',
           wrote' \subseteq Cmd, wrote \subseteq wrote', job'[c].step = "record" => c \in wrote',
           owed' \subseteq Name \X Cmd, OwedAreWritten',
           alone => InStep(c)' /\ \A o \in owed' : StillThere(o)'
    PROVE  Inv'
<1>1. TypeOK'
  BY DEF Inv, TypeOK
<1>2. AllClean'
  BY DEF Inv, AllClean, OthersStay
<1>3. RecordedLast'
  BY DEF Inv, RecordedLast, OthersStay
<1>4. KindsFit'
  <2>1. \A d \in Cmd \ {c} : StepsFit(d)'
    BY DEF Inv, KindsFit, StepsFit, OthersStay
  <2> QED
    BY <2>1 DEF KindsFit
<1>5. Alone'
  <2> SUFFICES ASSUME alone'
               PROVE  /\ \A d, e \in Cmd : Running(d)' /\ Running(e)' => d = e
                      /\ \A d \in Cmd : InStep(d)'
                      /\ \A o \in owed' : StillThere(o)'
    BY DEF Alone
  <2>1. alone /\ \A d \in Cmd \ {c} : ~Running(d)
    BY DEF Inv, Alone
  <2>2. \A d \in Cmd \ {c} : job'[d].step \in {"new", "done"}
    BY <2>1 DEF OthersStay, Running
  <2>3. \A d \in Cmd \ {c} : ~Running(d)' /\ InStep(d)'
    BY <2>2 DEF Running, InStep, ReadIsCurrent, MemoryExtends, MemoryInstalls, NothingToLose
  <2> QED
    BY <2>1, <2>3
<1> QED
  BY <1>1, <1>2, <1>3, <1>4, <1>5 DEF Inv

\* A step that leaves the file and what is owed as they are.
LEMMA QuietStep ==
    ASSUME Inv, NEW c \in Cmd, Running(c),
           job' \in [Cmd -> Jobs], OthersStay(c), job'[c].kind = job[c].kind,
           UNCHANGED <<file, bundle, wrote, owed, alone>>, version' \in Nat,
           NoneAdded(job'[c].snap), job'[c].mem.source = "org" => job'[c].mem.allows = {},
           StepsFit(c)',
           queue' \subseteq Cmd, rows' \subseteq Row,
           prompt' \in Cmd \cup {"pending", "ignored"}, prompt' \in Cmd => prompt' \in wrote,
           job'[c].step # "record", job[c].step = "record" => job'[c].step = "done",
           alone => InStep(c)'
    PROVE  Inv'
<1>1. OwedAreWritten'
  BY DEF Inv, OwedAreWritten, OthersStay, Running, TypeOK
<1>2. \A o \in owed : job'[o[2]].kind = job[o[2]].kind
  BY DEF Inv, TypeOK, OthersStay
<1>3. alone => \A o \in owed' : StillThere(o)'
  BY <1>2 DEF Inv, Alone, StillThere
<1> QED
  BY <1>1, <1>3, RunningStep DEF Inv, TypeOK, AllClean, RecordedLast

\* A command that ends has nothing more to keep.
LEMMA EndedInStep ==
    ASSUME NEW c \in Cmd, job'[c].step \in {"done", "load", "drop", "insert", "record"}
    PROVE  InStep(c)'
BY DEF InStep, ReadIsCurrent, MemoryExtends, MemoryInstalls, NothingToLose

\* A command that is turned down.
LEMMA RefuseKeeps ==
    ASSUME Inv, NEW c \in Cmd, Running(c), Refuse(c)
    PROVE  Inv'
<1>1. /\ job' \in [Cmd -> Jobs] /\ OthersStay(c) /\ job'[c].step = "done"
      /\ job'[c].kind = job[c].kind /\ job'[c].mem = job[c].mem /\ job'[c].snap = job[c].snap
  BY GotoStep DEF Refuse, Inv, Steps
<1>2. UNCHANGED <<file, version, prompt, queue, rows, bundle, wrote, owed, alone>>
  BY DEF Refuse, rest
<1> QED
  BY <1>1, <1>2, QuietStep, EndedInStep DEF Inv, TypeOK, AllClean, RecordedLast, StepsFit
-----------------------------------------------------------------------------
\* A command that begins.
LEMMA StartKeeps ==
    ASSUME Inv, NEW c \in Cmd, NEW kind \in Upserts \cup {"install", "import", "defaults", "doctor"},
           NEW n \in Name, NEW flag \in BOOLEAN, Start(c, kind, n, flag),
           kind = "import" => bundle # NoBundle
    PROVE  Inv'
<1>1. /\ job' \in [Cmd -> Jobs] /\ OthersStay(c)
      /\ job'[c].step = "load" /\ job'[c].kind = kind
      /\ job'[c].mem.source = "local" /\ job'[c].snap = <<>>
  BY StartStep DEF Inv
<1>2. UNCHANGED <<file, version, prompt, queue, rows, bundle, wrote, owed>>
  BY DEF Start, rest
<1>3. job[c].step = "new" /\ alone' = (alone /\ \A d \in Cmd : ~Running(d))
  BY DEF Start
<1>4. \A o \in owed : o[2] \in Cmd \ {c}
  BY <1>3 DEF Inv, OwedAreWritten, TypeOK
<1>5. TypeOK'
  BY <1>1, <1>2, <1>3 DEF Inv, TypeOK
<1>6. AllClean'
  BY <1>1, <1>2, EmptyIsFile DEF Inv, AllClean, OthersStay
<1>7. RecordedLast' /\ KindsFit'
  BY <1>1, <1>2 DEF Inv, RecordedLast, KindsFit, StepsFit, OthersStay
<1>8. OwedAreWritten'
  BY <1>1, <1>2, <1>4 DEF Inv, OwedAreWritten, OthersStay
<1>9. Alone'
  <2> SUFFICES ASSUME alone'
               PROVE  /\ \A d, e \in Cmd : Running(d)' /\ Running(e)' => d = e
                      /\ \A d \in Cmd : InStep(d)'
                      /\ \A o \in owed' : StillThere(o)'
    BY DEF Alone
  <2>1. alone /\ \A d \in Cmd \ {c} : job[d].step \in {"new", "done"}
    BY <1>3 DEF Running
  <2>2. \A d \in Cmd \ {c} : ~Running(d)' /\ InStep(d)'
    BY <2>1, <1>1
    DEF OthersStay, Running, InStep, ReadIsCurrent, MemoryExtends, MemoryInstalls, NothingToLose
  <2>3. InStep(c)'
    BY <1>1, EndedInStep
  <2>4. \A o \in owed' : StillThere(o)'
    BY <2>1, <1>1, <1>2, <1>4 DEF Inv, Alone, StillThere, OthersStay
  <2> QED
    BY <2>2, <2>3, <2>4
<1> QED
  BY <1>5, <1>6, <1>7, <1>8, <1>9 DEF Inv

\* `profile allow`: the profile is looked up.
LEMMA LoadProfileKeeps ==
    ASSUME Inv, NEW c \in Cmd, LoadProfile(c)
    PROVE  Inv'
<1> DEFINE all == Loaded(file)
           n == job[c].name
           p == [all[n] EXCEPT !.allows = @ \cup {c}]
<1>1. /\ job[c].step = "load" /\ job[c].kind \in {"answer", "allow", "agent"} /\ Running(c)
      /\ n \in Name
  BY DEF LoadProfile, Running, Inv, TypeOK, Jobs
<1>2. CASE Refuse(c)
  BY <1>1, <1>2, RefuseKeeps
<1>3. CASE /\ queue' = queue \cup {c} /\ Goto(c, "done")
           /\ UNCHANGED <<file, version, prompt, rows, bundle, wrote, owed, alone>>
  <2>1. /\ job' \in [Cmd -> Jobs] /\ OthersStay(c) /\ job'[c].step = "done"
        /\ job'[c].kind = job[c].kind /\ job'[c].mem = job[c].mem /\ job'[c].snap = job[c].snap
    BY <1>3, GotoStep DEF Inv, Steps
  <2> QED
    BY <1>1, <1>3, <2>1, QuietStep, EndedInStep DEF Inv, TypeOK, AllClean, RecordedLast, StepsFit
<1>4. CASE /\ n \in DOMAIN all /\ all[n].source # "org" /\ InMemory(c, p)
           /\ UNCHANGED <<file, version, rest, wrote, owed, alone>>
  <2>1. /\ all \in Files /\ DOMAIN OnDisk(file) \subseteq DOMAIN all
        /\ \A m \in DOMAIN OnDisk(file) : all[m] = file[m] /\ file[m] \in Profiles
    BY LoadedIsFile, FilesDef DEF Inv, TypeOK, AllClean
  <2>2. all[n] \in Profiles
    BY <1>4, <2>1, FilesDef
  <2>3. p \in Profiles /\ p.source = "local" /\ p.allows = all[n].allows \cup {c}
    BY <1>4, <2>2 DEF Profiles
  <2> HIDE DEF p, all
  <2>4. /\ job' \in [Cmd -> Jobs] /\ OthersStay(c)
        /\ job'[c].step = "snapshot" /\ job'[c].mem = p
        /\ job'[c].kind = job[c].kind /\ job'[c].name = job[c].name
        /\ job'[c].snap = job[c].snap
    BY <1>4, <2>3, InMemoryStep DEF Inv
  <2>5. UNCHANGED <<file, version, prompt, queue, rows, bundle, wrote, owed, alone>>
    BY <1>4 DEF rest
  <2>6. InStep(c)'
    <3>1. MemoryExtends(c)'
      <4>1. n \in DOMAIN OnDisk(file) => file[n].source = "local" /\ file[n].allows \subseteq p.allows
        BY <1>4, <2>1, <2>2, <2>3 DEF Profiles
      <4> QED
        BY <4>1, <2>3, <2>4, <2>5 DEF MemoryExtends
    <3> QED
      BY <3>1, <1>1, <2>4 DEF InStep, ReadIsCurrent, MemoryInstalls, NothingToLose
  <2> QED
    BY <1>1, <2>3, <2>4, <2>5, <2>6, QuietStep DEF Inv, TypeOK, AllClean, RecordedLast, StepsFit
<1> QED
  BY <1>2, <1>3, <1>4 DEF LoadProfile

\* The names of the profiles are looked up.
LEMMA LoadNamesKeeps ==
    ASSUME Inv, NEW c \in Cmd, LoadNames(c)
    PROVE  Inv'
<1>1. job[c].step = "load" /\ job[c].kind = "save" /\ Running(c) /\ job[c].name \in Name
  BY DEF LoadNames, Running, Inv, TypeOK, Jobs
<1>2. CASE Refuse(c)
  BY <1>1, <1>2, RefuseKeeps
<1>3. CASE ~Refuse(c)
  <2>1. PICK n \in Name :
          /\ n \notin DOMAIN Loaded(file)
          /\ job' = [job EXCEPT ![c].step = "snapshot", ![c].name = n, ![c].mem = Fresh(c)]
          /\ UNCHANGED <<file, version, rest, wrote, owed, alone>>
    BY <1>1, <1>3 DEF LoadNames, Name
  <2> DEFINE l == [job[c] EXCEPT !.step = "snapshot", !.name = n, !.mem = Fresh(c)]
  <2>2. Fresh(c) \in Profiles /\ Fresh(c).source = "local" /\ Fresh(c).allows = {c}
    <3>1. {c} \in SUBSET Cmd /\ "local" \in {"local", "org"} /\ FALSE \in BOOLEAN
      OBVIOUS
    <3> QED
      BY <3>1, PlainProfile DEF Fresh
  <2>3. /\ l \in Jobs /\ l.step = "snapshot" /\ l.name = n /\ l.mem = Fresh(c)
        /\ l.kind = job[c].kind /\ l.snap = job[c].snap
    <3>1. job[c] \in Jobs /\ "snapshot" \in Steps
      BY DEF Inv, TypeOK, Steps
    <3> QED
      BY <3>1, <2>2 DEF Jobs
  <2>4. job' = [job EXCEPT ![c] = l]
    BY <2>1 DEF Inv, TypeOK
  <2> HIDE DEF l
  <2>5. job' \in [Cmd -> Jobs] /\ job'[c] = l /\ OthersStay(c)
    BY <2>3, <2>4, JobStep DEF Inv
  <2>6. UNCHANGED <<file, version, prompt, queue, rows, bundle, wrote, owed, alone>>
    BY <2>1 DEF rest
  <2>7. n \notin DOMAIN OnDisk(file)
    BY <2>1, LoadedIsFile DEF Inv, TypeOK, AllClean
  <2>8. InStep(c)'
    BY <1>1, <2>2, <2>3, <2>5, <2>6, <2>7
    DEF InStep, ReadIsCurrent, MemoryExtends, MemoryInstalls, NothingToLose
  <2> QED
    BY <1>1, <2>2, <2>3, <2>5, <2>6, <2>8, QuietStep DEF Inv, TypeOK, AllClean, RecordedLast, StepsFit
<1> QED
  BY <1>2, <1>3

\* UpsertProfileLocked reads the file again.
LEMMA ReadForUpsertKeeps ==
    ASSUME Inv, NEW c \in Cmd, ReadForUpsert(c)
    PROVE  Inv'
<1>1. job[c].step = "snapshot" /\ job[c].kind \in Upserts /\ Running(c)
  BY DEF ReadForUpsert, Running
<1>2. CASE Refuse(c)
  BY <1>1, <1>2, RefuseKeeps
<1>3. CASE /\ job' = [job EXCEPT ![c].step = "rename", ![c].snap = OnDisk(file)]
           /\ UNCHANGED <<file, version, rest, wrote, owed, alone>>
  <2>1. OnDisk(file) \in Files /\ NoneAdded(OnDisk(file))
    BY LoadedIsFile DEF Inv, TypeOK, AllClean
  <2>2. /\ job' \in [Cmd -> Jobs] /\ OthersStay(c)
        /\ job'[c].step = "rename" /\ job'[c].snap = OnDisk(file)
        /\ job'[c].kind = job[c].kind /\ job'[c].name = job[c].name
        /\ job'[c].flag = job[c].flag /\ job'[c].mem = job[c].mem
    BY <1>3, <2>1, SnapStep DEF Inv
  <2>3. UNCHANGED <<file, version, prompt, queue, rows, bundle, wrote, owed, alone>>
    BY <1>3 DEF rest
  <2>4. alone => InStep(c)'
    <3>1. alone => MemoryExtends(c)
      BY DEF Inv, Alone, InStep
    <3>2. alone => MemoryExtends(c)'
      BY <3>1, <1>1, <2>2, <2>3 DEF MemoryExtends
    <3>3. ReadIsCurrent(c)'
      BY <1>1, <2>2, <2>3 DEF ReadIsCurrent, Upserts
    <3>4. MemoryInstalls(c)' /\ NothingToLose(c)'
      BY <1>1, <2>2 DEF MemoryInstalls, NothingToLose, Upserts
    <3> QED
      BY <3>2, <3>3, <3>4 DEF InStep
  <2> QED
    BY <1>1, <2>1, <2>2, <2>3, <2>4, QuietStep DEF Inv, TypeOK, AllClean, RecordedLast, Upserts, StepsFit
<1> QED
  BY <1>2, <1>3 DEF ReadForUpsert

\* The upsert's rename: what the command has in memory extends what is there.
LEMMA RenameUpsertKeeps ==
    ASSUME Inv, NEW c \in Cmd, RenameUpsert(c)
    PROVE  Inv'
<1> DEFINE n == job[c].name
           p == job[c].mem
           s == IF job[c].kind = "answer" THEN "record" ELSE "done"
<1>1. /\ job[c].step = "rename" /\ job[c].kind \in Upserts /\ Running(c)
      /\ n \in Name /\ p \in Profiles /\ job[c].snap \in Files
      /\ NoneAdded(job[c].snap) /\ (p.source = "org" => p.allows = {})
  BY DEF RenameUpsert, Running, Inv, TypeOK, Jobs, AllClean
<1>2. /\ job' \in [Cmd -> Jobs] /\ OthersStay(c) /\ job'[c].step = s
      /\ job'[c].kind = job[c].kind /\ job'[c].mem = p /\ job'[c].snap = job[c].snap
  BY GotoStep DEF RenameUpsert, Inv, Steps
<1>3. /\ file' = With(job[c].snap, n, p) /\ version' = version + 1
      /\ wrote' = wrote \cup {c} /\ owed' = owed \cup {<<n, c>>}
      /\ UNCHANGED <<prompt, queue, rows, bundle, alone>>
  BY DEF RenameUpsert, rest
<1>4. file' \in Files /\ NoneAdded(file')
  BY <1>1, <1>3, WithIsFile
<1>5. \A o \in owed' : o[2] \in Cmd /\ (o = <<n, c>> \/ (o \in owed /\ o[2] # c))
  BY <1>1, <1>3 DEF Inv, OwedAreWritten, TypeOK
<1>6. OwedAreWritten'
  BY <1>1, <1>2, <1>3, <1>5 DEF Inv, OwedAreWritten, OthersStay
<1>7. ASSUME alone
      PROVE  \A o \in owed' : StillThere(o)'
  <2>1. job[c].snap = OnDisk(file)
    BY <1>1, <1>7 DEF Inv, Alone, InStep, ReadIsCurrent, Upserts
  <2>2. /\ c \in p.allows /\ p.source = "local"
        /\ n \in DOMAIN OnDisk(file) => file[n].source = "local" /\ file[n].allows \subseteq p.allows
    BY <1>1, <1>7 DEF Inv, Alone, InStep, MemoryExtends
  <2>3. /\ file' # NoFile /\ DOMAIN file' = DOMAIN OnDisk(file) \cup {n} /\ file'[n] = p
        /\ \A m \in DOMAIN OnDisk(file) : m # n => file'[m] = OnDisk(file)[m]
    <3>1. /\ DOMAIN file' = DOMAIN job[c].snap \cup {n} /\ file'[n] = p
          /\ \A m \in DOMAIN job[c].snap : m # n => file'[m] = job[c].snap[m]
      <4>1. job[c].snap \in Files /\ n \in Name /\ p \in Profiles
        BY <1>1
      <4>2. file' = With(job[c].snap, n, p)
        BY <1>3
      <4> HIDE DEF n, p
      <4> QED
        BY <4>1, <4>2, WithIsFile
    <3> QED
      BY <3>1, <1>4, <2>1, NoFileIsNoFile
  <2>4. SUFFICES ASSUME NEW o \in owed'
                 PROVE  StillThere(o)'
    OBVIOUS
  <2>5. CASE o = <<n, c>>
    BY <2>5, <2>2, <2>3, <1>1, <1>2 DEF StillThere, Upserts
  <2>6. CASE o \in owed /\ o[2] \in Cmd \ {c}
    <3>1. StillThere(o) /\ job'[o[2]] = job[o[2]]
      BY <2>6, <1>2, <1>7 DEF Inv, Alone, OthersStay
    <3>2. o[1] \in DOMAIN OnDisk(file) /\ OnDisk(file) = file
      BY <3>1 DEF StillThere, OnDisk
    <3>3. CASE o[1] = n
      BY <3>1, <3>2, <3>3, <2>2, <2>3 DEF StillThere
    <3>4. CASE o[1] # n
      BY <3>1, <3>2, <3>4, <2>3 DEF StillThere
    <3> QED
      BY <3>3, <3>4
  <2> QED
    BY <2>5, <2>6, <1>5
<1>8. InStep(c)'
  BY <1>2, EndedInStep
<1>9. owed' \subseteq Name \X Cmd /\ wrote' \subseteq Cmd /\ version' \in Nat
  BY <1>1, <1>3 DEF Inv, TypeOK
<1>10. /\ job'[c].step # "rename" /\ (prompt' \in Cmd => prompt' \in wrote') /\ c \in wrote'
       /\ prompt' \in Cmd \cup {"pending", "ignored"} /\ wrote \subseteq wrote'
       /\ queue' \subseteq Cmd /\ rows' \subseteq Row
  BY <1>2, <1>3 DEF Inv, TypeOK, RecordedLast
<1> QED
  BY <1>1, <1>2, <1>3, <1>4, <1>6, <1>7, <1>8, <1>9, <1>10, RunningStep DEF StepsFit

\* The prompt's row is answered.
LEMMA RecordKeeps ==
    ASSUME Inv, NEW c \in Cmd, Record(c)
    PROVE  Inv'
<1>1. /\ job[c].step = "record" /\ Running(c)
      /\ prompt' = (IF prompt = "pending" THEN c ELSE prompt)
      /\ UNCHANGED <<file, version, queue, rows, bundle, wrote, owed, alone>>
  BY DEF Record, Running
<1>2. /\ job' \in [Cmd -> Jobs] /\ OthersStay(c) /\ job'[c].step = "done"
      /\ job'[c].kind = job[c].kind /\ job'[c].mem = job[c].mem /\ job'[c].snap = job[c].snap
  BY GotoStep DEF Record, Inv, Steps
<1>3. c \in wrote /\ prompt' \in Cmd \cup {"pending", "ignored"} /\ (prompt' \in Cmd => prompt' \in wrote)
  BY <1>1 DEF Inv, TypeOK, RecordedLast
<1> QED
  BY <1>1, <1>2, <1>3, QuietStep, EndedInStep DEF Inv, TypeOK, AllClean, StepsFit

\* `profile install` looks for a profile of that name.
LEMMA CheckConflictKeeps ==
    ASSUME Inv, NEW c \in Cmd, CheckConflict(c)
    PROVE  Inv'
<1>1. job[c].step = "load" /\ job[c].kind = "install" /\ Running(c)
  BY DEF CheckConflict, Running
<1>2. CASE Refuse(c)
  BY <1>1, <1>2, RefuseKeeps
<1>3. CASE /\ InMemory(c, Profile("org", {}, TRUE))
           /\ UNCHANGED <<file, version, rest, wrote, owed, alone>>
  <2> DEFINE p == Profile("org", {}, TRUE)
  <2>1. p \in Profiles /\ p.source = "org" /\ p.allows = {}
    BY PlainProfile
  <2> HIDE DEF p
  <2>2. /\ job' \in [Cmd -> Jobs] /\ OthersStay(c)
        /\ job'[c].step = "snapshot" /\ job'[c].mem = p
        /\ job'[c].kind = job[c].kind /\ job'[c].snap = job[c].snap
    BY <1>3, <2>1, InMemoryStep DEF Inv, p
  <2>3. UNCHANGED <<file, version, prompt, queue, rows, bundle, wrote, owed, alone>>
    BY <1>3 DEF rest
  <2>4. InStep(c)'
    BY <1>1, <2>1, <2>2
    DEF InStep, ReadIsCurrent, MemoryExtends, MemoryInstalls, NothingToLose, Upserts
  <2> QED
    BY <1>1, <2>1, <2>2, <2>3, <2>4, QuietStep DEF Inv, TypeOK, AllClean, RecordedLast, StepsFit
<1> QED
  BY <1>2, <1>3 DEF CheckConflict

\* An install reads the file.
LEMMA ReadForInstallKeeps ==
    ASSUME Inv, NEW c \in Cmd, ReadForInstall(c)
    PROVE  Inv'
<1>1. /\ job[c].step = "snapshot" /\ job[c].kind = "install" /\ Running(c)
      /\ job' = [job EXCEPT ![c].step = "rename", ![c].snap = OnDisk(file)]
      /\ UNCHANGED <<file, version, prompt, queue, rows, bundle, wrote, owed, alone>>
  BY DEF ReadForInstall, Running, rest
<1>2. OnDisk(file) \in Files /\ NoneAdded(OnDisk(file))
  BY LoadedIsFile DEF Inv, TypeOK, AllClean
<1>3. /\ job' \in [Cmd -> Jobs] /\ OthersStay(c)
      /\ job'[c].step = "rename" /\ job'[c].snap = OnDisk(file)
      /\ job'[c].kind = job[c].kind /\ job'[c].mem = job[c].mem
  BY <1>1, <1>2, SnapStep DEF Inv
<1>4. alone => InStep(c)'
  <2>1. alone => MemoryInstalls(c)'
    BY <1>1, <1>3 DEF Inv, Alone, InStep, MemoryInstalls
  <2>2. ReadIsCurrent(c)' /\ MemoryExtends(c)' /\ NothingToLose(c)'
    BY <1>1, <1>3 DEF ReadIsCurrent, MemoryExtends, NothingToLose, Upserts
  <2> QED
    BY <2>1, <2>2 DEF InStep
<1> QED
  BY <1>1, <1>2, <1>3, <1>4, QuietStep DEF Inv, TypeOK, AllClean, RecordedLast, StepsFit

\* An install's rename.
LEMMA RenameInstallKeeps ==
    ASSUME Inv, NEW c \in Cmd, RenameInstall(c)
    PROVE  Inv'
<1> DEFINE n == job[c].name
           p == job[c].mem
<1>1. /\ job[c].step = "rename" /\ job[c].kind = "install" /\ Running(c)
      /\ n \in Name /\ p \in Profiles /\ job[c].snap \in Files
      /\ NoneAdded(job[c].snap) /\ (p.source = "org" => p.allows = {})
  BY DEF RenameInstall, Running, Inv, TypeOK, Jobs, AllClean
<1>2. /\ job' \in [Cmd -> Jobs] /\ OthersStay(c) /\ job'[c].step = "done"
      /\ job'[c].kind = job[c].kind /\ job'[c].mem = p /\ job'[c].snap = job[c].snap
  BY GotoStep DEF RenameInstall, Inv, Steps
<1>3. /\ file' = With(job[c].snap, n, p) /\ version' = version + 1
      /\ wrote' = wrote \cup {c} /\ owed' = {o \in owed : o[1] # n} \cup {<<n, c>>}
      /\ UNCHANGED <<prompt, queue, rows, bundle, alone>>
  BY DEF RenameInstall, rest
<1>4. file' \in Files /\ NoneAdded(file')
  BY <1>1, <1>3, WithIsFile
<1>5. \A o \in owed' : o = <<n, c>> \/ (o \in owed /\ o[1] # n /\ o[2] \in Cmd \ {c})
  BY <1>1, <1>3 DEF Inv, OwedAreWritten, TypeOK
<1>6. OwedAreWritten'
  BY <1>1, <1>2, <1>5 DEF Inv, OwedAreWritten, OthersStay
<1>7. ASSUME alone
      PROVE  \A o \in owed' : StillThere(o)'
  <2>1. job[c].snap = OnDisk(file) /\ p.source = "org"
    BY <1>1, <1>7 DEF Inv, Alone, InStep, ReadIsCurrent, MemoryInstalls
  <2>2. /\ file' # NoFile /\ DOMAIN file' = DOMAIN OnDisk(file) \cup {n} /\ file'[n] = p
        /\ \A m \in DOMAIN OnDisk(file) : m # n => file'[m] = OnDisk(file)[m]
    <3>1. /\ DOMAIN file' = DOMAIN job[c].snap \cup {n} /\ file'[n] = p
          /\ \A m \in DOMAIN job[c].snap : m # n => file'[m] = job[c].snap[m]
      <4>1. job[c].snap \in Files /\ n \in Name /\ p \in Profiles
        BY <1>1
      <4>2. file' = With(job[c].snap, n, p)
        BY <1>3
      <4> HIDE DEF n, p
      <4> QED
        BY <4>1, <4>2, WithIsFile
    <3> QED
      BY <3>1, <1>4, <2>1, NoFileIsNoFile
  <2>3. SUFFICES ASSUME NEW o \in owed'
                 PROVE  StillThere(o)'
    OBVIOUS
  <2>4. CASE o = <<n, c>>
    BY <2>4, <2>1, <2>2, <1>1, <1>2 DEF StillThere
  <2>5. CASE o \in owed /\ o[1] # n /\ o[2] \in Cmd \ {c}
    <3>1. StillThere(o) /\ job'[o[2]] = job[o[2]]
      BY <2>5, <1>2, <1>7 DEF Inv, Alone, OthersStay
    <3>2. o[1] \in DOMAIN OnDisk(file) /\ OnDisk(file) = file
      BY <3>1 DEF StillThere, OnDisk
    <3> QED
      BY <3>1, <3>2, <2>5, <2>2 DEF StillThere
  <2> QED
    BY <2>4, <2>5, <1>5
<1>8. InStep(c)'
  BY <1>2, EndedInStep
<1>9. owed' \subseteq Name \X Cmd /\ wrote' \subseteq Cmd /\ version' \in Nat
  BY <1>1, <1>3 DEF Inv, TypeOK
<1>10. /\ job'[c].step # "rename" /\ (prompt' \in Cmd => prompt' \in wrote') /\ c \in wrote'
       /\ prompt' \in Cmd \cup {"pending", "ignored"} /\ wrote \subseteq wrote'
       /\ queue' \subseteq Cmd /\ rows' \subseteq Row
  BY <1>2, <1>3 DEF Inv, TypeOK, RecordedLast
<1> QED
  BY <1>1, <1>2, <1>3, <1>4, <1>6, <1>7, <1>8, <1>9, <1>10, RunningStep DEF StepsFit
-----------------------------------------------------------------------------
\* `config export` takes file and rows.
LEMMA ExportKeeps ==
    ASSUME Inv, Export
    PROVE  Inv'
<1> DEFINE f == Loaded(file)
           g == [n \in DOMAIN f |-> Exported(f[n])]
<1>1. /\ bundle = NoBundle /\ bundle' = [profiles |-> g, rows |-> rows]
      /\ UNCHANGED <<file, version, job, prompt, queue, rows, wrote, owed, alone>>
  BY DEF Export
<1>2. f \in Files
  BY LoadedIsFile DEF Inv, TypeOK, AllClean
<1>3. \A n \in DOMAIN f : n \in Name /\ Exported(f[n]) \in Profiles /\ Exported(f[n]).allows = {}
  BY <1>2, FilesDef DEF Exported, Profiles
<1>4. g \in [DOMAIN f -> Profiles] /\ NoneAdded(g)
  BY <1>3 DEF NoneAdded
<1>5. g \in Files
  BY <1>2, <1>4, FilesDef, FilesIntro
<1> HIDE DEF g, f
<1>6. TypeOK'
  BY <1>1, <1>5 DEF Inv, TypeOK
<1>7. AllClean'
  BY <1>1, <1>4, <1>5 DEF Inv, AllClean
<1>8. RecordedLast' /\ OwedAreWritten' /\ KindsFit'
  BY <1>1 DEF Inv, RecordedLast, OwedAreWritten, KindsFit, StepsFit
<1>9. Alone'
  BY <1>1 DEF Inv, Alone, Running, InStep, ReadIsCurrent, MemoryExtends, MemoryInstalls,
              NothingToLose, StillThere, OnDisk
<1> QED
  BY <1>6, <1>7, <1>8, <1>9 DEF Inv

\* `config import --replace` starts from nothing.
LEMMA ReadForImportKeeps ==
    ASSUME Inv, NEW c \in Cmd, ReadForImport(c)
    PROVE  Inv'
<1> DEFINE todo == IF job[c].flag THEN rows ELSE {}
<1>1. /\ job[c].step = "load" /\ job[c].kind = "import" /\ Running(c)
      /\ job' = [job EXCEPT ![c].step = "drop", ![c].todo = todo] /\ todo \in SUBSET Row
      /\ UNCHANGED <<file, version, prompt, queue, rows, bundle, wrote, owed, alone>>
  BY DEF ReadForImport, Running, rest, Inv, TypeOK
<1> HIDE DEF todo
<1>2. /\ job' \in [Cmd -> Jobs] /\ OthersStay(c) /\ job'[c].step = "drop"
      /\ job'[c].kind = job[c].kind /\ job'[c].mem = job[c].mem /\ job'[c].snap = job[c].snap
  BY <1>1, RowsStep DEF Inv, Steps
<1> QED
  BY <1>1, <1>2, QuietStep, EndedInStep DEF Inv, TypeOK, AllClean, RecordedLast, StepsFit

\* An import drops a row.
LEMMA DropRowKeeps ==
    ASSUME Inv, NEW c \in Cmd, DropRow(c)
    PROVE  Inv'
<1>1. /\ job[c].step = "drop" /\ Running(c) /\ job[c].kind = "import"
      /\ job[c].todo \subseteq Row /\ bundle.rows \subseteq Row
      /\ UNCHANGED <<file, version, prompt, queue, bundle, wrote, owed, alone>>
  BY DEF DropRow, Running, Inv, TypeOK, Jobs, KindsFit, StepsFit
<1>2. /\ job' \in [Cmd -> Jobs] /\ OthersStay(c) /\ job'[c].step \in {"drop", "insert"}
      /\ job'[c].kind = job[c].kind /\ job'[c].mem = job[c].mem /\ job'[c].snap = job[c].snap
      /\ rows' \subseteq Row
  <2>1. CASE job[c].todo = {}
    <3>1. /\ job' = [job EXCEPT ![c].step = "insert", ![c].todo = bundle.rows] /\ rows' \subseteq Row
          /\ bundle.rows \in SUBSET Row /\ "insert" \in Steps
      BY <2>1, <1>1 DEF DropRow, Inv, TypeOK, Steps
    <3> QED
      BY <3>1, RowsStep DEF Inv
  <2>2. CASE job[c].todo # {}
    <3>1. PICK r \in job[c].todo :
            rows' = rows \ {r} /\ job' = [job EXCEPT ![c].todo = @ \ {r}]
      BY <2>2 DEF DropRow
    <3>2. job' = [job EXCEPT ![c].step = "drop", ![c].todo = job[c].todo \ {r}]
      BY <3>1, <1>1 DEF Inv, TypeOK, Jobs
    <3>3. job[c].todo \ {r} \in SUBSET Row /\ "drop" \in Steps /\ rows' \subseteq Row
      BY <3>1, <1>1 DEF Inv, TypeOK, Steps
    <3> QED
      BY <3>2, <3>3, RowsStep DEF Inv
  <2> QED
    BY <2>1, <2>2
<1> QED
  BY <1>1, <1>2, QuietStep, EndedInStep DEF Inv, TypeOK, AllClean, RecordedLast, StepsFit

\* An import inserts a row.
LEMMA InsertRowKeeps ==
    ASSUME Inv, NEW c \in Cmd, InsertRow(c)
    PROVE  Inv'
<1>1. /\ job[c].step = "insert" /\ Running(c) /\ job[c].kind = "import"
      /\ job[c].todo \subseteq Row
      /\ UNCHANGED <<file, version, prompt, queue, bundle, wrote, owed, alone>>
  BY DEF InsertRow, Running, Inv, TypeOK, Jobs, KindsFit, StepsFit
<1>2. CASE job[c].todo = {}
  <2>1. Goto(c, "snapshot") /\ rows' = rows
    BY <1>2 DEF InsertRow
  <2>2. /\ job' \in [Cmd -> Jobs] /\ OthersStay(c) /\ job'[c].step = "snapshot"
        /\ job'[c].kind = job[c].kind /\ job'[c].mem = job[c].mem /\ job'[c].snap = job[c].snap
    BY <2>1, GotoStep DEF Inv, Steps
  <2>3. InStep(c)'
    BY <1>1, <2>2
    DEF InStep, ReadIsCurrent, MemoryExtends, MemoryInstalls, NothingToLose, Upserts
  <2> QED
    BY <1>1, <2>1, <2>2, <2>3, QuietStep DEF Inv, TypeOK, AllClean, RecordedLast, StepsFit
<1>3. CASE job[c].todo # {}
  <2>1. PICK r \in job[c].todo :
          rows' = rows \cup {r} /\ job' = [job EXCEPT ![c].todo = @ \ {r}]
    BY <1>3 DEF InsertRow
  <2>2. job' = [job EXCEPT ![c].step = "insert", ![c].todo = job[c].todo \ {r}]
    BY <2>1, <1>1 DEF Inv, TypeOK, Jobs
  <2>3. /\ job' \in [Cmd -> Jobs] /\ OthersStay(c) /\ job'[c].step = "insert"
        /\ job'[c].kind = job[c].kind /\ job'[c].mem = job[c].mem /\ job'[c].snap = job[c].snap
    <3>1. job[c].todo \ {r} \in SUBSET Row /\ "insert" \in Steps
      BY <1>1 DEF Steps
    <3> QED
      BY <2>2, <3>1, RowsStep DEF Inv
  <2>4. rows' \subseteq Row
    BY <2>1, <1>1 DEF Inv, TypeOK
  <2> QED
    BY <1>1, <2>3, <2>4, QuietStep, EndedInStep DEF Inv, TypeOK, AllClean, RecordedLast, StepsFit
<1> QED
  BY <1>2, <1>3

\* An import that merges reads the file.
LEMMA ReadForMergeKeeps ==
    ASSUME Inv, NEW c \in Cmd, ReadForMerge(c)
    PROVE  Inv'
<1> DEFINE f == IF job[c].flag THEN <<>> ELSE OnDisk(file)
<1>1. /\ job[c].step = "snapshot" /\ job[c].kind = "import" /\ Running(c)
      /\ job' = [job EXCEPT ![c].step = "rename", ![c].snap = f]
      /\ UNCHANGED <<file, version, prompt, queue, rows, bundle, wrote, owed, alone>>
  BY DEF ReadForMerge, Running, rest
<1>2. f \in Files /\ NoneAdded(f)
  BY LoadedIsFile, EmptyIsFile DEF Inv, TypeOK, AllClean
<1> HIDE DEF f
<1>3. /\ job' \in [Cmd -> Jobs] /\ OthersStay(c)
      /\ job'[c].step = "rename" /\ job'[c].snap = f
      /\ job'[c].kind = job[c].kind /\ job'[c].mem = job[c].mem /\ job'[c].flag = job[c].flag
  BY <1>1, <1>2, SnapStep DEF Inv
<1>4. InStep(c)'
  BY <1>1, <1>3
  DEF InStep, ReadIsCurrent, MemoryExtends, MemoryInstalls, NothingToLose, Upserts, f, OnDisk
<1> QED
  BY <1>1, <1>2, <1>3, <1>4, QuietStep DEF Inv, TypeOK, AllClean, RecordedLast, StepsFit

\* An import's rename.
LEMMA RenameImportKeeps ==
    ASSUME Inv, NEW c \in Cmd, RenameImport(c)
    PROVE  Inv'
<1> DEFINE b == bundle.profiles
           dropped == IF job[c].flag THEN Name ELSE DOMAIN b
<1>1. /\ job[c].step = "rename" /\ job[c].kind = "import" /\ Running(c)
      /\ job[c].snap \in Files /\ NoneAdded(job[c].snap) /\ b \in Files /\ NoneAdded(b)
      /\ (job[c].mem.source = "org" => job[c].mem.allows = {})
  BY DEF RenameImport, Running, Inv, TypeOK, Jobs, AllClean
<1>2. /\ job' \in [Cmd -> Jobs] /\ OthersStay(c) /\ job'[c].step = "done"
      /\ job'[c].kind = job[c].kind /\ job'[c].mem = job[c].mem /\ job'[c].snap = job[c].snap
  BY GotoStep DEF RenameImport, Inv, Steps
<1>3. /\ file' = Over(b, job[c].snap) /\ version' = version + 1
      /\ wrote' = wrote \cup {c} /\ owed' = {o \in owed : o[1] \notin dropped}
      /\ UNCHANGED <<prompt, queue, rows, bundle, alone>>
  BY DEF RenameImport, Replace, rest
<1>4. /\ file' \in Files /\ NoneAdded(file') /\ DOMAIN file' = DOMAIN b \cup DOMAIN job[c].snap
      /\ \A n \in DOMAIN job[c].snap \ DOMAIN b : file'[n] = job[c].snap[n]
  BY <1>1, <1>3, OverIsFile
<1>5. \A o \in owed' : o \in owed /\ o[2] \in Cmd \ {c} /\ o[1] \in Name /\ o[1] \notin dropped
  BY <1>1, <1>3 DEF Inv, OwedAreWritten, TypeOK
<1>6. OwedAreWritten'
  BY <1>2, <1>5 DEF Inv, OwedAreWritten, OthersStay
<1>7. ASSUME alone, NEW o \in owed'
      PROVE  StillThere(o)'
  <2>1. ~job[c].flag /\ o[1] \notin DOMAIN b
    BY <1>5
  <2>2. job[c].snap = OnDisk(file)
    BY <1>1, <1>7, <2>1 DEF Inv, Alone, InStep, ReadIsCurrent
  <2>3. StillThere(o) /\ job'[o[2]] = job[o[2]]
    BY <1>5, <1>2, <1>7 DEF Inv, Alone, OthersStay
  <2>4. o[1] \in DOMAIN job[c].snap /\ job[c].snap = file /\ file' # NoFile
    BY <2>2, <2>3, <1>4, NoFileIsNoFile DEF StillThere, OnDisk
  <2> QED
    BY <2>1, <2>3, <2>4, <1>4 DEF StillThere
<1>8. InStep(c)'
  BY <1>2, EndedInStep
<1>9. /\ owed' \subseteq Name \X Cmd /\ wrote' \subseteq Cmd /\ version' \in Nat
      /\ (prompt' \in Cmd => prompt' \in wrote') /\ wrote \subseteq wrote'
      /\ prompt' \in Cmd \cup {"pending", "ignored"}
      /\ queue' \subseteq Cmd /\ rows' \subseteq Row
  BY <1>3 DEF Inv, TypeOK, RecordedLast
<1> QED
  BY <1>1, <1>2, <1>3, <1>4, <1>6, <1>7, <1>8, <1>9, RunningStep DEF StepsFit
-----------------------------------------------------------------------------
\* A loader finds the file, or that there is none.
LEMMA FindFileKeeps ==
    ASSUME Inv, NEW c \in Cmd, FindFile(c)
    PROVE  Inv'
<1>1. /\ job[c].step = "load" /\ job[c].kind = "defaults" /\ Running(c)
      /\ UNCHANGED <<prompt, queue, rows, bundle, wrote, alone>>
      /\ job[c].mem.source = "org" => job[c].mem.allows = {}
      /\ NoneAdded(job[c].snap) /\ (prompt \in Cmd => prompt \in wrote)
  BY DEF FindFile, Running, rest, Inv, AllClean, RecordedLast
<1>2. CASE job[c].flag /\ file # NoFile
  <2>1. /\ file' = NoFile /\ version' = version + 1 /\ Goto(c, "create")
        /\ owed' = {o \in owed : o[1] \notin Name}
    BY <1>2 DEF FindFile, Replace
  <2>2. /\ job' \in [Cmd -> Jobs] /\ OthersStay(c) /\ job'[c].step = "create"
        /\ job'[c].kind = job[c].kind /\ job'[c].mem = job[c].mem /\ job'[c].snap = job[c].snap
    BY <2>1, GotoStep DEF Inv, Steps
  <2>3. owed' = {}
    BY <2>1 DEF Inv, TypeOK
  <2>4. InStep(c)' /\ OwedAreWritten' /\ StepsFit(c)'
    BY <2>2, <2>3
    DEF InStep, ReadIsCurrent, MemoryExtends, MemoryInstalls, NothingToLose, OwedAreWritten, StepsFit
  <2> QED
    BY <1>1, <2>1, <2>2, <2>3, <2>4, RunningStep DEF Inv, TypeOK
<1>3. CASE ~(job[c].flag /\ file # NoFile)
  <2> DEFINE s == IF file = NoFile THEN "create" ELSE "done"
  <2>1. Goto(c, s) /\ UNCHANGED <<file, version, owed>>
    BY <1>3 DEF FindFile
  <2>2. /\ job' \in [Cmd -> Jobs] /\ OthersStay(c) /\ job'[c].step = s
        /\ job'[c].kind = job[c].kind /\ job'[c].mem = job[c].mem /\ job'[c].snap = job[c].snap
    BY <2>1, GotoStep DEF Inv, Steps
  <2>3. alone /\ file = NoFile => owed = {}
    BY DEF Inv, Alone, StillThere
  <2>4. alone => InStep(c)'
    BY <2>1, <2>2, <2>3
    DEF InStep, ReadIsCurrent, MemoryExtends, MemoryInstalls, NothingToLose
  <2> QED
    BY <1>1, <2>1, <2>2, <2>4, QuietStep DEF Inv, TypeOK, StepsFit
<1> QED
  BY <1>2, <1>3

\* A loader creates an empty file.
LEMMA CreateFileKeeps ==
    ASSUME Inv, NEW c \in Cmd, CreateFile(c)
    PROVE  Inv'
<1> DEFINE v == IF file = NoFile THEN version + 1 ELSE version
           l == [job[c] EXCEPT !.step = "fill", !.seen = v]
<1>1. /\ job[c].step = "create" /\ Running(c) /\ file' = <<>> /\ version' = v
      /\ UNCHANGED <<prompt, queue, rows, bundle, wrote, owed, alone>>
  BY DEF CreateFile, Running, rest
<1>2. v \in Nat
  BY DEF Inv, TypeOK
<1>3. job' = [job EXCEPT ![c] = l]
  BY <1>1 DEF CreateFile, Inv, TypeOK
<1>4. /\ l \in Jobs /\ l.step = "fill" /\ l.kind = job[c].kind /\ l.mem = job[c].mem
      /\ l.snap = job[c].snap
  <2>1. job[c] \in Jobs /\ "fill" \in Steps
    BY DEF Inv, TypeOK, Steps
  <2> HIDE DEF v
  <2> QED
    BY <1>2, <2>1 DEF Jobs
<1> HIDE DEF l, v
<1>5. job' \in [Cmd -> Jobs] /\ job'[c] = l /\ OthersStay(c)
  BY <1>3, <1>4, JobStep DEF Inv
<1>6. alone => owed = {}
  BY <1>1 DEF Inv, Alone, InStep, NothingToLose
<1>7. alone => InStep(c)' /\ \A o \in owed' : StillThere(o)'
  BY <1>1, <1>4, <1>5, <1>6
  DEF InStep, ReadIsCurrent, MemoryExtends, MemoryInstalls, NothingToLose
<1>8. OwedAreWritten' /\ StepsFit(c)'
  BY <1>1, <1>4, <1>5 DEF Inv, TypeOK, OwedAreWritten, OthersStay, StepsFit
<1>9. /\ job[c].mem.source = "org" => job[c].mem.allows = {}
      /\ NoneAdded(job[c].snap) /\ (prompt \in Cmd => prompt \in wrote)
  BY DEF Inv, AllClean, RecordedLast
<1> QED
  BY <1>1, <1>2, <1>4, <1>5, <1>7, <1>8, <1>9, EmptyIsFile, RunningStep DEF Inv, TypeOK

\* A loader fills in the defaults.
LEMMA FillFileKeeps ==
    ASSUME Inv, NEW c \in Cmd, FillFile(c)
    PROVE  Inv'
<1>1. /\ job[c].step = "fill" /\ Running(c)
      /\ file' = Defaults \/ file' = file
      /\ UNCHANGED <<version, prompt, queue, rows, bundle, wrote, owed, alone>>
  BY DEF FillFile, Running, rest
<1>2. /\ job' \in [Cmd -> Jobs] /\ OthersStay(c) /\ job'[c].step = "done"
      /\ job'[c].kind = job[c].kind /\ job'[c].mem = job[c].mem /\ job'[c].snap = job[c].snap
  BY GotoStep DEF FillFile, Inv, Steps
<1>3. alone => \A o \in owed' : StillThere(o)'
  BY <1>1 DEF Inv, Alone, InStep, NothingToLose
<1>4. OwedAreWritten' /\ StepsFit(c)' /\ InStep(c)'
  BY <1>1, <1>2, EndedInStep DEF Inv, TypeOK, OwedAreWritten, OthersStay, StepsFit
<1>5. /\ job[c].mem.source = "org" => job[c].mem.allows = {}
      /\ NoneAdded(job[c].snap) /\ (prompt \in Cmd => prompt \in wrote)
      /\ file' \in Files \cup {NoFile} /\ (file' # NoFile => NoneAdded(file'))
  BY <1>1, DefaultsIsFile DEF Inv, TypeOK, AllClean, RecordedLast
<1> QED
  BY <1>1, <1>2, <1>3, <1>4, <1>5, RunningStep DEF Inv, TypeOK

\* `doctor --fix` reads the file.
LEMMA ReadForDoctorKeeps ==
    ASSUME Inv, NEW c \in Cmd, ReadForDoctor(c)
    PROVE  Inv'
<1>1. job[c].step = "load" /\ job[c].kind = "doctor" /\ Running(c)
  BY DEF ReadForDoctor, Running
<1>2. CASE Refuse(c)
  BY <1>1, <1>2, RefuseKeeps
<1>3. CASE ~Refuse(c)
  <2>1. /\ Shipped \in DOMAIN OnDisk(file)
        /\ job' = [job EXCEPT ![c].step = "rename", ![c].snap = OnDisk(file)]
        /\ UNCHANGED <<file, version, prompt, queue, rows, bundle, wrote, owed, alone>>
    BY <1>3 DEF ReadForDoctor, rest
  <2>2. OnDisk(file) \in Files /\ NoneAdded(OnDisk(file))
    BY LoadedIsFile DEF Inv, TypeOK, AllClean
  <2>3. /\ job' \in [Cmd -> Jobs] /\ OthersStay(c)
        /\ job'[c].step = "rename" /\ job'[c].snap = OnDisk(file)
        /\ job'[c].kind = job[c].kind /\ job'[c].mem = job[c].mem
    BY <2>1, <2>2, SnapStep DEF Inv
  <2>4. InStep(c)'
    BY <1>1, <2>1, <2>3
    DEF InStep, ReadIsCurrent, MemoryExtends, MemoryInstalls, NothingToLose, Upserts, OnDisk
  <2> QED
    BY <1>1, <2>1, <2>2, <2>3, <2>4, QuietStep DEF Inv, TypeOK, AllClean, RecordedLast, StepsFit
<1> QED
  BY <1>2, <1>3

\* The doctor's rename.
LEMMA RenameDoctorKeeps ==
    ASSUME Inv, NEW c \in Cmd, RenameDoctor(c)
    PROVE  Inv'
<1> DEFINE f == job[c].snap
           p == [f[Shipped] EXCEPT !.floor = TRUE]
<1>1. /\ job[c].step = "rename" /\ job[c].kind = "doctor" /\ Running(c)
      /\ f \in Files /\ NoneAdded(f) /\ Shipped \in DOMAIN f
      /\ job[c].mem.source = "org" => job[c].mem.allows = {}
      /\ (prompt \in Cmd => prompt \in wrote)
  BY DEF RenameDoctor, Running, Inv, TypeOK, Jobs, AllClean, KindsFit, StepsFit, RecordedLast
<1>2. /\ job' \in [Cmd -> Jobs] /\ OthersStay(c) /\ job'[c].step = "done"
      /\ job'[c].kind = job[c].kind /\ job'[c].mem = job[c].mem /\ job'[c].snap = f
  BY GotoStep DEF RenameDoctor, Inv, Steps
<1>3. /\ file' = [f EXCEPT ![Shipped].floor = TRUE] /\ version' = version + 1
      /\ wrote' = wrote \cup {c} /\ UNCHANGED <<prompt, queue, rows, bundle, owed, alone>>
  BY DEF RenameDoctor, rest
<1>4. p \in Profiles /\ p.source = f[Shipped].source /\ p.allows = f[Shipped].allows
  <2>1. f[Shipped] \in Profiles
    BY <1>1, FilesDef
  <2> QED
    BY <2>1 DEF Profiles
<1>5. /\ file' \in Files /\ NoneAdded(file') /\ DOMAIN file' = DOMAIN f
      /\ \A n \in DOMAIN f : file'[n].source = f[n].source /\ file'[n].allows = f[n].allows
  <2>1. file' = [f EXCEPT ![Shipped] = p]
    BY <1>3
  <2> HIDE DEF p
  <2>2. DOMAIN f \in SUBSET Name /\ f \in [DOMAIN f -> Profiles]
    BY <1>1, FilesDef
  <2>3. file' \in [DOMAIN f -> Profiles]
    BY <1>4, <2>1, <2>2
  <2>4. \A n \in DOMAIN f : file'[n].source = f[n].source /\ file'[n].allows = f[n].allows
    BY <1>1, <1>4, <2>1, <2>2
  <2> QED
    BY <1>1, <2>2, <2>3, <2>4, FilesIntro DEF NoneAdded
<1>6. ASSUME alone, NEW o \in owed'
      PROVE  StillThere(o)'
  <2>1. f = OnDisk(file)
    BY <1>1, <1>6 DEF Inv, Alone, InStep, ReadIsCurrent
  <2>2. StillThere(o) /\ o[2] \in Cmd /\ job[o[2]].kind = job'[o[2]].kind
    BY <1>2, <1>3, <1>6 DEF Inv, TypeOK, Alone, OthersStay
  <2>3. f = file /\ o[1] \in DOMAIN f /\ file' # NoFile
    BY <2>1, <2>2, <1>5, NoFileIsNoFile DEF StillThere, OnDisk
  <2> QED
    BY <2>2, <2>3, <1>5 DEF StillThere
<1>7. OwedAreWritten' /\ StepsFit(c)' /\ InStep(c)'
  BY <1>1, <1>2, <1>3, EndedInStep DEF Inv, TypeOK, OwedAreWritten, OthersStay, StepsFit
<1>8. wrote' \subseteq Cmd /\ version' \in Nat
  BY <1>3 DEF Inv, TypeOK
<1> QED
  BY <1>1, <1>2, <1>3, <1>5, <1>6, <1>7, <1>8, RunningStep DEF Inv, TypeOK

\* The prompt is answered by something else.
LEMMA AnswerOtherwiseKeeps ==
    ASSUME Inv, AnswerOtherwise
    PROVE  Inv'
<1>1. prompt' = "ignored" /\ UNCHANGED <<file, version, job, queue, rows, bundle, wrote, owed, alone>>
  BY DEF AnswerOtherwise
<1>2. TypeOK' /\ AllClean' /\ OwedAreWritten' /\ KindsFit'
  BY <1>1 DEF Inv, TypeOK, AllClean, OwedAreWritten, KindsFit, StepsFit
<1>3. RecordedLast'
  BY <1>1, ConstantsAssumption DEF Inv, RecordedLast
<1>4. Alone'
  BY <1>1 DEF Inv, Alone, Running, InStep, ReadIsCurrent, MemoryExtends, MemoryInstalls,
              NothingToLose, StillThere, OnDisk
<1> QED
  BY <1>2, <1>3, <1>4 DEF Inv
-----------------------------------------------------------------------------
\* The invariant holds of a file as it was installed.
LEMMA InitHolds == Init => Inv
<1> SUFFICES ASSUME Init
             PROVE  Inv
  OBVIOUS
<1> DEFINE bundled == [n \in Named |-> Profile("org", {}, TRUE)]
           edited  == [n \in {FullUser, Shipped} |-> Profile("local", {}, FALSE)]
<1>1. bundled \in Files /\ NoneAdded(bundled) /\ edited \in Files /\ NoneAdded(edited)
  <2>1. \A source \in {"local", "org"}, floor \in BOOLEAN :
          /\ Profile(source, {}, floor) \in Profiles
          /\ Profile(source, {}, floor).allows = {}
    BY PlainProfile
  <2>2. /\ bundled \in [Named -> Profiles] /\ Named \in SUBSET Name
        /\ edited \in [{FullUser, Shipped} -> Profiles] /\ {FullUser, Shipped} \in SUBSET Name
    BY <2>1 DEF Name
  <2>3. NoneAdded(bundled) /\ NoneAdded(edited)
    BY <2>1 DEF NoneAdded
  <2> QED
    BY <2>2, <2>3, FilesIntro
<1> HIDE DEF bundled, edited
<1>2. file \in Files \cup {NoFile} /\ (file # NoFile => NoneAdded(file))
  <2>1. Over(Defaults, bundled) \in Files /\ NoneAdded(Over(Defaults, bundled))
    BY <1>1, DefaultsIsFile, OverIsFile
  <2>2. file \in {NoFile, Defaults, Over(Defaults, bundled), edited}
    BY DEF Init, bundled, edited
  <2> QED
    BY <1>1, <2>1, <2>2, DefaultsIsFile
<1>3. /\ version = 0 /\ job = [c \in Cmd |-> Idle] /\ prompt = "pending" /\ queue = {}
      /\ rows = Row /\ bundle = NoBundle /\ wrote = {} /\ owed = {} /\ alone = TRUE
  BY DEF Init
<1>4. \A c \in Cmd : job[c] = Idle
  BY <1>3
<1>5. TypeOK
  BY <1>2, <1>3, IdleIsJob DEF TypeOK, NoBundle
<1>6. AllClean
  BY <1>2, <1>3, <1>4, IdleIsJob, EmptyIsFile DEF AllClean
<1>7. RecordedLast /\ OwedAreWritten /\ KindsFit
  BY <1>3, <1>4, IdleIsJob, ConstantsAssumption DEF RecordedLast, OwedAreWritten, KindsFit, StepsFit
<1>8. Alone
  BY <1>3, <1>4, IdleIsJob
  DEF Alone, Running, InStep, ReadIsCurrent, MemoryExtends, MemoryInstalls, NothingToLose
<1> QED
  BY <1>5, <1>6, <1>7, <1>8 DEF Inv

\* Every way a command can begin.
LEMMA BeginsKeep ==
    ASSUME Inv, NEW c \in Cmd,
           \/ BeginAnswer(c) \/ BeginAllow(c) \/ BeginAgent(c) \/ BeginSave(c)
           \/ BeginInstall(c) \/ BeginImport(c) \/ BeginDefaults(c) \/ BeginDoctor(c)
    PROVE  Inv'
<1>1. Named \subseteq Name /\ Shipped \in Name
  BY DEF Name
<1>2. CASE BeginAnswer(c)
  BY <1>2, StartKeeps DEF BeginAnswer, Upserts
<1>3. CASE BeginAllow(c)
  BY <1>3, StartKeeps DEF BeginAllow, Upserts
<1>4. CASE BeginAgent(c)
  BY <1>4, StartKeeps DEF BeginAgent, Upserts
<1>5. CASE BeginSave(c)
  BY <1>1, <1>5, StartKeeps DEF BeginSave, Upserts
<1>6. CASE BeginInstall(c)
  BY <1>1, <1>6, StartKeeps DEF BeginInstall
<1>7. CASE BeginImport(c)
  BY <1>1, <1>7, StartKeeps DEF BeginImport
<1>8. CASE BeginDefaults(c)
  BY <1>1, <1>8, StartKeeps DEF BeginDefaults
<1>9. CASE BeginDoctor(c)
  BY <1>1, <1>9, StartKeeps DEF BeginDoctor
<1> QED
  BY <1>2, <1>3, <1>4, <1>5, <1>6, <1>7, <1>8, <1>9

\* Every step keeps the invariant.
LEMMA NextKeeps == Inv /\ [Next]_vars => Inv'
<1> SUFFICES ASSUME Inv, [Next]_vars
             PROVE  Inv'
  OBVIOUS
<1>1. ASSUME NEW c \in Cmd, Kill(c)
      PROVE  Inv'
  BY <1>1, RefuseKeeps DEF Kill
<1>2. CASE UNCHANGED vars
  BY <1>2 DEF vars, Inv, TypeOK, AllClean, RecordedLast, OwedAreWritten, KindsFit, StepsFit, Alone,
              Running, InStep, ReadIsCurrent, MemoryExtends, MemoryInstalls, NothingToLose,
              StillThere, OnDisk
<1>3. ASSUME NEW c \in Cmd,
             \/ LoadProfile(c) \/ LoadNames(c) \/ ReadForUpsert(c) \/ RenameUpsert(c)
             \/ Record(c) \/ CheckConflict(c) \/ ReadForInstall(c) \/ RenameInstall(c)
      PROVE  Inv'
  BY <1>3, LoadProfileKeeps, LoadNamesKeeps, ReadForUpsertKeeps, RenameUpsertKeeps,
     RecordKeeps, CheckConflictKeeps, ReadForInstallKeeps, RenameInstallKeeps
<1>4. ASSUME NEW c \in Cmd,
             \/ ReadForImport(c) \/ DropRow(c) \/ InsertRow(c) \/ ReadForMerge(c)
             \/ RenameImport(c) \/ FindFile(c) \/ CreateFile(c) \/ FillFile(c)
             \/ ReadForDoctor(c) \/ RenameDoctor(c)
      PROVE  Inv'
  BY <1>4, ReadForImportKeeps, DropRowKeeps, InsertRowKeeps, ReadForMergeKeeps,
     RenameImportKeeps, FindFileKeeps, CreateFileKeeps, FillFileKeeps, ReadForDoctorKeeps,
     RenameDoctorKeeps
<1> QED
  BY <1>1, <1>2, <1>3, <1>4, BeginsKeep, AnswerOtherwiseKeeps, ExportKeeps DEF Next

\* Inv is inductive, so it holds throughout every run.
THEOREM Invariance == Spec => []Inv
<1> QED
  BY InitHolds, NextKeeps, PTL DEF Spec

\* The file is always a file of profiles, and every command holds one.
THEOREM TypeCorrect == Spec => []TypeOK
<1>1. Inv => TypeOK
  BY DEF Inv
<1> QED
  BY <1>1, Invariance, PTL

\* Whatever commands run, interleave, crash and whichever file they find, a profile
\* that an organisation distributed never carries a rule this host added.
THEOREM OrgProfilesStayClean == Spec => []OrgRulesAreTheirs
<1>1. Inv => OrgRulesAreTheirs
  BY DEF Inv, AllClean, NoneAdded, OrgRulesAreTheirs
<1> QED
  BY <1>1, Invariance, PTL

\* However `prompts answer` races other answers and other writers of the file, a
\* prompt that is recorded as answered by a command had its rule written before.
THEOREM AnswersWereApplied == Spec => []AnswerWasApplied
<1>1. Inv => AnswerWasApplied
  BY DEF Inv, RecordedLast, AnswerWasApplied
<1> QED
  BY <1>1, Invariance, PTL

\* As long as no two commands overlap, every rule and every installed profile that
\* was written is still in the file, whatever came after it: another answer, an
\* install, an import, a loader's defaults, a doctor's repair.
THEOREM OneAtATimeLosesNothing == Spec => []AloneNothingIsLost
<1>1. Inv => AloneNothingIsLost
  BY DEF Inv, Alone, AloneNothingIsLost
<1> QED
  BY <1>1, Invariance, PTL
-----------------------------------------------------------------------------
(* The store's file *)

AllTables == {"rules", "decisions", "prompts"}

Dbs == [tables : SUBSET AllTables, columns : SUBSET Columns, version : BOOLEAN, rule : BOOLEAN,
        log : Seq(Nat), prompts : SUBSET [row : Nat, of : Nat], meta : SUBSET S!MetaKeys,
        mixed : BOOLEAN]

Places == {"out", "tables", "columns", "alter", "stamp", "insert", "open"}
Procs  == [at : Places, inode : Nat, column : Columns \cup {"none"}]
Restorers == [at : {"idle", "inspect", "copy", "rename", "report", "done"},
              force : BOOLEAN, rule : BOOLEAN, holds : Dbs]

StoreTypes ==
    /\ inode \in Seq(Dbs) /\ path \in 0 .. Len(inode)
    /\ wal \in [of : Nat, holds : Dbs]
    /\ proc \in [Openers -> Procs]
    /\ \A o \in Openers : /\ proc[o].at # "out" => proc[o].inode \in 1 .. Len(inode)
                          /\ proc[o].at = "alter" => proc[o].column \in Columns
    /\ backup \in Dbs /\ restorer \in Restorers /\ born \in Nat

\* How far an Open has come is in the log, which every commit since has carried on:
\* a process that is past a statement keeps the log from being carried over.
Reached(at, w) ==
    /\ at \in {"columns", "alter", "stamp", "insert", "open"} =>
         w.of # 0 /\ w.holds.tables = AllTables
    /\ at \in {"stamp", "insert", "open"} => w.holds.columns = Columns
    /\ at = "open" => w.holds.version

Schema == \A o \in Openers : Reached(proc[o].at, wal)

\* A file that a restore is putting in place while nobody looks has no log beside it,
\* nor has a store that does not exist yet.
Deserted == wal = S!NoWal /\ \A o \in Openers : proc[o].at = "out"

Placed ==
    /\ path = 0 => Deserted
    /\ restorer.at \in {"copy", "rename", "report", "done"} /\ ~disturbed => Deserted
    /\ restorer.at \in {"report", "done"} => path # 0
    /\ restorer.at \in {"report", "done"} /\ ~disturbed => inode[path] = restorer.holds
    /\ restorer.at = "done" /\ ~disturbed => restorer.rule = restorer.holds.rule

StoreInv == StoreTypes /\ Schema /\ Placed

LEMMA FirstFiles ==
    /\ S!Empty \in Dbs /\ S!NoFile \in Dbs
    /\ S!NoWal \in [of : Nat, holds : Dbs] /\ S!NoWal.of = 0 /\ S!NoWal.holds = S!Empty
    /\ S!Out \in Procs /\ S!Out.at = "out"
  <1>1. S!Empty \in Dbs
    BY EmptySeq DEF S!Empty, Dbs, AllTables
  <1>2. S!NoFile \in Dbs
    BY <1>1 DEF S!NoFile, Dbs
  <1>3. /\ S!NoWal \in [of : Nat, holds : Dbs] /\ S!NoWal.of = 0 /\ S!NoWal.holds = S!Empty
    BY <1>1 DEF S!NoWal
  <1>4. S!Out \in Procs /\ S!Out.at = "out"
    BY DEF S!Out, Procs, Places
  <1> QED
    BY <1>1, <1>2, <1>3, <1>4

LEMMA StoreInit == S!Init => StoreInv
  <1> SUFFICES ASSUME S!Init PROVE StoreInv
    OBVIOUS
  <1>1. /\ inode = <<>> /\ path = 0 /\ wal = S!NoWal /\ proc = [o \in Openers |-> S!Out]
        /\ backup = S!NoFile /\ born = 0
        /\ restorer = [at |-> "idle", force |-> FALSE, rule |-> FALSE, holds |-> S!Empty]
    BY DEF S!Init
  <1>2. inode \in Seq(Dbs) /\ Len(inode) = 0
    BY <1>1, EmptySeq
  <1>3. restorer \in Restorers /\ restorer.at = "idle"
    BY <1>1, FirstFiles DEF Restorers
  <1>4. StoreTypes
    BY <1>1, <1>2, <1>3, FirstFiles DEF StoreTypes
  <1>5. Schema /\ Placed
    BY <1>1, <1>3, FirstFiles DEF Schema, Reached, Placed, Deserted
  <1> QED
    BY <1>4, <1>5 DEF StoreInv

\* What a reader of an inode sees is a database, and that of the log if there is one.
LEMMA SeenIs ==
    ASSUME StoreTypes, NEW i \in 1 .. Len(inode)
    PROVE  /\ S!Seen(i) \in Dbs
           /\ wal.of # 0 => /\ S!Seen(i).tables = wal.holds.tables
                            /\ S!Seen(i).columns = wal.holds.columns
                            /\ S!Seen(i).version = wal.holds.version
           /\ wal = S!NoWal => S!Seen(i) = inode[i]
  <1>1. inode[i] \in Dbs
    BY ElementOfSeq DEF StoreTypes
  <1>2. wal.holds \in Dbs
    BY DEF StoreTypes
  <1>3. /\ [wal.holds EXCEPT !.mixed = TRUE] \in Dbs
        /\ [wal.holds EXCEPT !.mixed = TRUE].tables = wal.holds.tables
        /\ [wal.holds EXCEPT !.mixed = TRUE].columns = wal.holds.columns
        /\ [wal.holds EXCEPT !.mixed = TRUE].version = wal.holds.version
    BY <1>2 DEF Dbs
  <1>4. wal.of # 0 => wal # S!NoWal
    BY FirstFiles
  <1> QED
    BY <1>1, <1>2, <1>3, <1>4 DEF S!Seen

-----------------------------------------------------------------------------
(* What a step of one process keeps *)

\* While a process has the file open nothing that is said of an undisturbed restore
\* can be at stake.
LEMMA PlacedStays ==
    ASSUME StoreTypes, Placed, NEW o \in Openers, proc[o].at # "out",
           UNCHANGED <<path, restorer, disturbed>>
    PROVE  Placed'
  <1>1. ~Deserted
    BY DEF Deserted
  <1>2. path # 0 /\ path' # 0
    BY <1>1 DEF Placed
  <1>3. restorer.at \in {"copy", "rename", "report", "done"} => disturbed
    BY <1>1 DEF Placed
  <1>4. restorer'.at \in {"report", "done"} => disturbed'
    BY <1>3
  <1> QED
    BY <1>2, <1>3, <1>4 DEF Placed

\* A place in an Open is kept by whatever carries on the schema.
LEMMA ReachedStays ==
    ASSUME NEW at, NEW w, NEW v, Reached(at, w), v.of # 0,
           w.of # 0 => /\ w.holds.tables = AllTables => v.holds.tables = AllTables
                       /\ w.holds.columns = Columns => v.holds.columns = Columns
                       /\ w.holds.version => v.holds.version
    PROVE  Reached(at, v)
  BY DEF Reached

\* The process that takes a step, to a place that it may be in.
LEMMA ProcMoves ==
    ASSUME StoreTypes, NEW o \in Openers, NEW at \in Places, at # "alter",
           proc' = [proc EXCEPT ![o].at = at]
    PROVE  /\ proc' \in [Openers -> Procs]
           /\ proc'[o] = [proc[o] EXCEPT !.at = at] /\ proc'[o].at = at
           /\ proc'[o].inode = proc[o].inode
           /\ \A p \in Openers \ {o} : proc'[p] = proc[p]
  <1>1. proc \in [Openers -> Procs]
    BY DEF StoreTypes
  <1>2. proc[o] \in Procs
    BY <1>1
  <1>3. proc' = [proc EXCEPT ![o] = [proc[o] EXCEPT !.at = at]]
    BY <1>1
  <1>4. [proc[o] EXCEPT !.at = at] \in Procs
    BY <1>2 DEF Procs
  <1>5. /\ [proc[o] EXCEPT !.at = at].at = at
        /\ [proc[o] EXCEPT !.at = at].inode = proc[o].inode
    BY <1>2 DEF Procs
  <1>6. proc'[o] = [proc[o] EXCEPT !.at = at]
    BY <1>1, <1>3
  <1> QED
    BY <1>1, <1>3, <1>4, <1>5, <1>6

\* A commit of a process on its way to "at".
LEMMA CommitKeeps ==
    ASSUME StoreInv, NEW o \in Openers, proc[o].at # "out", NEW db \in Dbs,
           NEW at \in Places, at # "alter",
           S!Commit(proc[o].inode, db), proc' = [proc EXCEPT ![o].at = at],
           Reached(at, [of |-> proc[o].inode, holds |-> db]),
           wal.of # 0 => /\ wal.holds.tables = AllTables => db.tables = AllTables
                         /\ wal.holds.columns = Columns => db.columns = Columns
                         /\ wal.holds.version => db.version,
           UNCHANGED <<restorer, disturbed, backup>>, born' \in Nat
    PROVE  StoreInv'
  <1> USE DEF StoreInv
  <1>1. /\ wal' = [of |-> proc[o].inode, holds |-> db] /\ UNCHANGED <<inode, path>>
        /\ wal'.of = proc[o].inode /\ wal'.holds = db
    BY DEF S!Commit
  <1>2. proc[o].inode \in 1 .. Len(inode) /\ wal'.of # 0
    BY <1>1 DEF StoreTypes
  <1>3. Len(inode) \in Nat /\ proc[o].inode \in Nat
    BY <1>2, LenProperties DEF StoreTypes
  <1>4. wal' \in [of : Nat, holds : Dbs]
    BY <1>1, <1>3
  <1>5. /\ proc' \in [Openers -> Procs]
        /\ proc'[o].at = at /\ proc'[o].inode = proc[o].inode
        /\ \A p \in Openers \ {o} : proc'[p] = proc[p]
    BY ProcMoves
  <1>6. StoreTypes'
    BY <1>1, <1>2, <1>4, <1>5 DEF StoreTypes
  <1>7. Schema'
    <2>1. Reached(proc'[o].at, wal')
      BY <1>1, <1>5
    <2>2. ASSUME NEW p \in Openers \ {o} PROVE Reached(proc'[p].at, wal')
      <3>1. Reached(proc[p].at, wal)
        BY DEF Schema
      <3>2. Reached(proc[p].at, wal')
        BY <3>1, <1>1, <1>2, ReachedStays
      <3> QED
        BY <3>2, <1>5
    <2> QED
      BY <2>1, <2>2 DEF Schema
  <1>8. Placed'
    BY <1>1, PlacedStays
  <1> QED
    BY <1>6, <1>7, <1>8

\* A step of a process that commits nothing.
LEMMA MoveKeeps ==
    ASSUME StoreInv, NEW o \in Openers, proc[o].at # "out", NEW at \in Places, at # "alter",
           proc' = [proc EXCEPT ![o].at = at], Reached(at, wal),
           UNCHANGED <<inode, path, wal, restorer, disturbed, backup, born>>
    PROVE  StoreInv'
  <1> USE DEF StoreInv
  <1>1. /\ proc' \in [Openers -> Procs]
        /\ proc'[o].at = at /\ proc'[o].inode = proc[o].inode
        /\ \A p \in Openers \ {o} : proc'[p] = proc[p]
    BY ProcMoves
  <1>2. StoreTypes'
    BY <1>1 DEF StoreTypes
  <1>3. Schema'
    BY <1>1 DEF Schema
  <1>4. Placed'
    BY PlacedStays
  <1> QED
    BY <1>2, <1>3, <1>4

\* The last to close carries the log over: nobody else has the file open.
LEMMA Carried ==
    ASSUME StoreTypes, NEW i \in 1 .. Len(inode), S!LastCloses(i)
    PROVE  /\ inode' \in Seq(Dbs) /\ Len(inode') = Len(inode)
           /\ wal' = S!NoWal
           /\ \A j \in 1 .. Len(inode) : j # i => inode'[j] = inode[j]
           /\ inode'[i] = S!Seen(i)
  <1>1. CASE wal = S!NoWal
    <2>1. UNCHANGED <<inode, wal>>
      BY <1>1 DEF S!LastCloses
    <2> QED
      BY <2>1, <1>1, SeenIs DEF StoreTypes
  <1>2. CASE wal # S!NoWal
    <2>1. inode' = [inode EXCEPT ![i] = S!Seen(i)] /\ wal' = S!NoWal
      BY <1>2 DEF S!LastCloses
    <2>2. S!Seen(i) \in Dbs
      BY SeenIs
    <2>3. inode \in Seq(Dbs)
      BY DEF StoreTypes
    <2>4. inode' \in Seq(Dbs) /\ Len(inode') = Len(inode)
      BY <2>1, <2>2, <2>3, ExceptSeq
    <2> QED
      BY <2>1, <2>3, <2>4, ExceptSeq, <2>2
  <1> QED
    BY <1>1, <1>2

\* A process that closes the file, by the way of an error or not.
LEMMA LeaveKeeps ==
    ASSUME StoreInv, NEW o \in Openers, proc[o].at # "out",
           proc' = [proc EXCEPT ![o] = S!Out],
           \/ UNCHANGED <<inode, wal>>
           \/ S!Connected = {o} /\ S!LastCloses(proc[o].inode),
           UNCHANGED <<path, restorer, disturbed, backup, born>>
    PROVE  StoreInv'
  <1> USE DEF StoreInv
  <1>1. /\ proc' \in [Openers -> Procs] /\ proc'[o].at = "out"
        /\ \A p \in Openers \ {o} : proc'[p] = proc[p]
    BY FirstFiles DEF StoreTypes
  <1>2. Reached("out", wal')
    BY DEF Reached
  <1>3. Placed'
    BY PlacedStays
  <1>4. CASE UNCHANGED <<inode, wal>>
    <2>1. StoreTypes'
      BY <1>1, <1>4 DEF StoreTypes
    <2>2. Schema'
      BY <1>1, <1>2, <1>4 DEF Schema
    <2> QED
      BY <2>1, <2>2, <1>3
  <1>5. CASE S!Connected = {o} /\ S!LastCloses(proc[o].inode)
    <2>1. proc[o].inode \in 1 .. Len(inode)
      BY DEF StoreTypes
    <2>2. inode' \in Seq(Dbs) /\ Len(inode') = Len(inode) /\ wal' = S!NoWal
      BY <2>1, <1>5, Carried
    <2>3. \A p \in Openers : proc'[p].at = "out"
      BY <1>1, <1>5 DEF S!Connected
    <2>4. StoreTypes'
      BY <1>1, <2>2, <2>3, FirstFiles DEF StoreTypes
    <2>5. Schema'
      BY <2>3, <1>2 DEF Schema
    <2> QED
      BY <2>4, <2>5, <1>3
  <1> QED
    BY <1>4, <1>5

-----------------------------------------------------------------------------
(* The steps of a process *)

LEMMA OpenKeeps ==
    ASSUME StoreInv, NEW o \in Openers, S!Open(o)
    PROVE  StoreInv'
  <1> USE DEF StoreInv
  <1> DEFINE row == [at |-> "tables", inode |-> path', column |-> "none"]
  <1>1. /\ proc[o].at = "out"
        /\ \/ path = 0 /\ inode' = Append(inode, S!Empty) /\ path' = Len(inode')
           \/ path # 0 /\ UNCHANGED <<inode, path>>
        /\ UNCHANGED <<wal, backup, restorer, born>>
        /\ disturbed' = (disturbed \/ restorer.at \in {"copy", "rename", "report", "done"})
    BY DEF S!Open
  <1>2. proc' = [proc EXCEPT ![o] = row]
    BY DEF S!Open
  <1>3. inode \in Seq(Dbs) /\ Len(inode) \in Nat /\ path \in 0 .. Len(inode)
    BY LenProperties DEF StoreTypes
  <1>4. inode' \in Seq(Dbs) /\ Len(inode') >= Len(inode) /\ path' \in 1 .. Len(inode')
    BY <1>1, <1>3, FirstFiles, AppendProperties
  <1>5. row \in Procs /\ row.at = "tables" /\ row.inode = path'
    BY <1>3, <1>4, LenProperties DEF Procs, Places
  <1>6. /\ proc' \in [Openers -> Procs] /\ proc'[o] = row
        /\ \A p \in Openers \ {o} : proc'[p] = proc[p]
    BY <1>2, <1>5 DEF StoreTypes
  <1>7. StoreTypes'
    <2>1. path' \in 0 .. Len(inode')
      BY <1>4
    <2>2. ASSUME NEW p \in Openers \ {o}, proc[p].at # "out"
          PROVE  proc[p].inode \in 1 .. Len(inode')
      BY <2>2, <1>3, <1>4, LenProperties DEF StoreTypes
    <2> QED
      BY <1>1, <1>4, <1>5, <1>6, <2>1, <2>2 DEF StoreTypes
  <1>8. Schema'
    <2>1. Reached("tables", wal')
      BY DEF Reached
    <2> QED
      BY <1>1, <1>5, <1>6, <2>1 DEF Schema
  <1>9. Placed'
    <2>1. path' # 0
      BY <1>4, <1>3
    <2> QED
      BY <1>1, <2>1 DEF Placed
  <1> QED
    BY <1>7, <1>8, <1>9

LEMMA CreateTablesKeeps ==
    ASSUME StoreInv, NEW o \in Openers, S!CreateTables(o)
    PROVE  StoreInv'
  <1> DEFINE seen == S!Seen(proc[o].inode)
             db == [seen EXCEPT !.tables = {"rules", "decisions", "prompts"}]
  <1>1. /\ proc[o].at = "tables" /\ proc' = [proc EXCEPT ![o].at = "columns"]
        /\ S!Commit(proc[o].inode, db)
        /\ UNCHANGED <<backup, restorer, born, disturbed>>
    BY DEF S!CreateTables, S!Go
  <1>2. proc[o].inode \in 1 .. Len(inode) /\ StoreTypes
    BY <1>1 DEF StoreInv, StoreTypes
  <1>3. seen \in Dbs /\ (wal.of # 0 => /\ seen.columns = wal.holds.columns
                                       /\ seen.version = wal.holds.version)
    BY <1>2, SeenIs
  <1>4. db \in Dbs /\ db.tables = AllTables /\ db.columns = seen.columns /\ db.version = seen.version
    BY <1>3 DEF Dbs, AllTables
  <1>5. proc[o].inode # 0 /\ born \in Nat
    BY <1>2 DEF StoreTypes
  <1> HIDE DEF db, seen
  <1>6. Reached("columns", [of |-> proc[o].inode, holds |-> db])
    BY <1>4, <1>5 DEF Reached
  <1>7. "columns" \in Places
    BY DEF Places
  <1> QED
    BY <1>1, <1>3, <1>4, <1>5, <1>6, <1>7, CommitKeeps

LEMMA CheckColumnKeeps ==
    ASSUME StoreInv, NEW o \in Openers, S!CheckColumn(o)
    PROVE  StoreInv'
  <1> DEFINE missing == S!Missing(S!Seen(proc[o].inode))
  <1>1. /\ proc[o].at = "columns" /\ UNCHANGED <<inode, path, wal, backup, restorer, born, disturbed>>
        /\ \/ missing = {} /\ proc' = [proc EXCEPT ![o].at = "stamp"]
           \/ \E c \in missing : proc' = [proc EXCEPT ![o].at = "alter", ![o].column = c]
    BY DEF S!CheckColumn, S!Go, S!files
  <1>2. proc[o].inode \in 1 .. Len(inode) /\ StoreTypes
    BY <1>1 DEF StoreInv, StoreTypes
  <1>3. Reached("columns", wal)
    BY <1>1 DEF StoreInv, Schema
  <1>4. wal.of # 0 /\ wal.holds.tables = AllTables
    BY <1>3 DEF Reached
  <1>5. /\ S!Seen(proc[o].inode) \in Dbs
        /\ S!Seen(proc[o].inode).columns = wal.holds.columns
    BY <1>2, <1>4, SeenIs
  <1>6. missing = Columns \ wal.holds.columns /\ wal.holds.columns \subseteq Columns
    BY <1>5 DEF S!Missing, Dbs
  <1>7. CASE missing = {} /\ proc' = [proc EXCEPT ![o].at = "stamp"]
    <2>1. Reached("stamp", wal)
      BY <1>4, <1>6, <1>7 DEF Reached
    <2>2. "stamp" \in Places
      BY DEF Places
    <2> QED
      BY <1>1, <1>7, <2>1, <2>2, MoveKeeps
  <1>8. CASE \E c \in missing : proc' = [proc EXCEPT ![o].at = "alter", ![o].column = c]
    <2>1. PICK c \in missing : proc' = [proc EXCEPT ![o].at = "alter", ![o].column = c]
      BY <1>8
    <2>2. c \in Columns
      BY <1>6
    <2>3. /\ proc' \in [Openers -> Procs]
          /\ proc'[o].at = "alter" /\ proc'[o].inode = proc[o].inode /\ proc'[o].column = c
          /\ \A p \in Openers \ {o} : proc'[p] = proc[p]
      <3>1. proc \in [Openers -> Procs] /\ proc[o] \in Procs
        BY <1>2 DEF StoreTypes
      <3>2. [proc[o] EXCEPT !.at = "alter", !.column = c] \in Procs
        BY <3>1, <2>2 DEF Procs, Places
      <3> QED
        BY <2>1, <3>1, <3>2 DEF Procs
    <2>4. StoreTypes'
      BY <1>1, <1>2, <2>2, <2>3 DEF StoreTypes
    <2>5. Reached("alter", wal)
      BY <1>4 DEF Reached
    <2>6. Schema'
      BY <1>1, <2>3, <2>5 DEF Schema, StoreInv
    <2>7. Placed'
      BY <1>1, PlacedStays DEF StoreInv
    <2> QED
      BY <2>4, <2>6, <2>7 DEF StoreInv
  <1> QED
    BY <1>1, <1>7, <1>8

LEMMA FailKeeps ==
    ASSUME StoreInv, NEW o \in Openers, proc[o].at # "out", S!Fail(o),
           UNCHANGED <<restorer, disturbed, backup, born>>
    PROVE  StoreInv'
  BY LeaveKeeps DEF S!Fail

LEMMA AlterTableKeeps ==
    ASSUME StoreInv, NEW o \in Openers, S!AlterTable(o)
    PROVE  StoreInv'
  <1> DEFINE seen == S!Seen(proc[o].inode)
             db == [seen EXCEPT !.columns = @ \cup {proc[o].column}]
  <1>1. /\ proc[o].at = "alter" /\ UNCHANGED <<backup, restorer, born, disturbed>>
        /\ \/ S!Fail(o)
           \/ proc' = [proc EXCEPT ![o].at = "columns"] /\ S!Commit(proc[o].inode, db)
    BY DEF S!AlterTable, S!Go
  <1>2. proc[o].inode \in 1 .. Len(inode) /\ proc[o].column \in Columns /\ StoreTypes
    BY <1>1 DEF StoreInv, StoreTypes
  <1>3. wal.of # 0 /\ wal.holds.tables = AllTables
    BY <1>1 DEF StoreInv, Schema, Reached
  <1>4. /\ seen \in Dbs /\ seen.columns = wal.holds.columns
        /\ seen.tables = wal.holds.tables /\ seen.version = wal.holds.version
    BY <1>2, <1>3, SeenIs
  <1>5. /\ db \in Dbs /\ db.tables = AllTables /\ db.version = seen.version
        /\ db.columns = seen.columns \cup {proc[o].column}
    BY <1>2, <1>3, <1>4 DEF Dbs
  <1>6. proc[o].inode # 0 /\ born \in Nat
    BY <1>2 DEF StoreTypes
  <1>7. CASE S!Fail(o)
    BY <1>1, <1>7, FailKeeps
  <1>8. CASE proc' = [proc EXCEPT ![o].at = "columns"] /\ S!Commit(proc[o].inode, db)
    <2> HIDE DEF db, seen
    <2>1. Reached("columns", [of |-> proc[o].inode, holds |-> db])
      BY <1>5, <1>6 DEF Reached
    <2>2. "columns" \in Places
      BY DEF Places
    <2>3. wal.holds.columns = Columns => db.columns = Columns
      BY <1>2, <1>4, <1>5
    <2> QED
      BY <1>1, <1>4, <1>5, <1>6, <1>8, <2>1, <2>2, <2>3, CommitKeeps
  <1> QED
    BY <1>1, <1>7, <1>8

LEMMA ReadVersionKeeps ==
    ASSUME StoreInv, NEW o \in Openers, S!ReadVersion(o)
    PROVE  StoreInv'
  <1>1. /\ proc[o].at = "stamp" /\ UNCHANGED <<inode, path, wal, backup, restorer, born, disturbed>>
        /\ \/ S!Seen(proc[o].inode).version /\ proc' = [proc EXCEPT ![o].at = "open"]
           \/ proc' = [proc EXCEPT ![o].at = "insert"]
    BY DEF S!ReadVersion, S!Go, S!files
  <1>2. Reached("stamp", wal)
    BY <1>1 DEF StoreInv, Schema
  <1>3. proc[o].inode \in 1 .. Len(inode) /\ StoreTypes
    BY <1>1 DEF StoreInv, StoreTypes
  <1>4. S!Seen(proc[o].inode).version = wal.holds.version
    BY <1>2, <1>3, SeenIs DEF Reached
  <1>5. Reached("insert", wal) /\ (wal.holds.version => Reached("open", wal))
    BY <1>2 DEF Reached
  <1>6. "open" \in Places /\ "insert" \in Places
    BY DEF Places
  <1> QED
    BY <1>1, <1>4, <1>5, <1>6, MoveKeeps

LEMMA InsertVersionKeeps ==
    ASSUME StoreInv, NEW o \in Openers, S!InsertVersion(o)
    PROVE  StoreInv'
  <1> DEFINE seen == S!Seen(proc[o].inode)
             db == [seen EXCEPT !.version = TRUE]
  <1>1. /\ proc[o].at = "insert" /\ UNCHANGED <<backup, restorer, born, disturbed>>
        /\ \/ S!Fail(o)
           \/ proc' = [proc EXCEPT ![o].at = "open"] /\ S!Commit(proc[o].inode, db)
    BY DEF S!InsertVersion, S!Go
  <1>2. proc[o].inode \in 1 .. Len(inode) /\ StoreTypes
    BY <1>1 DEF StoreInv, StoreTypes
  <1>3. wal.of # 0 /\ wal.holds.tables = AllTables /\ wal.holds.columns = Columns
    BY <1>1 DEF StoreInv, Schema, Reached
  <1>4. seen \in Dbs /\ seen.columns = wal.holds.columns /\ seen.tables = wal.holds.tables
    BY <1>2, <1>3, SeenIs
  <1>5. db \in Dbs /\ db.tables = AllTables /\ db.version /\ db.columns = Columns
    BY <1>3, <1>4 DEF Dbs
  <1>6. proc[o].inode # 0 /\ born \in Nat
    BY <1>2 DEF StoreTypes
  <1>7. CASE S!Fail(o)
    BY <1>1, <1>7, FailKeeps
  <1>8. CASE proc' = [proc EXCEPT ![o].at = "open"] /\ S!Commit(proc[o].inode, db)
    <2> HIDE DEF db, seen
    <2>1. Reached("open", [of |-> proc[o].inode, holds |-> db])
      BY <1>5, <1>6 DEF Reached
    <2>2. "open" \in Places
      BY DEF Places
    <2> QED
      BY <1>1, <1>5, <1>6, <1>8, <2>1, <2>2, CommitKeeps
  <1> QED
    BY <1>1, <1>7, <1>8

LEMMA WriteKeeps ==
    ASSUME StoreInv, NEW o \in Openers, S!Write(o)
    PROVE  StoreInv'
  <1> DEFINE seen == S!Seen(proc[o].inode)
             decided == [seen EXCEPT !.log = Append(@, born'),
                            !.prompts = @ \cup {[row |-> Len(seen.log) + 1, of |-> born']}]
             ruled == [seen EXCEPT !.rule = TRUE]
  <1>1. /\ proc[o].at = "open" /\ UNCHANGED <<proc, backup, restorer, disturbed>>
        /\ \/ born' = born + 1 /\ S!Commit(proc[o].inode, decided)
           \/ UNCHANGED born /\ S!Commit(proc[o].inode, ruled)
    BY DEF S!Write
  <1>2. proc[o].inode \in 1 .. Len(inode) /\ born \in Nat /\ StoreTypes
    BY <1>1 DEF StoreInv, StoreTypes
  <1>3. /\ wal.of # 0 /\ wal.holds.tables = AllTables /\ wal.holds.columns = Columns
        /\ wal.holds.version
    BY <1>1 DEF StoreInv, Schema, Reached
  <1>4. /\ seen \in Dbs /\ seen.columns = Columns /\ seen.tables = AllTables /\ seen.version
    BY <1>2, <1>3, SeenIs
  <1>5. proc' = [proc EXCEPT ![o].at = "open"]
    BY <1>1, <1>2 DEF StoreTypes, Procs
  <1>6. proc[o].inode # 0 /\ "open" \in Places
    BY <1>2 DEF StoreTypes, Places
  <1>7. ASSUME NEW db \in Dbs, S!Commit(proc[o].inode, db), born' \in Nat,
               db.tables = AllTables, db.columns = Columns, db.version
        PROVE  StoreInv'
    <2>1. Reached("open", [of |-> proc[o].inode, holds |-> db])
      BY <1>6, <1>7 DEF Reached
    <2> QED
      BY <1>1, <1>5, <1>6, <1>7, <2>1, CommitKeeps
  <1>8. CASE born' = born + 1 /\ S!Commit(proc[o].inode, decided)
    <2>1. seen.log \in Seq(Nat) /\ seen.prompts \subseteq [row : Nat, of : Nat] /\ born' \in Nat
      BY <1>2, <1>4, <1>8 DEF Dbs
    <2>2. Append(seen.log, born') \in Seq(Nat) /\ Len(seen.log) + 1 \in Nat
      BY <2>1, AppendProperties, LenProperties
    <2>3. [row |-> Len(seen.log) + 1, of |-> born'] \in [row : Nat, of : Nat]
      BY <2>1, <2>2
    <2>4. /\ decided \in Dbs /\ decided.tables = AllTables /\ decided.columns = Columns
          /\ decided.version
      BY <1>4, <2>1, <2>2, <2>3 DEF Dbs
    <2> HIDE DEF decided
    <2> QED
      BY <1>7, <1>8, <2>1, <2>4
  <1>9. CASE UNCHANGED born /\ S!Commit(proc[o].inode, ruled)
    <2>1. ruled \in Dbs /\ ruled.tables = AllTables /\ ruled.columns = Columns /\ ruled.version
      BY <1>4 DEF Dbs
    <2> HIDE DEF ruled
    <2> QED
      BY <1>2, <1>7, <1>9, <2>1
  <1> QED
    BY <1>1, <1>8, <1>9

LEMMA CloseKeeps ==
    ASSUME StoreInv, NEW o \in Openers, S!Close(o) \/ S!Crash(o)
    PROVE  StoreInv'
  <1>1. /\ proc[o].at # "out" /\ proc' = [proc EXCEPT ![o] = S!Out]
        /\ UNCHANGED <<path, restorer, disturbed, backup, born>>
        /\ \/ UNCHANGED <<inode, wal>>
           \/ S!Connected = {o} /\ S!LastCloses(proc[o].inode)
    BY DEF S!Close, S!Crash, S!files
  <1> QED
    BY <1>1, LeaveKeeps

-----------------------------------------------------------------------------
(* The steps of a backup and of a restore *)

LEMMA BackupKeeps ==
    ASSUME StoreInv, \/ \E o \in Openers : S!StartBackup(o)
                     \/ S!DropExcluded \/ S!WriteMeta \/ S!BackupFails
    PROVE  StoreInv'
  <1> USE DEF StoreInv
  <1>1. UNCHANGED <<inode, path, wal, proc, restorer, born, disturbed>>
    BY DEF S!StartBackup, S!DropExcluded, S!WriteMeta, S!BackupFails, S!files
  <1>2. backup' \in Dbs
    <2>1. CASE \E o \in Openers : S!StartBackup(o)
      <3>1. PICK o \in Openers : proc[o].at = "open" /\ backup' = S!Seen(proc[o].inode)
        BY <2>1 DEF S!StartBackup
      <3>2. proc[o].inode \in 1 .. Len(inode)
        BY <3>1 DEF StoreTypes
      <3> QED
        BY <3>1, <3>2, SeenIs
    <2>2. CASE S!DropExcluded
      <3>1. backup' = S!Stripped(backup, saver.takes)
        BY <2>2 DEF S!DropExcluded
      <3>2. backup \in Dbs /\ <<>> \in Seq(Nat)
        BY EmptySeq DEF StoreTypes
      <3> QED
        BY <3>1, <3>2 DEF S!Stripped, Dbs
    <2>3. CASE S!WriteMeta
      <3>1. \/ backup' = backup
            \/ \E k \in S!MetaKeys : backup' = [backup EXCEPT !.meta = @ \cup {k}]
        BY <2>3 DEF S!WriteMeta
      <3>2. backup \in Dbs
        BY DEF StoreTypes
      <3>3. ASSUME NEW k \in S!MetaKeys PROVE [backup EXCEPT !.meta = @ \cup {k}] \in Dbs
        BY <3>2 DEF Dbs
      <3> QED
        BY <3>1, <3>2, <3>3
    <2>4. CASE S!BackupFails
      BY <2>4, FirstFiles DEF S!BackupFails
    <2> QED
      BY <2>1, <2>2, <2>3, <2>4
  <1>3. StoreTypes'
    BY <1>1, <1>2 DEF StoreTypes
  <1>4. Schema'
    BY <1>1 DEF Schema
  <1>5. Placed'
    BY <1>1 DEF Placed, Deserted
  <1> QED
    BY <1>3, <1>4, <1>5

\* A restore goes on, or stops, with the files as they are.
LEMMA RestorerMoves ==
    ASSUME StoreInv, UNCHANGED <<inode, path, wal, proc, backup, born>>,
           restorer' \in Restorers,
           restorer'.at \in {"idle", "inspect"}
    PROVE  StoreInv'
  <1> USE DEF StoreInv
  <1>1. StoreTypes'
    BY DEF StoreTypes
  <1>2. Schema'
    BY DEF Schema
  <1>3. Placed'
    BY DEF Placed, Deserted
  <1> QED
    BY <1>1, <1>2, <1>3

\* A step of the restorer changes only where it is.
LEMMA RestorerSteps ==
    ASSUME StoreTypes,
           NEW at \in {"idle", "inspect", "copy", "rename", "report", "done"}, S!Step(at)
    PROVE  /\ restorer' \in Restorers /\ restorer'.at = at
           /\ restorer'.holds = restorer.holds /\ restorer'.rule = restorer.rule
  BY DEF StoreTypes, Restorers, S!Step

LEMMA ProbeKeeps == ASSUME StoreInv, S!Probe PROVE StoreInv'
  <1>1. /\ UNCHANGED <<inode, path, wal, proc, backup, born>>
        /\ \E force \in BOOLEAN, at \in {"idle", "inspect"} :
             restorer' = [restorer EXCEPT !.at = at, !.force = force, !.holds = backup]
    BY DEF S!Probe, S!files
  <1>2. restorer \in Restorers /\ backup \in Dbs
    BY DEF StoreInv, StoreTypes
  <1>3. restorer' \in Restorers /\ restorer'.at \in {"idle", "inspect"}
    BY <1>1, <1>2 DEF Restorers
  <1> QED
    BY <1>1, <1>3, RestorerMoves

\* With nobody there the log goes with the file that the restore will replace.
LEMMA InspectKeeps == ASSUME StoreInv, S!Inspect PROVE StoreInv'
  <1> USE DEF StoreInv
  <1>1. /\ disturbed' = (S!Connected # {})
        /\ UNCHANGED <<path, proc, backup, born>>
        /\ S!Step("idle") \/ S!Step("copy")
        /\ path = 0 => UNCHANGED <<inode, wal>>
        /\ path # 0 => IF S!Connected = {} THEN S!LastCloses(path) ELSE UNCHANGED <<inode, wal>>
    BY DEF S!Inspect
  <1>2. restorer' \in Restorers /\ restorer'.at \in {"idle", "copy"}
    BY <1>1, RestorerSteps
  <1>3. ~disturbed' => /\ \A o \in Openers : proc[o].at = "out"
                       /\ wal' = S!NoWal
    <2>1. SUFFICES ASSUME S!Connected = {} PROVE (\A o \in Openers : proc[o].at = "out") /\ wal' = S!NoWal
      BY <1>1
    <2>2. \A o \in Openers : proc[o].at = "out"
      BY <2>1 DEF S!Connected
    <2>3. CASE path = 0
      BY <1>1, <2>2, <2>3 DEF Placed, Deserted
    <2>4. CASE path # 0
      <3>1. path \in 1 .. Len(inode)
        BY <2>4, LenProperties DEF StoreTypes
      <3>2. S!LastCloses(path)
        BY <1>1, <2>1, <2>4
      <3> QED
        BY <2>2, <3>1, <3>2, Carried
    <2> QED
      BY <2>2, <2>3, <2>4
  <1>4. CASE UNCHANGED <<inode, wal>>
    <2>1. StoreTypes'
      BY <1>1, <1>2, <1>4 DEF StoreTypes
    <2>2. Schema'
      BY <1>1, <1>4 DEF Schema
    <2>3. Placed'
      BY <1>1, <1>2, <1>3, <1>4 DEF Placed, Deserted
    <2> QED
      BY <2>1, <2>2, <2>3
  <1>5. CASE path # 0 /\ S!Connected = {} /\ S!LastCloses(path)
    <2>1. path \in 1 .. Len(inode)
      BY <1>5, LenProperties DEF StoreTypes
    <2>2. inode' \in Seq(Dbs) /\ Len(inode') = Len(inode) /\ wal' = S!NoWal
      BY <2>1, <1>5, Carried
    <2>3. \A o \in Openers : proc'[o].at = "out"
      BY <1>1, <1>5 DEF S!Connected
    <2>4. StoreTypes'
      BY <1>1, <1>2, <2>2, <2>3, FirstFiles DEF StoreTypes
    <2>5. Schema'
      BY <2>3 DEF Schema, Reached
    <2>6. Placed'
      BY <1>1, <1>2, <1>5, <2>2, <2>3 DEF Placed, Deserted
    <2> QED
      BY <2>4, <2>5, <2>6
  <1> QED
    BY <1>1, <1>4, <1>5

LEMMA CopyKeeps == ASSUME StoreInv, S!Copy PROVE StoreInv'
  <1> USE DEF StoreInv
  <1>1. /\ restorer.at = "copy" /\ UNCHANGED <<inode, path, wal, proc, backup, born, disturbed>>
        /\ \E at \in {"idle", "rename"} :
             restorer' = [restorer EXCEPT !.at = at, !.holds = backup]
    BY DEF S!Copy, S!files
  <1>2. restorer' \in Restorers /\ restorer'.at \in {"idle", "rename"}
    BY <1>1 DEF StoreTypes, Restorers
  <1>3. StoreTypes'
    BY <1>1, <1>2 DEF StoreTypes
  <1>4. Schema'
    BY <1>1 DEF Schema
  <1>5. Placed'
    BY <1>1, <1>2 DEF Placed, Deserted
  <1> QED
    BY <1>3, <1>4, <1>5

\* The file in place is the copy, beside no log.
LEMMA RenameKeeps == ASSUME StoreInv, S!Rename PROVE StoreInv'
  <1> USE DEF StoreInv
  <1>1. /\ restorer.at = "rename" /\ S!Step("report")
        /\ inode' = Append(inode, restorer.holds) /\ path' = Len(inode')
        /\ UNCHANGED <<wal, proc, backup, born, disturbed>>
    BY DEF S!Rename
  <1>2. restorer' \in Restorers /\ restorer'.at = "report" /\ restorer'.holds = restorer.holds
    BY <1>1, RestorerSteps
  <1>3. inode \in Seq(Dbs) /\ Len(inode) \in Nat /\ restorer.holds \in Dbs
    BY LenProperties DEF StoreTypes, Restorers
  <1>4. /\ inode' \in Seq(Dbs) /\ Len(inode') = Len(inode) + 1
        /\ inode'[Len(inode) + 1] = restorer.holds
    BY <1>1, <1>3, AppendProperties
  <1>5. path' \in 0 .. Len(inode') /\ path' # 0 /\ inode'[path'] = restorer.holds
    BY <1>1, <1>3, <1>4
  <1>6. StoreTypes'
    <2>1. \A o \in Openers : proc[o].at # "out" => proc[o].inode \in 1 .. Len(inode')
      BY <1>3, <1>4 DEF StoreTypes
    <2> QED
      BY <1>1, <1>2, <1>4, <1>5, <2>1 DEF StoreTypes
  <1>7. Schema'
    BY <1>1 DEF Schema
  <1>8. Placed'
    BY <1>1, <1>2, <1>5 DEF Placed, Deserted
  <1> QED
    BY <1>6, <1>7, <1>8

LEMMA ReportKeeps == ASSUME StoreInv, S!Report PROVE StoreInv'
  <1> USE DEF StoreInv
  <1>1. /\ restorer.at = "report"
        /\ restorer' = [restorer EXCEPT !.at = "done", !.rule = S!Seen(path).rule]
        /\ UNCHANGED <<path, proc, backup, born, disturbed>>
        /\ \/ UNCHANGED <<inode, wal>>
           \/ S!Connected = {} /\ S!LastCloses(path)
    BY DEF S!Report
  <1>2. path # 0 /\ path \in 1 .. Len(inode)
    BY <1>1, LenProperties DEF Placed, StoreTypes
  <1>3. S!Seen(path) \in Dbs /\ (wal = S!NoWal => S!Seen(path) = inode[path])
    BY <1>2, SeenIs
  <1>4. /\ restorer' \in Restorers /\ restorer'.at = "done"
        /\ restorer'.holds = restorer.holds /\ restorer'.rule = S!Seen(path).rule
    BY <1>1, <1>3 DEF StoreTypes, Restorers, Dbs
  <1>5. ~disturbed => Deserted /\ S!Seen(path) = restorer.holds
    BY <1>1, <1>3 DEF Placed, Deserted
  <1>6. CASE UNCHANGED <<inode, wal>>
    <2>1. StoreTypes'
      BY <1>1, <1>4, <1>6 DEF StoreTypes
    <2>2. Schema'
      BY <1>1, <1>6 DEF Schema
    <2>3. ~disturbed => Deserted'
      BY <1>1, <1>5, <1>6 DEF Deserted
    <2>4. ~disturbed => inode[path] = restorer.holds
      BY <1>1 DEF Placed
    <2>5. Placed'
      BY <1>1, <1>2, <1>4, <1>5, <1>6, <2>3, <2>4 DEF Placed
    <2> QED
      BY <2>1, <2>2, <2>5
  <1>7. CASE S!Connected = {} /\ S!LastCloses(path)
    <2>1. inode' \in Seq(Dbs) /\ Len(inode') = Len(inode) /\ wal' = S!NoWal
          /\ inode'[path] = S!Seen(path)
      BY <1>2, <1>7, Carried
    <2>2. \A o \in Openers : proc'[o].at = "out"
      BY <1>1, <1>7 DEF S!Connected
    <2>3. StoreTypes'
      BY <1>1, <1>4, <2>1, <2>2, FirstFiles DEF StoreTypes
    <2>4. Schema'
      BY <2>2 DEF Schema, Reached
    <2>5. Placed'
      BY <1>1, <1>2, <1>4, <1>5, <2>1, <2>2 DEF Placed, Deserted
    <2> QED
      BY <2>3, <2>4, <2>5
  <1> QED
    BY <1>1, <1>6, <1>7

LEMMA RestoreEndsKeeps == ASSUME StoreInv, S!RestoreEnds \/ S!RestoreStops PROVE StoreInv'
  <1>1. S!Step("idle") /\ UNCHANGED <<inode, path, wal, proc, backup, born>>
    BY DEF S!RestoreEnds, S!RestoreStops, S!files
  <1>2. restorer' \in Restorers /\ restorer'.at = "idle"
    BY <1>1, RestorerSteps DEF StoreInv
  <1> QED
    BY <1>1, <1>2, RestorerMoves
-----------------------------------------------------------------------------
(* The store's two properties *)

LEMMA StoreStep == StoreInv /\ [S!Next]_S!vars => StoreInv'
  <1> SUFFICES ASSUME StoreInv, [S!Next]_S!vars PROVE StoreInv'
    OBVIOUS
  <1>1. CASE UNCHANGED S!vars
    BY <1>1 DEF S!vars, StoreInv, StoreTypes, Schema, Placed, Deserted
  <1>2. ASSUME NEW o \in Openers, S!Open(o) PROVE StoreInv'
    BY <1>2, OpenKeeps
  <1>3. ASSUME NEW o \in Openers, S!CreateTables(o) PROVE StoreInv'
    BY <1>3, CreateTablesKeeps
  <1>4. ASSUME NEW o \in Openers, S!CheckColumn(o) PROVE StoreInv'
    BY <1>4, CheckColumnKeeps
  <1>5. ASSUME NEW o \in Openers, S!AlterTable(o) PROVE StoreInv'
    BY <1>5, AlterTableKeeps
  <1>6. ASSUME NEW o \in Openers, S!ReadVersion(o) PROVE StoreInv'
    BY <1>6, ReadVersionKeeps
  <1>7. ASSUME NEW o \in Openers, S!InsertVersion(o) PROVE StoreInv'
    BY <1>7, InsertVersionKeeps
  <1>8. ASSUME NEW o \in Openers, S!Write(o) PROVE StoreInv'
    BY <1>8, WriteKeeps
  <1>9. ASSUME NEW o \in Openers, S!Close(o) \/ S!Crash(o) PROVE StoreInv'
    BY <1>9, CloseKeeps
  <1>10. ASSUME \/ \E o \in Openers : S!StartBackup(o)
                \/ S!DropExcluded \/ S!WriteMeta \/ S!BackupFails
         PROVE  StoreInv'
    BY <1>10, BackupKeeps
  <1>11. ASSUME S!Probe \/ S!Inspect \/ S!Copy \/ S!Rename \/ S!Report PROVE StoreInv'
    BY <1>11, ProbeKeeps, InspectKeeps, CopyKeeps, RenameKeeps, ReportKeeps
  <1>12. ASSUME S!RestoreEnds \/ S!RestoreStops PROVE StoreInv'
    BY <1>12, RestoreEndsKeeps
  <1> QED
    BY <1>1, <1>2, <1>3, <1>4, <1>5, <1>6, <1>7, <1>8, <1>9, <1>10, <1>11, <1>12 DEF S!Next

LEMMA StoreInvariance == S!Spec => []StoreInv
  BY StoreInit, StoreStep, PTL DEF S!Spec

\* Whoever has opened the store finds every table and every column in it, for any
\* processes that open it at once, crash half-way, back it up and restore it.
THEOREM OpenedIsComplete == S!Spec => []OpenedIsCurrent
  <1>1. StoreInv => OpenedIsCurrent
    <2> SUFFICES ASSUME StoreInv, NEW o \in Openers, proc[o].at = "open"
                 PROVE  /\ S!Seen(proc[o].inode).version
                        /\ S!Seen(proc[o].inode).columns = Columns
                        /\ S!Seen(proc[o].inode).tables = {"rules", "decisions", "prompts"}
      BY DEF OpenedIsCurrent, S!OpenedIsCurrent
    <2>1. Reached("open", wal)
      BY DEF StoreInv, Schema
    <2>2. proc[o].inode \in 1 .. Len(inode) /\ StoreTypes
      BY DEF StoreInv, StoreTypes
    <2> QED
      BY <2>1, <2>2, SeenIs DEF Reached, AllTables
  <1> QED
    BY <1>1, StoreInvariance, PTL

\* A restore that reports success, and that nobody looked on, has put the backup in
\* place and nothing else, and has counted what the backup holds: for any number of
\* restores, and of processes before, between and after them.
THEOREM RestoresAreWhole == S!Spec => []RestoredIsBackup
  <1>1. StoreInv => RestoredIsBackup
    <2> SUFFICES ASSUME StoreInv, restorer.at = "done", ~disturbed
                 PROVE  /\ S!Seen(path) = restorer.holds /\ wal = S!NoWal
                        /\ restorer.rule = restorer.holds.rule
      BY DEF RestoredIsBackup, S!RestoredIsBackup
    <2>1. wal = S!NoWal /\ path # 0 /\ inode[path] = restorer.holds
      BY DEF StoreInv, Placed, Deserted
    <2>2. path \in 1 .. Len(inode) /\ StoreTypes
      BY <2>1, LenProperties DEF StoreInv, StoreTypes
    <2> QED
      BY <2>1, <2>2, SeenIs DEF StoreInv, Placed
  <1> QED
    BY <1>1, StoreInvariance, PTL
=============================================================================
