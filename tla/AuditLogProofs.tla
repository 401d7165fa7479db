--------------------------- MODULE AuditLogProofs ---------------------------
(***************************************************************************)
(* Proofs about AuditLog and the commands that read the log (LogCommands),  *)
(* as MCAuditLog puts them together, for any number of events, any depth of *)
(* the queue, any interval of saving and signing, and any number of files,  *)
(* crashes and runs of the CLI.                                             *)
(*                                                                          *)
(* LogInv is the invariant of the log: what the queue, the chain and the    *)
(* files have to do with each other.  Every hash on disk or in a manifest   *)
(* is a beginning of the chain, unless a process has forgotten the chain's  *)
(* end (OneChain); the files show events in their order (FilesInOrder); and *)
(* as long as nothing happens to it, the log shows every event of the chain *)
(* (Calm).  From the order of the files follows that they implement the     *)
(* trail of AuditTrail (TrailStep).  BundleInv is the invariant of the      *)
(* archive command: what it has copied lies before what it has still to     *)
(* copy, and what was there when it began is in one or the other.           *)
(***************************************************************************)
EXTENDS MCAuditLog, FiniteSetTheorems, SequenceTheorems, TLAPS

AnyLine == [kind : {"chained", "bare", "bad", "no file"}, hash : Seq(Event), glued : BOOLEAN]

\* The hashes of the stamped lines in a sequence of lines, and the events they end with.
Rows(s) == {i \in DOMAIN s : s[i].kind = "chained"}
Hashes(s) == {s[i].hash : i \in Rows(s)}
Ends(hashes) == {Last(h) : h \in hashes}
Increasing(s) == \A i, j \in Rows(s) : i < j => Last(s[i].hash) < Last(s[j].hash)
Below(a, b) == \A x \in a, y \in b : x < y
EndsOf(s) == Ends(Hashes(s))

\* t is s, or s with a line more, but for what is glued to the lines of s; a new stamped
\* line has one of the hashes H.
Continues(t, s, H) ==
    /\ Len(t) \in {Len(s), Len(s) + 1}
    /\ \A i \in 1 .. Len(s) : t[i].kind = s[i].kind /\ t[i].hash = s[i].hash
    /\ Len(t) = Len(s) + 1 => t[Len(t)].kind # "chained" \/ t[Len(t)].hash \in H

\* A sequence of lines that goes on from another shows what the other showed and what is
\* new, and is in order if what is new lies behind.
LEMMA ContinuesHashes ==
  ASSUME NEW s \in Seq(AnyLine), NEW t \in Seq(AnyLine), NEW H, Continues(t, s, H)
  PROVE  /\ Hashes(s) \subseteq Hashes(t) /\ Hashes(t) \subseteq Hashes(s) \cup H
         /\ Increasing(s) /\ Below(Ends(Hashes(s)), Ends(H)) => Increasing(t)
  <1> DEFINE n == Len(s)
             m == Len(t)
  <1>1. n \in Nat /\ DOMAIN s = 1 .. n /\ m \in Nat /\ DOMAIN t = 1 .. m /\ m \in {n, n + 1}
    BY LenProperties DEF Continues
  <1>2. \A i \in 1 .. n : t[i].kind = s[i].kind /\ t[i].hash = s[i].hash
    BY DEF Continues
  <1>3. m = n + 1 => t[m].kind # "chained" \/ t[m].hash \in H
    BY DEF Continues
  <1> HIDE DEF n, m
  <1>4. \A i \in Rows(t) : i \in Rows(s) \/ (i = m /\ m = n + 1 /\ t[i].hash \in H)
    BY <1>1, <1>2, <1>3 DEF Rows
  <1>5. \A i \in Rows(s) : i \in Rows(t) /\ i \in 1 .. n
    BY <1>1, <1>2 DEF Rows
  <1>6. Hashes(s) \subseteq Hashes(t)
    BY <1>2, <1>5 DEF Hashes
  <1>7. Hashes(t) \subseteq Hashes(s) \cup H
    BY <1>2, <1>4, <1>5 DEF Hashes
  <1>8. ASSUME Increasing(s), Below(Ends(Hashes(s)), Ends(H)) PROVE Increasing(t)
    <2> SUFFICES ASSUME NEW i \in Rows(t), NEW j \in Rows(t), i < j
                 PROVE  Last(t[i].hash) < Last(t[j].hash)
      BY DEF Increasing
    <2>1. i \in 1 .. m /\ j \in 1 .. m
      BY <1>1 DEF Rows
    <2>2. i \in Rows(s)
      BY <1>1, <1>4, <2>1
    <2>3. CASE j \in Rows(s)
      BY <1>2, <1>5, <1>8, <2>2, <2>3 DEF Increasing
    <2>4. CASE j \notin Rows(s)
      <3>1. t[j].hash \in H
        BY <1>4, <2>4
      <3>2. s[i].hash \in Hashes(s) /\ t[i].hash = s[i].hash
        BY <1>2, <1>5, <2>2 DEF Hashes
      <3>3. Last(s[i].hash) \in Ends(Hashes(s)) /\ Last(t[j].hash) \in Ends(H)
        BY <3>1, <3>2 DEF Ends
      <3> QED BY <1>8, <3>2, <3>3 DEF Below
    <2> QED BY <2>3, <2>4
  <1> QED BY <1>6, <1>7, <1>8

\* What goes on with lines that are not stamped shows what was there before.
LEMMA NothingNew ==
  ASSUME NEW s \in Seq(AnyLine), NEW t \in Seq(AnyLine), Continues(t, s, {})
  PROVE  Hashes(t) = Hashes(s) /\ (Increasing(s) => Increasing(t))
  <1>1. Ends({}) = {}
    BY DEF Ends
  <1>2. Below(Ends(Hashes(s)), Ends({}))
    BY <1>1 DEF Below
  <1>3. Hashes(s) \subseteq Hashes(t) /\ Hashes(t) \subseteq Hashes(s) \cup {}
    BY ContinuesHashes
  <1>4. Increasing(s) => Increasing(t)
    BY <1>2, ContinuesHashes
  <1> QED BY <1>3, <1>4

\* A line more: lengths and places.
LEMMA AppendLines ==
  ASSUME NEW s \in Seq(AnyLine), NEW l \in AnyLine
  PROVE  LET t == Append(s, l) IN
         /\ t \in Seq(AnyLine) /\ Len(s) \in Nat /\ Len(t) = Len(s) + 1
         /\ DOMAIN s = 1 .. Len(s) /\ DOMAIN t = 1 .. Len(s) + 1
         /\ \A i \in 1 .. Len(s) : t[i] = s[i]
         /\ t[Len(s) + 1] = l
  <1> HIDE DEF AnyLine
  <1> QED BY AppendProperties, LenProperties

\* A line more goes on from what was there.
LEMMA AppendContinues ==
  ASSUME NEW s \in Seq(AnyLine), NEW l \in AnyLine, NEW H, l.kind # "chained" \/ l.hash \in H
  PROVE  /\ Continues(Append(s, l), s, H)
         /\ l.kind = "chained" => l.hash \in Hashes(Append(s, l))
  <1> DEFINE t == Append(s, l)
             n == Len(s)
  <1>1. /\ t \in Seq(AnyLine) /\ Len(t) = n + 1 /\ n \in Nat /\ DOMAIN t = 1 .. n + 1
        /\ \A i \in 1 .. n : t[i] = s[i]
        /\ t[n + 1] = l
    BY AppendLines
  <1> HIDE DEF t
  <1>2. Continues(t, s, H)
    BY <1>1 DEF Continues
  <1>3. l.kind = "chained" => l.hash \in Hashes(t)
    BY <1>1 DEF Hashes, Rows
  <1> QED BY <1>2, <1>3 DEF t

\* Part of a file, and a line that is broken off.
LEMMA PartIs ==
  ASSUME NEW s \in Seq(AnyLine), NEW t \in PartOf(s)
  PROVE  /\ t \in Seq(AnyLine) /\ Hashes(t) \subseteq Hashes(s)
         /\ Increasing(s) => Increasing(t) /\ Below(EndsOf(t), EndsOf(s) \ EndsOf(t))
  <1>0. Bad \in AnyLine /\ Bad.kind # "chained"
    BY EmptySeq DEF Bad, AnyLine
  <1>1. PICK k \in 0 .. Len(s), rest \in {<<>>, <<Bad>>} : t = SubSeq(s, 1, k) \o rest
    BY DEF PartOf
  <1> DEFINE n == Len(s)
             u == SubSeq(s, 1, k)
  <1>2. n \in Nat /\ DOMAIN s = 1 .. n /\ k \in Nat /\ k <= n
    BY LenProperties
  <1>3. u \in Seq(AnyLine) /\ Len(u) = k /\ \A i \in 1 .. k : u[i] = s[i]
    <2> HIDE DEF AnyLine
    <2>1. \A i \in 1 .. k : s[i] \in AnyLine
      BY <1>2, ElementOfSeq
    <2> QED BY <1>2, <2>1, SubSeqProperties
  <1>4. rest \in Seq(AnyLine) /\ Len(rest) \in {0, 1} /\ (Len(rest) = 1 => rest[1] = Bad)
    <2>1. CASE rest = <<>>
      BY <2>1, EmptySeq
    <2>2. CASE rest = <<Bad>>
      <3>1. Len(<<Bad>>) = 1 /\ <<Bad>>[1] = Bad
        OBVIOUS
      <3> HIDE DEF Bad, AnyLine
      <3> QED BY <1>0, <2>2, <3>1
    <2> QED BY <1>1, <2>1, <2>2
  <1> HIDE DEF u, n
  <1>5. /\ t \in Seq(AnyLine) /\ Len(t) = k + Len(rest) /\ DOMAIN t = 1 .. Len(t)
        /\ \A i \in 1 .. k : t[i] = s[i]
        /\ Len(rest) = 1 => t[k + 1] = Bad
    <2>1. t = u \o rest
      BY <1>1 DEF u
    <2> HIDE DEF AnyLine
    <2>2. /\ t \in Seq(AnyLine) /\ Len(t) = Len(u) + Len(rest)
          /\ \A i \in 1 .. Len(u) + Len(rest) : t[i] = IF i <= Len(u) THEN u[i] ELSE rest[i - Len(u)]
      BY <1>3, <1>4, <2>1, ConcatProperties
    <2>3. DOMAIN t = 1 .. Len(t)
      BY <2>2, LenProperties
    <2>4. \A i \in 1 .. k : t[i] = s[i]
      BY <1>2, <1>3, <1>4, <2>2
    <2>5. Len(rest) = 1 => t[k + 1] = Bad
      BY <1>2, <1>3, <1>4, <2>2
    <2> QED BY <1>3, <2>2, <2>3, <2>4, <2>5
  <1>6. \A i \in Rows(t) : i \in 1 .. k /\ i \in Rows(s) /\ t[i] = s[i]
    <2> TAKE i \in Rows(t)
    <2>1. i \in 1 .. k + Len(rest) /\ t[i].kind = "chained"
      BY <1>5 DEF Rows
    <2>2. t[i] # Bad
      BY <1>0, <2>1
    <2>3. i \in 1 .. k
      <3> DEFINE c == Len(rest)
      <3>1. c \in {0, 1} /\ (c = 1 => t[k + 1] = Bad) /\ i \in 1 .. k + c
        BY <1>4, <1>5, <2>1
      <3> HIDE DEF c
      <3>2. i <= k \/ (i = k + 1 /\ c = 1)
        BY <1>2, <3>1
      <3> QED BY <1>2, <2>1, <2>2, <3>1, <3>2
    <2> QED BY <1>2, <1>5, <2>1, <2>3 DEF Rows
  <1>7. Hashes(t) \subseteq Hashes(s)
    BY <1>6 DEF Hashes
  <1>8. Increasing(s) => Increasing(t)
    BY <1>6 DEF Increasing
  <1>9. ASSUME Increasing(s) PROVE Below(EndsOf(t), EndsOf(s) \ EndsOf(t))
    <2> SUFFICES ASSUME NEW x \in EndsOf(t), NEW y \in EndsOf(s), y \notin EndsOf(t)
                 PROVE  x < y
      BY DEF Below
    <2>1. PICK i \in Rows(t) : x = Last(t[i].hash)
      BY DEF EndsOf, Ends, Hashes
    <2>2. PICK j \in Rows(s) : y = Last(s[j].hash)
      BY DEF EndsOf, Ends, Hashes
    <2>3. j \in 1 .. n /\ s[j].kind = "chained"
      BY <1>2 DEF Rows
    <2>4. j \in 1 .. k => j \in Rows(t) /\ t[j] = s[j]
      BY <1>2, <1>4, <1>5, <2>3 DEF Rows
    <2>5. j \notin 1 .. k
      BY <2>2, <2>4 DEF EndsOf, Ends, Hashes
    <2>6. i < j
      <3>1. i \in 1 .. k
        BY <1>6
      <3> QED BY <1>2, <2>3, <2>5, <3>1
    <2> QED BY <1>6, <1>9, <2>1, <2>2, <2>6 DEF Increasing
  <1> QED BY <1>5, <1>7, <1>8, <1>9
-----------------------------------------------------------------------------
(* The order of what the files show, and what changes of the files keep it *)

\* Of the archives z, the file r that is being compressed and the active file a: each is
\* in order, and behind the ones before it; nothing is newer than t.
Ordered(z, r, a, t) ==
    /\ Increasing(r) /\ Increasing(a) /\ \A s \in DOMAIN z : Increasing(z[s])
    /\ Below(EndsOf(r), EndsOf(a))
    /\ \A s \in DOMAIN z : Below(EndsOf(z[s]), EndsOf(r) \cup EndsOf(a))
    /\ \A s, u \in DOMAIN z : s < u => Below(EndsOf(z[s]), EndsOf(z[u]))
    /\ EndsOf(r) \cup EndsOf(a) \subseteq 1 .. t
    /\ \A s \in DOMAIN z : EndsOf(z[s]) \subseteq 1 .. t

\* More hashes, more events.
LEMMA EndsGrow ==
  ASSUME NEW s, NEW t, NEW H, Hashes(t) \subseteq Hashes(s) \cup H
  PROVE  EndsOf(t) \subseteq EndsOf(s) \cup Ends(H)
  BY DEF EndsOf, Ends

\* The events of one hash and of none.
LEMMA EndOne == ASSUME NEW h PROVE Ends({h}) = {Last(h)} /\ Ends({}) = {}
  BY DEF Ends

\* A line more.
LEMMA OrderedWrite ==
  ASSUME NEW z, NEW r, NEW a, NEW b, NEW t \in Nat, NEW e \in Nat, t < e,
         Ordered(z, r, a, t), EndsOf(b) \subseteq EndsOf(a) \cup {e},
         Below(EndsOf(a), {e}) => Increasing(b)
  PROVE  Ordered(z, r, b, e)
  <1>1. Below(EndsOf(a), {e})
    BY DEF Ordered, Below
  <1>2. Below(EndsOf(r), EndsOf(b))
    BY DEF Ordered, Below
  <1>3. \A s \in DOMAIN z : Below(EndsOf(z[s]), EndsOf(r) \cup EndsOf(b))
    BY DEF Ordered, Below
  <1>4. EndsOf(r) \cup EndsOf(b) \subseteq 1 .. e
    BY DEF Ordered
  <1>5. \A s \in DOMAIN z : EndsOf(z[s]) \subseteq 1 .. e
    BY DEF Ordered
  <1> QED BY <1>1, <1>2, <1>3, <1>4, <1>5 DEF Ordered

\* Lines or archives less.
LEMMA OrderedLess ==
  ASSUME NEW z, NEW r, NEW a, NEW t \in Nat, NEW y, NEW q, NEW b,
         Ordered(z, r, a, t),
         EndsOf(b) \subseteq EndsOf(a), Increasing(b),
         EndsOf(q) \subseteq EndsOf(r), Increasing(q),
         DOMAIN y \subseteq DOMAIN z, \A s \in DOMAIN y : y[s] = z[s]
  PROVE  Ordered(y, q, b, t)
  <1>1. Below(EndsOf(q), EndsOf(b))
    BY DEF Ordered, Below
  <1>2. \A s \in DOMAIN y : Below(EndsOf(y[s]), EndsOf(q) \cup EndsOf(b))
    BY DEF Ordered, Below
  <1>3. \A s, u \in DOMAIN y : s < u => Below(EndsOf(y[s]), EndsOf(y[u]))
    BY DEF Ordered
  <1>4. \A s \in DOMAIN y : Increasing(y[s]) /\ EndsOf(y[s]) \subseteq 1 .. t
    BY DEF Ordered
  <1>5. EndsOf(q) \cup EndsOf(b) \subseteq 1 .. t
    BY DEF Ordered
  <1> QED BY <1>1, <1>2, <1>3, <1>4, <1>5 DEF Ordered

\* The active file is renamed.
LEMMA OrderedRename ==
  ASSUME NEW z, NEW r, NEW a, NEW t, NEW b,
         Ordered(z, r, a, t), EndsOf(r) = {}, EndsOf(b) = {}, Increasing(b)
  PROVE  Ordered(z, a, b, t)
  <1>1. Below(EndsOf(a), EndsOf(b))
    BY DEF Below
  <1>2. \A s \in DOMAIN z : Below(EndsOf(z[s]), EndsOf(a) \cup EndsOf(b))
    BY DEF Ordered, Below
  <1> QED BY <1>1, <1>2 DEF Ordered

\* The file that was renamed becomes, in part or in whole, the newest archive.
LEMMA OrderedZip ==
  ASSUME NEW z, NEW r, NEW a, NEW t \in Nat, NEW y, NEW q, NEW n \in Nat, NEW c,
         Ordered(z, r, a, t), EndsOf(c) \subseteq EndsOf(r), Increasing(c),
         DOMAIN y = DOMAIN z \cup {n}, y[n] = c, \A s \in DOMAIN z : s \in Nat /\ s < n /\ y[s] = z[s],
         EndsOf(q) = {}, Increasing(q)
  PROVE  Ordered(y, q, a, t)
  <1>1. Below(EndsOf(q), EndsOf(a)) /\ EndsOf(q) \cup EndsOf(a) \subseteq 1 .. t
    BY DEF Below, Ordered
  <1>2. \A s \in DOMAIN y : s \in DOMAIN z \/ s = n
    OBVIOUS
  <1>3. \A s \in DOMAIN y : Increasing(y[s]) /\ EndsOf(y[s]) \subseteq 1 .. t
    BY <1>2 DEF Ordered
  <1>4. \A s \in DOMAIN y : Below(EndsOf(y[s]), EndsOf(q) \cup EndsOf(a))
    BY <1>2 DEF Ordered, Below
  <1>5. ASSUME NEW s \in DOMAIN y, NEW u \in DOMAIN y, s < u
        PROVE  Below(EndsOf(y[s]), EndsOf(y[u]))
    <2>1. s \in DOMAIN z
      BY <1>2, <1>5
    <2>2. CASE u \in DOMAIN z
      BY <1>5, <2>1, <2>2 DEF Ordered
    <2>3. CASE u = n
      BY <2>1, <2>3 DEF Ordered, Below
    <2> QED BY <1>2, <2>2, <2>3
  <1> QED BY <1>1, <1>3, <1>4, <1>5 DEF Ordered
-----------------------------------------------------------------------------
(* The invariant *)

\* What is renamed and being compressed.  The file's old contents do not matter.
Renamed == IF worker = "renamed" THEN rotating ELSE <<>>

Mishaps == [crashes : Nat, faults : Nat, purged : BOOLEAN, collided : BOOLEAN, forgot : BOOLEAN]
Files == {"none", "active", "rotating", "gone"}

LogTypes ==
    /\ now \in 0 .. Seconds /\ stamp \in 0 .. now
    /\ sent \in Nat /\ taken \in 0 .. sent /\ closed \in 0 .. sent
    /\ queue \in Seq(Event)
    /\ worker \in {"idle", "check", "renamed", "zipped", "draining", "done", "down"}
    /\ active \in Seq(AnyLine) /\ rotating \in Seq(AnyLine)
    /\ tail \in [state : {"clean", "torn", "unterminated"}, line : AnyLine]
    /\ tail.state = "clean" => tail = Clean
    /\ tail.state = "torn" => tail = Torn
    /\ DOMAIN archives \subseteq 0 .. stamp
    /\ \A s \in DOMAIN archives : archives[s] \in Seq(AnyLine)
    /\ head \in Seq(Event) /\ saved \in Seq(Event) \cup {NoState}
    /\ mishaps \in Mishaps
    /\ cli \in [file : Files, runs : Nat]

\* The queue holds events behind those taken, in order.
QueueIsBehind ==
    /\ \A i \in DOMAIN queue : taken < queue[i] /\ queue[i] <= sent
    /\ \A i, j \in DOMAIN queue : i < j => queue[i] < queue[j]
    /\ worker = "done" => \A i \in DOMAIN queue : closed < queue[i]

\* A chain of events that were taken, in order.
IsChain(h) == /\ \A i \in DOMAIN h : h[i] \in 1 .. taken
              /\ \A i, j \in DOMAIN h : i < j => h[i] < h[j]

ChainsAreChains == IsChain(head) /\ (saved # NoState => IsChain(saved))

FilesInOrder == Ordered(archives, Renamed, ActiveLines, taken)

\* The hashes on disk.
AllHashes == Hashes(Renamed) \cup Hashes(ActiveLines)
             \cup UNION {Hashes(archives[s]) : s \in DOMAIN archives}

\* A hash is of the chain h if it covers the beginning of it.
OfChain(x, h) == /\ x \in Seq(Event) /\ x # <<>> /\ Len(x) <= Len(h)
                 /\ \A i \in 1 .. Len(x) : x[i] = h[i]

\* While no process forgot the chain's end, all that is on disk or signed is of the chain.
OneChain == ~mishaps.forgot => \A x \in AllHashes \cup manifests : OfChain(x, head)

Stamped(s) == \A i \in DOMAIN s : s[i].kind = "chained"

\* As long as nothing happens to it, the log has every event of the chain.
Calm ==
    Undisturbed =>
        /\ worker \in {"idle", "check", "draining"} => fd = "active"
        /\ tail = Clean /\ ~mishaps.forgot
        /\ worker \in {"done", "down"} => saved = head
        /\ written \subseteq ToSet(head) /\ ToSet(head) \subseteq Ends(AllHashes)
        /\ cli.runs = 0 => /\ cli.file = "none"
                           /\ Stamped(active) /\ Stamped(Renamed)
                           /\ \A s \in DOMAIN archives : Stamped(archives[s])

LogInv == LogTypes /\ QueueIsBehind /\ ChainsAreChains /\ FilesInOrder /\ OneChain /\ Calm
-----------------------------------------------------------------------------
(* What an operation does to the lines of the active file *)

\* The active file as a reader finds it: its whole lines and the one that is not finished.
LEMMA Tails ==
  ASSUME LogTypes
  PROVE  /\ ActiveLines = (IF tail = Clean THEN active ELSE Append(active, tail.line))
         /\ ActiveLines \in Seq(AnyLine) /\ active \in Seq(AnyLine)
         /\ tail.line \in AnyLine
         /\ tail = Clean <=> tail.state = "clean"
  <1>1. active \in Seq(AnyLine) /\ tail.line \in AnyLine
    BY DEF LogTypes
  <1>2. tail = Clean <=> tail.state = "clean"
    BY DEF LogTypes, Clean
  <1>3. active \o <<>> = active /\ active \o <<tail.line>> = Append(active, tail.line)
    <2> HIDE DEF AnyLine
    <2> QED BY <1>1, ConcatEmptySeq, AppendIsConcat
  <1>4. ActiveLines = IF tail = Clean THEN active ELSE Append(active, tail.line)
    BY <1>3 DEF ActiveLines
  <1>5. Append(active, tail.line) \in Seq(AnyLine)
    BY <1>1, AppendLines
  <1> QED BY <1>1, <1>2, <1>4, <1>5

\* The kinds of lines that the log writes.
LEMMA LineTypes ==
  /\ Bad \in AnyLine /\ Bare \in AnyLine /\ NoFile \in Seq(AnyLine) /\ <<>> \in Seq(AnyLine)
  /\ \A h \in Seq(Event) : Row(h) \in AnyLine /\ Row(h).kind = "chained" /\ Row(h).hash = h
  /\ Bad.kind # "chained" /\ Bare.kind # "chained"
  <1>1. <<>> \in Seq(Event) /\ <<>> \in Seq(AnyLine)
    BY EmptySeq
  <1>2. Bad \in AnyLine /\ Bare \in AnyLine
    BY <1>1 DEF Bad, Bare, AnyLine
  <1> DEFINE n == [kind |-> "no file", hash |-> <<>>, glued |-> FALSE]
  <1>3. n \in AnyLine /\ NoFile = <<n>>
    BY <1>1 DEF AnyLine, NoFile
  <1> HIDE DEF n
  <1>4. NoFile \in Seq(AnyLine)
    BY <1>3
  <1>5. \A h \in Seq(Event) : Row(h) \in AnyLine /\ Row(h).kind = "chained" /\ Row(h).hash = h
    BY DEF Row, AnyLine
  <1>6. Bad.kind # "chained" /\ Bare.kind # "chained"
    BY DEF Bad, Bare
  <1> QED BY <1>1, <1>2, <1>4, <1>5, <1>6

\* A line on the file, or the beginning of one.
LEMMA JoinedLine ==
  ASSUME LogTypes, NEW l \in AnyLine, NEW H, l.kind # "chained" \/ l.hash \in H
  PROVE  /\ Joined(l) \in AnyLine
         /\ Continues(Append(active, Joined(l)), ActiveLines, H)
         /\ tail = Clean => Joined(l) = l
  <1>1. tail.state \in {"clean", "torn", "unterminated"}
    BY DEF LogTypes
  <1>2. CASE tail.state = "clean"
    <2>1. Joined(l) = l
      BY <1>2 DEF Joined
    <2>2. ActiveLines = active
      BY <1>2, Tails
    <2> QED BY <2>1, <2>2, Tails, AppendContinues
  <1>3. CASE tail.state = "torn"
    <2>1. Joined(l) = Bad /\ tail.line = Bad
      BY <1>3 DEF Joined, LogTypes, Torn
    <2>2. ActiveLines = Append(active, Bad)
      BY <1>3, <2>1, Tails
    <2>3. Continues(ActiveLines, ActiveLines, H)
      BY Tails, LenProperties DEF Continues
    <2> QED BY <1>3, <2>1, <2>2, <2>3, LineTypes, Tails
  <1>4. CASE tail.state = "unterminated"
    <2> DEFINE x == tail.line
               g == [x EXCEPT !.glued = TRUE]
               s == Append(active, x)
               t == Append(active, g)
    <2>1. Joined(l) = g
      BY <1>4 DEF Joined
    <2>2. g \in AnyLine /\ x \in AnyLine /\ g.kind = x.kind /\ g.hash = x.hash
      BY Tails DEF AnyLine
    <2>3. ActiveLines = s
      BY <1>4, Tails
    <2> HIDE DEF x, g
    <2>4. /\ Len(s) = Len(active) + 1 /\ Len(t) = Len(active) + 1 /\ Len(active) \in Nat
          /\ \A i \in 1 .. Len(active) : s[i] = active[i] /\ t[i] = active[i]
          /\ s[Len(active) + 1] = x /\ t[Len(active) + 1] = g
      BY <2>2, Tails, AppendLines
    <2> HIDE DEF s, t
    <2>5. ASSUME NEW i \in 1 .. Len(s) PROVE t[i].kind = s[i].kind /\ t[i].hash = s[i].hash
      <3>1. CASE i \in 1 .. Len(active)
        BY <2>4, <3>1
      <3>2. CASE i = Len(active) + 1
        BY <2>2, <2>4, <3>2
      <3> QED BY <2>4, <3>1, <3>2
    <2>6. Continues(t, s, H)
      BY <2>4, <2>5 DEF Continues
    <2>7. tail # Clean
      BY <1>4, Tails
    <2> QED BY <2>1, <2>2, <2>3, <2>6, <2>7 DEF t
  <1> QED BY <1>1, <1>2, <1>3, <1>4

\* The active file without its last line.
LEMMA WithoutTail ==
  ASSUME LogTypes
  PROVE  /\ Hashes(active) \subseteq Hashes(ActiveLines)
         /\ Increasing(ActiveLines) => Increasing(active)
  <1>1. CASE tail = Clean
    BY <1>1, Tails
  <1>2. CASE tail # Clean
    <2> DEFINE l == tail.line
               s == active
               t == Append(s, l)
    <2>1. ActiveLines = t /\ l \in AnyLine /\ s \in Seq(AnyLine)
      BY <1>2, Tails
    <2> HIDE DEF l, s
    <2>2. /\ t \in Seq(AnyLine) /\ Len(s) \in Nat
          /\ DOMAIN s = 1 .. Len(s) /\ DOMAIN t = 1 .. Len(s) + 1
          /\ \A i \in 1 .. Len(s) : t[i] = s[i]
      BY <2>1, AppendLines
    <2> HIDE DEF t
    <2>3. \A i \in Rows(s) : i \in Rows(t) /\ t[i] = s[i]
      BY <2>2 DEF Rows
    <2>4. Hashes(s) \subseteq Hashes(t)
      BY <2>3 DEF Hashes
    <2>5. Increasing(t) => Increasing(s)
      BY <2>3 DEF Increasing
    <2> QED BY <2>1, <2>4, <2>5 DEF s
  <1> QED BY <1>1, <1>2
-----------------------------------------------------------------------------
(* Types *)

\* What later steps need of the types.
LEMMA TypesGive ==
  ASSUME LogTypes
  PROVE  /\ queue \in Seq(Event) /\ head \in Seq(Event) /\ Event \subseteq Nat
         /\ sent \in Nat /\ taken \in Nat /\ taken <= sent /\ closed \in Nat /\ closed <= sent
         /\ DOMAIN queue = 1 .. Len(queue) /\ Len(queue) \in Nat
         /\ \A i \in DOMAIN queue : queue[i] \in Nat
  <1>1. queue \in Seq(Event) /\ head \in Seq(Event)
    BY DEF LogTypes
  <1>2. sent \in Nat /\ taken \in 0 .. sent /\ closed \in 0 .. sent
    BY DEF LogTypes
  <1>3. sent \in Nat /\ taken \in Nat /\ taken <= sent /\ closed \in Nat /\ closed <= sent
    BY <1>2
  <1>4. Event \subseteq Nat
    BY ConstantsAssumption DEF Event
  <1> HIDE DEF Event
  <1>5. \A i \in DOMAIN queue : queue[i] \in Event
    BY <1>1, ElementOfSeq, LenProperties
  <1>6. DOMAIN queue = 1 .. Len(queue) /\ Len(queue) \in Nat
    BY <1>1, LenProperties
  <1> QED BY <1>1, <1>3, <1>4, <1>5, <1>6

\* The event at the head of the queue lies behind those taken, and before the others.
LEMMA QueueFacts ==
  ASSUME LogTypes, QueueIsBehind, queue # <<>>
  PROVE  /\ Head(queue) \in Event /\ taken < Head(queue) /\ Head(queue) <= sent
         /\ Head(queue) \in Nat /\ taken \in Nat
         /\ Tail(queue) \in Seq(Event) /\ Append(head, Head(queue)) \in Seq(Event)
         /\ \A i \in DOMAIN Tail(queue) :
              /\ Head(queue) < Tail(queue)[i] /\ Tail(queue)[i] <= sent
         /\ \A i, j \in DOMAIN Tail(queue) : i < j => Tail(queue)[i] < Tail(queue)[j]
  <1>1. queue \in Seq(Event) /\ head \in Seq(Event) /\ Event \subseteq Nat /\ taken \in Nat
    BY ConstantsAssumption DEF LogTypes, Event
  <1> DEFINE t == Tail(queue)
  <1> HIDE DEF Event, t
  <1>2. /\ Head(queue) = queue[1] /\ t \in Seq(Event) /\ Len(t) = Len(queue) - 1
        /\ Len(queue) \in Nat /\ Len(queue) >= 1
        /\ \A i \in 1 .. Len(t) : t[i] = queue[i + 1]
        /\ DOMAIN queue = 1 .. Len(queue) /\ DOMAIN t = 1 .. Len(t)
    BY <1>1, HeadTailProperties, LenProperties, EmptySeq DEF t
  <1>3. \A i \in DOMAIN t : i + 1 \in DOMAIN queue /\ t[i] = queue[i + 1] /\ 1 < i + 1 /\ i \in Nat
    BY <1>2
  <1>4. 1 \in DOMAIN queue /\ Head(queue) \in Event
    BY <1>1, <1>2, ElementOfSeq
  <1>5. Append(head, Head(queue)) \in Seq(Event)
    BY <1>1, <1>4, AppendProperties
  <1>6. \A i \in DOMAIN t : Head(queue) < t[i] /\ t[i] <= sent
    BY <1>2, <1>3, <1>4 DEF QueueIsBehind
  <1>7. \A i, j \in DOMAIN t : i < j => t[i] < t[j]
    BY <1>3 DEF QueueIsBehind
  <1>8. taken < Head(queue) /\ Head(queue) <= sent
    BY <1>2, <1>4 DEF QueueIsBehind
  <1> QED BY <1>1, <1>2, <1>4, <1>5, <1>6, <1>7, <1>8 DEF t

\* An archive holds lines of the file that was renamed.
LEMMA PartTypes ==
  ASSUME LogTypes, NEW lines \in PartOf(rotating), PutArchive(lines)
  PROVE  /\ DOMAIN archives' = DOMAIN archives \cup {stamp}
         /\ archives'[stamp] = lines /\ lines \in Seq(AnyLine)
         /\ ~NameTaken => \A s \in DOMAIN archives : archives'[s] = archives[s]
         /\ \A s \in DOMAIN archives' : archives'[s] \in Seq(AnyLine)
  <1>1. lines \in Seq(AnyLine)
    BY PartIs DEF LogTypes
  <1> QED BY <1>1 DEF LogTypes, PutArchive, NameTaken

\* The types of what a step of the worker writes.
LEMMA StampTypes ==
  ASSUME LogTypes, QueueIsBehind, NEW e, Take(e), Stamp(e)
  PROVE  /\ e \in Event /\ e = Head(queue) /\ taken' = e /\ taken' \in 0 .. sent
         /\ head' = Append(head, e) /\ head' \in Seq(Event) /\ saved' \in {saved, head'}
         /\ queue' = Tail(queue) /\ queue' \in Seq(Event)
         /\ worker' \in {"check", "draining"} /\ (worker' = "check" <=> worker = "idle")
         /\ Row(head') \in AnyLine /\ Row(head').kind = "chained" /\ Row(head').hash = head'
  <1>1. queue # <<>> /\ e = Head(queue)
    BY DEF Take
  <1>2. e \in Event /\ e \in Nat /\ taken < e /\ e <= sent /\ Append(head, e) \in Seq(Event)
        /\ Tail(queue) \in Seq(Event)
    BY <1>1, QueueFacts
  <1>3. taken' = e /\ queue' = Tail(queue) /\ head' = Append(head, e)
    BY DEF Take, Stamp
  <1>4. worker' \in {"check", "draining"} /\ (worker' = "check" <=> worker = "idle")
    BY DEF Take
  <1>5. saved' \in {saved, head'}
    BY DEF Stamp
  <1>6. taken' \in 0 .. sent
    BY <1>2, <1>3 DEF LogTypes
  <1>7. head' \in Seq(Event)
    BY <1>2, <1>1, <1>3
  <1>8. Row(head') \in AnyLine /\ Row(head').kind = "chained" /\ Row(head').hash = head'
    BY <1>7, LineTypes
  <1> QED BY <1>1, <1>2, <1>3, <1>4, <1>5, <1>6, <1>7, <1>8

\* What can be noted of a mishap.
LEMMA MishapTypes ==
  ASSUME NEW m \in Mishaps
  PROVE  /\ [m EXCEPT !.crashes = @ + 1] \in Mishaps
         /\ [m EXCEPT !.faults = @ + 1] \in Mishaps
         /\ [m EXCEPT !.purged = TRUE] \in Mishaps
         /\ [m EXCEPT !.collided = TRUE] \in Mishaps
         /\ \A v \in BOOLEAN : [m EXCEPT !.forgot = v] \in Mishaps
  <1>1. [m EXCEPT !.crashes = @ + 1] \in Mishaps
    BY DEF Mishaps
  <1>2. [m EXCEPT !.faults = @ + 1] \in Mishaps
    BY DEF Mishaps
  <1>3. [m EXCEPT !.purged = TRUE] \in Mishaps
    BY DEF Mishaps
  <1>4. [m EXCEPT !.collided = TRUE] \in Mishaps
    BY DEF Mishaps
  <1>5. \A v \in BOOLEAN : [m EXCEPT !.forgot = v] \in Mishaps
    BY DEF Mishaps
  <1> QED BY <1>1, <1>2, <1>3, <1>4, <1>5

\* The write of an event keeps the types.
LEMMA WriteTypes ==
  ASSUME LogTypes, QueueIsBehind, WriteRow \/ WriteFails
  PROVE  LogTypes'
  <1>1. PICK e : Take(e) /\ Stamp(e)
    BY DEF WriteRow, WriteFails
  <1>2. /\ head' \in Seq(Event) /\ saved' \in {saved, head'} /\ queue' \in Seq(Event)
        /\ taken' \in 0 .. sent /\ worker' \in {"check", "draining"} /\ Row(head') \in AnyLine
    BY <1>1, StampTypes
  <1>3. Joined(Row(head')) \in AnyLine /\ Joined(Bad) \in AnyLine
    BY <1>2, JoinedLine, LineTypes
  <1>4. active' \in Seq(AnyLine)
    <2>1. active' = active \/ active' = Append(active, Joined(Row(head')))
      BY DEF WriteRow, WriteFails, AppendLine, AppendPart, log
    <2> QED BY <1>3, <2>1, Tails, AppendLines
  <1>5. tail' \in {tail, Clean, Torn, Unterminated(Joined(Bad))}
    BY DEF WriteRow, WriteFails, AppendLine, AppendPart, log
  <1>6. /\ tail' \in [state : {"clean", "torn", "unterminated"}, line : AnyLine]
        /\ tail'.state = "clean" => tail' = Clean
        /\ tail'.state = "torn" => tail' = Torn
    BY <1>3, <1>5, LineTypes DEF LogTypes, Clean, Torn, Unterminated
  <1>7. mishaps' \in Mishaps
    <2>1. mishaps' = mishaps \/ Fault
      BY DEF WriteRow, WriteFails
    <2> QED BY <2>1, MishapTypes DEF Fault, LogTypes
  <1>8. UNCHANGED <<clock, sent, old, cli, closed>>
    BY DEF WriteRow, WriteFails
  <1> QED BY <1>2, <1>4, <1>6, <1>7, <1>8 DEF LogTypes, clock, old

\* The variables that go together.
LEMMA Groups ==
  /\ UNCHANGED clock => UNCHANGED <<now, stamp>>
  /\ UNCHANGED log => UNCHANGED <<active, tail>>
  /\ UNCHANGED old => UNCHANGED <<rotating, archives>>
  /\ UNCHANGED chain => UNCHANGED <<head, saved, unsaved, signed, manifests>>
  /\ UNCHANGED told => UNCHANGED <<counters, mishaps>>
  /\ UNCHANGED past => UNCHANGED <<taken, written, closed>>
  /\ UNCHANGED vars => UNCHANGED <<clock, sent, queue, worker, fd, log, old, chain, told, cli, past>>
  BY DEF clock, log, old, chain, told, past, vars

\* A purge of one archive or of several.
Purged ==
    /\ DOMAIN archives' \subseteq DOMAIN archives
    /\ \A s \in DOMAIN archives' : archives'[s] = archives[s]
    /\ mishaps' = [mishaps EXCEPT !.purged = TRUE]
    /\ UNCHANGED <<clock, sent, queue, worker, fd, log, rotating, chain, counters, cli, past>>

\* Retention in the proxy and the purge of the command take archives away, and no more.
LEMMA PurgeIsPurged ==
  /\ Purge => Purged
  /\ PurgeStep => Purged
  <1>1. ASSUME NEW S, archives' = [s \in DOMAIN archives \ S |-> archives[s]]
        PROVE  /\ DOMAIN archives' \subseteq DOMAIN archives
               /\ \A s \in DOMAIN archives' : archives'[s] = archives[s]
    BY <1>1
  <1>2. Purge => Purged
    BY <1>1 DEF Purge, Purged
  <1>3. ASSUME PurgeStep PROVE Purged
    BY <1>1, <1>3 DEF PurgeStep, PurgeLogsOlderThan, Purged
  <1> QED BY <1>2, <1>3

\* The shapes of the end of the active file.
LEMMA TailTypes ==
  ASSUME LogTypes, NEW l \in AnyLine
  PROVE  \A t \in {tail, Clean, Torn, Unterminated(l), Recovered} :
           /\ t \in [state : {"clean", "torn", "unterminated"}, line : AnyLine]
           /\ t.state = "clean" => t = Clean
           /\ t.state = "torn" => t = Torn
  BY LineTypes DEF LogTypes, Clean, Torn, Unterminated, Recovered

\* Each step of the worker keeps the types.
LEMMA WorkTypes ==
  ASSUME LogTypes, QueueIsBehind, Work
  PROVE  LogTypes'
  <1>1. CASE WriteRow \/ WriteFails
    BY <1>1, WriteTypes
  <1>2. CASE KeepFile
    BY <1>2, Groups DEF KeepFile, LogTypes
  <1>3. CASE RotateRename
    <2>1. /\ worker' = "renamed" /\ stamp' = now /\ rotating' = ActiveLines
          /\ active' = <<>> /\ tail' = Clean
          /\ UNCHANGED <<now, sent, queue, archives, chain, told, past>>
      BY <1>3, Tails DEF RotateRename
    <2>2. cli' \in [file : Files, runs : Nat]
      BY <1>3 DEF RotateRename, LogTypes, Files
    <2>3. DOMAIN archives' \subseteq 0 .. stamp' /\ stamp' \in 0 .. now
      BY <2>1 DEF LogTypes
    <2>4. active' \in Seq(AnyLine) /\ rotating' \in Seq(AnyLine)
      BY <2>1, LineTypes, Tails
    <2>5. /\ tail' \in [state : {"clean", "torn", "unterminated"}, line : AnyLine]
          /\ tail'.state = "clean" => tail' = Clean
          /\ tail'.state = "torn" => tail' = Torn
      BY <2>1, TailTypes, LineTypes
    <2> QED BY <2>1, <2>2, <2>3, <2>4, <2>5, Groups DEF LogTypes
  <1>4. CASE RotateZip
    <2>1. PutArchive(rotating) /\ rotating \in Seq(AnyLine) /\ ~NameTaken
      BY <1>4 DEF RotateZip, LogTypes
    <2>2. DOMAIN archives' \subseteq 0 .. stamp /\ \A s \in DOMAIN archives' : archives'[s] \in Seq(AnyLine)
      BY <2>1 DEF PutArchive, LogTypes
    <2>3. cli' \in [file : Files, runs : Nat]
      BY <1>4 DEF RotateZip, LogTypes, Files
    <2> QED BY <1>4, <2>2, <2>3, LineTypes, Groups DEF RotateZip, LogTypes
  <1>5. CASE RotateCollides
    BY <1>5, MishapTypes, Groups DEF RotateCollides, LogTypes
  <1>6. CASE RotateZipFails
    <2>1. PICK lines \in PartOf(rotating) : PutArchive(lines)
      BY <1>6 DEF RotateZipFails
    <2>2. DOMAIN archives' \subseteq 0 .. stamp /\ \A s \in DOMAIN archives' : archives'[s] \in Seq(AnyLine)
      BY <2>1, PartTypes DEF LogTypes
    <2>3. mishaps' \in Mishaps
      BY <1>6, MishapTypes DEF RotateZipFails, Fault, LogTypes
    <2> QED BY <1>6, <2>2, <2>3, Groups DEF RotateZipFails, LogTypes
  <1>7. CASE Reopen
    BY <1>7, Groups DEF Reopen, LogTypes
  <1>8. CASE ReopenFails
    BY <1>8, MishapTypes, Groups DEF ReopenFails, LogTypes, Fault
  <1>9. CASE EndClose
    <2>1. mishaps' \in Mishaps
      BY <1>9, MishapTypes DEF EndClose, CloseReturns, Fault, LogTypes
    <2>2. saved' \in Seq(Event) \cup {NoState}
      BY <1>9 DEF EndClose, CloseReturns, LogTypes
    <2> QED BY <1>9, <2>1, <2>2, Groups DEF EndClose, CloseReturns, LogTypes
  <1> QED BY <1>1, <1>2, <1>3, <1>4, <1>5, <1>6, <1>7, <1>8, <1>9 DEF Work

\* So does each step of the emitters, of Close, of crashes, of the CLI and of time.
LEMMA OtherTypes ==
  ASSUME LogTypes, QueueIsBehind,
         \/ Submit \/ BeginClose \/ Exit \/ Crash \/ CrashInWrite \/ CrashInZip \/ Start
         \/ CliOpen \/ CliAppend \/ Purged \/ Tick
  PROVE  LogTypes'
  <1>1. CASE Submit
    <2>1. sent + 1 \in Event /\ sent + 1 \in Nat
      BY <1>1, ConstantsAssumption DEF Submit, LogTypes, Event
    <2>2. Append(queue, sent + 1) \in Seq(Event)
      BY <2>1, AppendProperties DEF LogTypes
    <2>3. queue' \in Seq(Event)
      BY <1>1, <2>2 DEF Submit, LogTypes
    <2> QED BY <1>1, <2>1, <2>3, Groups DEF Submit, LogTypes
  <1>2. CASE BeginClose
    BY <1>2, Groups DEF BeginClose, LogTypes
  <1>3. CASE Exit
    BY <1>3, EmptySeq, Groups DEF Exit, LogTypes
  <1>4. CASE Crash
    BY <1>4, EmptySeq, MishapTypes, Groups DEF Crash, Die, LogTypes
  <1>5. CASE CrashInWrite
    <2>1. /\ worker' = "down" /\ queue' = <<>> /\ mishaps' = [mishaps EXCEPT !.crashes = @ + 1]
          /\ queue # <<>> /\ taken' = Head(queue) /\ head' = Append(head, taken')
          /\ saved' \in {saved, head'}
          /\ UNCHANGED <<clock, sent, old, cli, closed>>
      BY <1>5 DEF CrashInWrite, Die, Stamp
    <2>2. head' \in Seq(Event) /\ taken' \in 0 .. sent
      BY <2>1, QueueFacts DEF LogTypes
    <2>3. active' = active /\ tail' \in {Torn, Unterminated(Joined(Bad)), Unterminated(Joined(Row(head')))}
      BY <1>5 DEF CrashInWrite, AppendPart
    <2>4. Joined(Bad) \in AnyLine /\ Joined(Row(head')) \in AnyLine
      BY <2>2, JoinedLine, LineTypes
    <2>5. /\ tail' \in [state : {"clean", "torn", "unterminated"}, line : AnyLine]
          /\ tail'.state = "clean" => tail' = Clean
          /\ tail'.state = "torn" => tail' = Torn
      BY <2>3, <2>4, TailTypes
    <2>6. mishaps' \in Mishaps
      BY <2>1, MishapTypes DEF LogTypes
    <2> QED BY <2>1, <2>2, <2>3, <2>5, <2>6, EmptySeq, Groups DEF LogTypes
  <1>6. CASE CrashInZip
    <2>1. PICK lines \in PartOf(rotating) : PutArchive(lines)
      BY <1>6 DEF CrashInZip
    <2>2. DOMAIN archives' \subseteq 0 .. stamp /\ \A s \in DOMAIN archives' : archives'[s] \in Seq(AnyLine)
      BY <2>1, PartTypes DEF LogTypes
    <2>3. mishaps' \in Mishaps /\ worker' = "down" /\ queue' \in Seq(Event)
      BY <1>6, MishapTypes, EmptySeq DEF CrashInZip, Die, LogTypes
    <2> QED BY <1>6, <2>2, <2>3, Groups DEF CrashInZip, LogTypes
  <1>7. CASE Start
    <2>1. head' \in Seq(Event)
      BY <1>7, EmptySeq DEF Start, LogTypes
    <2>2. mishaps' \in Mishaps
      <3> DEFINE v == mishaps.forgot \/ head' # head
      <3>1. v \in BOOLEAN /\ mishaps' = [mishaps EXCEPT !.forgot = v]
        BY <1>7 DEF Start
      <3> HIDE DEF v
      <3> QED BY <3>1, MishapTypes DEF LogTypes
    <2>3. /\ tail' \in [state : {"clean", "torn", "unterminated"}, line : AnyLine]
          /\ tail'.state = "clean" => tail' = Clean
          /\ tail'.state = "torn" => tail' = Torn
      BY <1>7, TailTypes, LineTypes DEF Start
    <2> QED BY <1>7, <2>1, <2>2, <2>3, Groups DEF Start, LogTypes
  <1>8. CASE CliOpen
    <2>1. /\ tail' \in [state : {"clean", "torn", "unterminated"}, line : AnyLine]
          /\ tail'.state = "clean" => tail' = Clean
          /\ tail'.state = "torn" => tail' = Torn
      BY <1>8, TailTypes, LineTypes DEF CliOpen
    <2>2. cli' \in [file : Files, runs : Nat]
      BY <1>8 DEF CliOpen, LogTypes, Files
    <2> QED BY <1>8, <2>1, <2>2, Groups DEF CliOpen, LogTypes
  <1>9. CASE CliAppend
    <2>1. Joined(Bare) \in AnyLine /\ Bare \in AnyLine
      BY LineTypes, JoinedLine
    <2>2. active' \in Seq(AnyLine) /\ rotating' \in Seq(AnyLine)
      <3>1. active' = active \/ active' = Append(active, Joined(Bare))
        BY <1>9 DEF CliAppend, AppendLine, log, LogTypes, Files
      <3>2. rotating' = rotating \/ rotating' = Append(rotating, Bare)
        BY <1>9 DEF CliAppend, AppendLine, log, LogTypes, Files
      <3>3. active \in Seq(AnyLine) /\ rotating \in Seq(AnyLine)
        BY DEF LogTypes
      <3>4. Append(active, Joined(Bare)) \in Seq(AnyLine) /\ Append(rotating, Bare) \in Seq(AnyLine)
        BY <2>1, <3>3, AppendLines
      <3> QED BY <3>1, <3>2, <3>3, <3>4
    <2>3. tail' \in {tail, Clean}
      BY <1>9 DEF CliAppend, AppendLine, log, LogTypes, Files
    <2>4. /\ tail' \in [state : {"clean", "torn", "unterminated"}, line : AnyLine]
          /\ tail'.state = "clean" => tail' = Clean
          /\ tail'.state = "torn" => tail' = Torn
      BY <2>3, TailTypes, LineTypes
    <2>5. cli' \in [file : Files, runs : Nat]
      BY <1>9 DEF CliAppend, LogTypes, Files
    <2> QED BY <1>9, <2>2, <2>4, <2>5, Groups DEF CliAppend, LogTypes
  <1>10. CASE Purged
    <2>1. mishaps' \in Mishaps
      BY <1>10, MishapTypes DEF Purged, LogTypes
    <2> QED BY <1>10, <2>1, Groups DEF Purged, LogTypes
  <1>11. CASE Tick
    BY <1>11, ConstantsAssumption, Groups DEF Tick, LogTypes
  <1> QED BY <1>1, <1>2, <1>3, <1>4, <1>5, <1>6, <1>7, <1>8, <1>9, <1>10, <1>11
-----------------------------------------------------------------------------
(* What a step does to the queue, the chain and the files *)

\* An event is taken: its line, or what becomes of it, is at the end of the active file.
Adds ==
    /\ queue # <<>> /\ taken' = Head(queue) /\ queue' \in {Tail(queue), <<>>}
    /\ worker' \in {"check", "draining", "down"}
    /\ head' = Append(head, taken') /\ saved' \in {saved, head'}
    /\ Continues(ActiveLines', ActiveLines, {head'})
    /\ Renamed' = Renamed /\ archives' = archives
    /\ manifests' \subseteq manifests \cup {head'}
    /\ mishaps'.forgot = mishaps.forgot
    /\ UNCHANGED <<sent, closed>>

\* Nothing is added that a reader of the chain would see.
Lessens ==
    /\ Hashes(ActiveLines') \subseteq Hashes(ActiveLines)
    /\ Increasing(ActiveLines) => Increasing(ActiveLines')
    /\ Hashes(Renamed') \subseteq Hashes(Renamed)
    /\ Increasing(Renamed) => Increasing(Renamed')
    /\ DOMAIN archives' \subseteq DOMAIN archives
    /\ \A s \in DOMAIN archives' : archives'[s] = archives[s]

Renames == Renamed' = ActiveLines /\ Renamed = <<>> /\ ActiveLines' = <<>> /\ archives' = archives

Zips ==
    /\ ActiveLines' = ActiveLines /\ Renamed' = <<>>
    /\ stamp \notin DOMAIN archives /\ DOMAIN archives' = DOMAIN archives \cup {stamp}
    /\ \A s \in DOMAIN archives : archives'[s] = archives[s]
    /\ Hashes(archives'[stamp]) \subseteq Hashes(Renamed)
    /\ Increasing(Renamed) =>
         /\ Increasing(archives'[stamp])
         /\ Below(EndsOf(archives'[stamp]), EndsOf(Renamed) \ EndsOf(archives'[stamp]))

\* An empty file shows nothing.
LEMMA NoHashes == Hashes(<<>>) = {} /\ Increasing(<<>>) /\ Rows(<<>>) = {} /\ EndsOf(<<>>) = {}
  <1>1. Rows(<<>>) = {}
    BY EmptySeq DEF Rows
  <1> QED BY <1>1 DEF Hashes, Increasing, EndsOf, Ends

\* A write, one that fails and one that a crash cuts short take an event and may show it.
LEMMA AddsWhen ==
  ASSUME LogTypes, QueueIsBehind, WriteRow \/ WriteFails \/ CrashInWrite
  PROVE  Adds
  <1>1. /\ queue # <<>> /\ taken' = Head(queue) /\ queue' \in {Tail(queue), <<>>}
        /\ worker' \in {"check", "draining", "down"} /\ worker \in {"idle", "draining"}
        /\ head' = Append(head, taken') /\ saved' \in {saved, head'}
        /\ Sign \/ UNCHANGED <<signed, manifests>>
        /\ mishaps' = mishaps \/ Fault \/ Die
        /\ UNCHANGED <<sent, old, closed>>
    <2>1. CASE WriteRow \/ WriteFails
      <3>1. PICK e : Take(e) /\ Stamp(e)
        BY <2>1 DEF WriteRow, WriteFails
      <3>2. queue # <<>> /\ worker \in {"idle", "draining"}
        BY <3>1 DEF Take
      <3>3. /\ taken' = Head(queue) /\ queue' = Tail(queue) /\ worker' \in {"check", "draining"}
            /\ head' = Append(head, taken') /\ saved' \in {saved, head'}
        BY <3>1, StampTypes
      <3> QED BY <2>1, <3>2, <3>3 DEF WriteRow, WriteFails
    <2>2. CASE CrashInWrite
      BY <2>2 DEF CrashInWrite, Die, Stamp
    <2> QED BY <2>1, <2>2
  <1>2. head' \in Seq(Event)
    BY <1>1, QueueFacts
  <1>3. Row(head') \in AnyLine /\ Bad \in AnyLine /\ Row(head').hash = head' /\ Bad.kind # "chained"
    BY <1>2, LineTypes
  <1>4. \/ UNCHANGED log
        \/ ActiveLines' = Append(active, Joined(Row(head')))
        \/ ActiveLines' = Append(active, Joined(Bad))
    <2>1. ASSUME NEW l \in AnyLine, AppendLine(l)
          PROVE  ActiveLines' = Append(active, Joined(l))
      <3>1. active' = Append(active, Joined(l)) /\ tail' = Clean
        BY <2>1 DEF AppendLine
      <3>2. Joined(l) \in AnyLine
        BY JoinedLine
      <3>3. active' \in Seq(AnyLine)
        BY <3>1, <3>2, Tails, AppendLines
      <3>4. active' \o <<>> = active'
        <4> HIDE DEF AnyLine
        <4> QED BY <3>3, ConcatEmptySeq
      <3> QED BY <3>1, <3>4 DEF ActiveLines
    <2>2. ASSUME NEW l \in AnyLine, active' = active, tail' = Unterminated(l) \/ (tail' = Torn /\ l = Bad)
          PROVE  ActiveLines' = Append(active, l)
      <3>1. tail' # Clean /\ tail'.line = l
        BY <2>2 DEF Unterminated, Torn, Clean
      <3>2. active \o <<l>> = Append(active, l)
        <4> HIDE DEF AnyLine
        <4> QED BY Tails, AppendIsConcat
      <3> QED BY <2>2, <3>1, <3>2 DEF ActiveLines
    <2>3. Joined(Bad) \in AnyLine /\ Joined(Row(head')) \in AnyLine
      BY <1>3, JoinedLine
    <2>4. AppendPart => ActiveLines' = Append(active, Joined(Bad))
      <3>1. tail.state # "unterminated" => Joined(Bad) = Bad
        BY DEF Joined, LogTypes
      <3> QED BY <2>2, <2>3, <3>1 DEF AppendPart
    <2>5. \/ AppendLine(Row(head')) \/ AppendPart \/ UNCHANGED log
          \/ tail' = Unterminated(Joined(Row(head'))) /\ active' = active
      BY DEF WriteRow, WriteFails, CrashInWrite
    <2> QED BY <1>3, <2>1, <2>2, <2>3, <2>4, <2>5
  <1>5. Continues(ActiveLines', ActiveLines, {head'})
    <2>1. CASE UNCHANGED log
      <3>1. ActiveLines' = ActiveLines
        BY <2>1 DEF log, ActiveLines
      <3> QED BY <3>1, Tails, LenProperties DEF Continues
    <2>2. CASE ActiveLines' = Append(active, Joined(Row(head')))
      BY <1>3, <2>2, JoinedLine
    <2>3. CASE ActiveLines' = Append(active, Joined(Bad))
      BY <1>3, <2>3, JoinedLine
    <2> QED BY <1>4, <2>1, <2>2, <2>3
  <1>6. Renamed' = Renamed /\ archives' = archives
    BY <1>1 DEF Renamed, old
  <1>7. manifests' \subseteq manifests \cup {head'}
    BY <1>1 DEF Sign
  <1>8. mishaps'.forgot = mishaps.forgot
    BY <1>1 DEF Fault, Die, LogTypes, Mishaps
  <1> QED BY <1>1, <1>5, <1>6, <1>7, <1>8 DEF Adds

\* The end of the active file as the next start finds it shows no more than before.
LEMMA RecoveredLessens ==
  ASSUME LogTypes, active' = active, tail' \in {tail, Recovered}
  PROVE  /\ Hashes(ActiveLines') \subseteq Hashes(ActiveLines)
         /\ Increasing(ActiveLines) => Increasing(ActiveLines')
  <1>1. tail' = tail \/ tail' = Clean
    BY DEF Recovered
  <1>2. CASE tail' = tail
    <2>1. ActiveLines' = ActiveLines
      BY <1>2 DEF ActiveLines
    <2> QED BY <2>1
  <1>3. CASE tail' = Clean
    <2>1. active \o <<>> = active
      <3> HIDE DEF AnyLine
      <3> QED BY Tails, ConcatEmptySeq
    <2>2. ActiveLines' = active
      BY <1>3, <2>1 DEF ActiveLines
    <2> QED BY <2>2, WithoutTail
  <1> QED BY <1>1, <1>2, <1>3

\* A row that the CLI adds shows no event: it is not stamped.
LEMMA BareLessens ==
  ASSUME LogTypes, CliAppend
  PROVE  /\ Hashes(ActiveLines') = Hashes(ActiveLines)
         /\ Increasing(ActiveLines) => Increasing(ActiveLines')
         /\ Hashes(Renamed') = Hashes(Renamed)
         /\ Increasing(Renamed) => Increasing(Renamed')
  <1>1. Bare \in AnyLine /\ Bare.kind # "chained" /\ Joined(Bare) \in AnyLine
    BY LineTypes, JoinedLine
  <1>2. \/ AppendLine(Bare) /\ rotating' = rotating
        \/ rotating' = Append(rotating, Bare) /\ UNCHANGED log
        \/ UNCHANGED <<log, rotating>>
    BY DEF CliAppend, LogTypes, Files
  <1>3. worker' = worker
    BY DEF CliAppend
  <1>5. ASSUME UNCHANGED log PROVE ActiveLines' = ActiveLines
    BY <1>5 DEF log, ActiveLines
  <1>6. ASSUME UNCHANGED rotating PROVE Renamed' = Renamed
    BY <1>3, <1>6 DEF Renamed
  <1>7. CASE AppendLine(Bare) /\ rotating' = rotating
    <2>1. active' = Append(active, Joined(Bare)) /\ tail' = Clean
      BY <1>7 DEF AppendLine
    <2>2. active' \in Seq(AnyLine)
      BY <1>1, <2>1, Tails, AppendLines
    <2>3. active' \o <<>> = active'
      <3> HIDE DEF AnyLine
      <3> QED BY <2>2, ConcatEmptySeq
    <2>4. ActiveLines' = Append(active, Joined(Bare))
      BY <2>1, <2>3 DEF ActiveLines
    <2>5. Continues(ActiveLines', ActiveLines, {})
      BY <1>1, <2>4, JoinedLine
    <2>6. /\ Hashes(ActiveLines') = Hashes(ActiveLines)
          /\ Increasing(ActiveLines) => Increasing(ActiveLines')
      BY <2>1, <2>2, <2>4, <2>5, Tails, NothingNew
    <2> QED BY <1>6, <1>7, <2>6
  <1>8. CASE rotating' = Append(rotating, Bare) /\ UNCHANGED log
    <2> DEFINE t == Append(rotating, Bare)
    <2>1. rotating \in Seq(AnyLine)
      BY DEF LogTypes
    <2>2. Continues(t, rotating, {}) /\ t \in Seq(AnyLine)
      BY <1>1, <2>1, AppendContinues, AppendLines
    <2> HIDE DEF t
    <2>3. Hashes(t) = Hashes(rotating) /\ (Increasing(rotating) => Increasing(t))
      BY <2>1, <2>2, NothingNew
    <2>4. rotating' = t
      BY <1>8 DEF t
    <2>5. (Renamed' = t /\ Renamed = rotating) \/ Renamed' = Renamed
      BY <1>3, <2>4 DEF Renamed
    <2> QED BY <1>5, <1>8, <2>3, <2>5
  <1>9. CASE UNCHANGED <<log, rotating>>
    BY <1>5, <1>6, <1>9
  <1> QED BY <1>2, <1>7, <1>8, <1>9

\* The steps after which the files show no more than before.
LEMMA LessensWhen ==
  ASSUME LogTypes,
         \/ Submit \/ KeepFile \/ RotateCollides \/ Reopen \/ ReopenFails \/ EndClose
         \/ BeginClose \/ Exit \/ Crash \/ Start \/ CliOpen \/ CliAppend \/ Purged \/ Tick
         \/ UNCHANGED vars
  PROVE  Lessens
  <1>1. CASE CliAppend
    <2>1. archives' = archives
      BY <1>1 DEF CliAppend
    <2> QED BY <1>1, <2>1, BareLessens DEF Lessens
  <1>2. CASE ~CliAppend
    <2>1. /\ active' = active /\ tail' \in {tail, Recovered} /\ rotating' = rotating
          /\ worker' = "renamed" => worker = "renamed"
          /\ archives' = archives \/ Purged
      BY <1>2, Groups DEF Submit, KeepFile, RotateCollides, Reopen, ReopenFails, EndClose,
         CloseReturns, BeginClose, Exit, Crash, Die, Start, CliOpen, Purged, Tick
    <2>2. Renamed' = Renamed \/ Renamed' = <<>>
      BY <2>1 DEF Renamed
    <2>3. /\ Hashes(Renamed') \subseteq Hashes(Renamed)
          /\ Increasing(Renamed) => Increasing(Renamed')
      BY <2>2, NoHashes
    <2>4. /\ DOMAIN archives' \subseteq DOMAIN archives
          /\ \A s \in DOMAIN archives' : archives'[s] = archives[s]
      BY <2>1 DEF Purged
    <2> QED BY <2>1, <2>3, <2>4, RecoveredLessens DEF Lessens
  <1> QED BY <1>1, <1>2

\* The rename takes all that the active file shows to the file that is compressed.
LEMMA RenamesWhen ==
  ASSUME LogTypes, RotateRename
  PROVE  Renames
  <1>1. worker = "check" /\ worker' = "renamed" /\ rotating' = ActiveLines
        /\ active' = <<>> /\ tail' = Clean /\ archives' = archives
    BY Tails DEF RotateRename
  <1>2. <<>> \o <<>> = <<>>
    BY EmptySeq, ConcatEmptySeq
  <1>3. ActiveLines' = <<>>
    BY <1>1, <1>2 DEF ActiveLines
  <1> QED BY <1>1, <1>3 DEF Renames, Renamed

\* The compression makes an archive of some of what the renamed file shows.
LEMMA ZipsWhen ==
  ASSUME LogTypes, RotateZip \/ RotateZipFails \/ CrashInZip
  PROVE  Zips
  <1>1. worker = "renamed" /\ worker' # "renamed" /\ ~NameTaken /\ UNCHANGED log
    BY DEF RotateZip, RotateZipFails, CrashInZip, Die
  <1>2. ActiveLines' = ActiveLines
    BY <1>1 DEF ActiveLines, log
  <1>3. Renamed' = <<>> /\ Renamed = rotating /\ rotating \in Seq(AnyLine)
    BY <1>1 DEF Renamed, LogTypes
  <1>4. PICK lines : PutArchive(lines) /\ (lines = rotating \/ lines \in PartOf(rotating))
    BY DEF RotateZip, RotateZipFails, CrashInZip
  <1>5. /\ Hashes(lines) \subseteq Hashes(rotating)
        /\ Increasing(rotating) => /\ Increasing(lines)
                                  /\ Below(EndsOf(lines), EndsOf(rotating) \ EndsOf(lines))
    <2>1. Below(EndsOf(rotating), EndsOf(rotating) \ EndsOf(rotating))
      BY DEF Below
    <2> QED BY <1>3, <1>4, <2>1, PartIs
  <1>6. /\ stamp \notin DOMAIN archives
        /\ DOMAIN archives' = DOMAIN archives \cup {stamp} /\ archives'[stamp] = lines
        /\ \A s \in DOMAIN archives : archives'[s] = archives[s]
    BY <1>1, <1>4 DEF PutArchive, NameTaken
  <1> QED BY <1>2, <1>3, <1>5, <1>6 DEF Zips

LogNext == Next \/ Purged

\* The chain is as it was, or begins again where its state was saved.
Stays ==
    /\ taken' = taken /\ manifests' = manifests
    /\ ~mishaps'.forgot => ~mishaps.forgot /\ head' = head
    /\ head' = head \/ head' = <<>> \/ (head' = saved /\ saved # NoState)
    /\ saved' = saved \/ saved' = head

\* Every step of the log is of one of these kinds, and moves the chain as told.
LEMMA Steps ==
  ASSUME LogTypes, QueueIsBehind, LogNext \/ UNCHANGED vars
  PROVE  Adds \/ (Stays /\ (Lessens \/ Renames \/ Zips))
  <1>1. CASE WriteRow \/ WriteFails \/ CrashInWrite
    BY <1>1, AddsWhen
  <1>2. CASE \/ Submit \/ KeepFile \/ RotateCollides \/ Reopen \/ ReopenFails \/ EndClose
             \/ BeginClose \/ Exit \/ Crash \/ CliOpen \/ CliAppend \/ Purged \/ Tick
             \/ UNCHANGED vars \/ RotateRename \/ RotateZip \/ RotateZipFails \/ CrashInZip
    <2>1. taken' = taken /\ manifests' = manifests /\ head' = head /\ (saved' = saved \/ saved' = head)
      BY <1>2, Groups DEF Submit, KeepFile, RotateCollides, Reopen, ReopenFails, EndClose,
         CloseReturns, BeginClose, Exit, Crash, CliOpen, CliAppend, Purged, Tick, RotateRename,
         RotateZip, RotateZipFails, CrashInZip
    <2>2. \/ mishaps' = mishaps \/ Fault \/ Die
          \/ mishaps' = [mishaps EXCEPT !.collided = TRUE]
          \/ mishaps' = [mishaps EXCEPT !.purged = TRUE]
      BY <1>2, Groups DEF Submit, KeepFile, RotateCollides, Reopen, ReopenFails, EndClose,
         CloseReturns, BeginClose, Exit, Crash, CliOpen, CliAppend, Purged, Tick, RotateRename,
         RotateZip, RotateZipFails, CrashInZip
    <2>3. mishaps'.forgot = mishaps.forgot
      BY <2>2 DEF Fault, Die, LogTypes, Mishaps
    <2>4. Lessens \/ Renames \/ Zips
      BY <1>2, LessensWhen, RenamesWhen, ZipsWhen
    <2> QED BY <2>1, <2>3, <2>4 DEF Stays
  <1>3. CASE Start
    <2>1. /\ taken' = taken /\ manifests' = manifests /\ saved' = saved
          /\ head' = (IF saved = NoState THEN <<>> ELSE saved)
          /\ mishaps' = [mishaps EXCEPT !.forgot = @ \/ head' # head]
      BY <1>3, Groups DEF Start
    <2>2. mishaps'.forgot = (mishaps.forgot \/ head' # head)
      BY <2>1 DEF LogTypes, Mishaps
    <2>3. Lessens
      BY <1>3, LessensWhen
    <2> QED BY <2>1, <2>2, <2>3 DEF Stays
  <1> QED BY <1>1, <1>2, <1>3, PurgeIsPurged DEF LogNext, Next, Work

\* The queue stays behind what was taken, in order, whoever submits, takes or drains.
LEMMA QueueStep ==
  ASSUME LogTypes, QueueIsBehind, LogNext \/ UNCHANGED vars
  PROVE  QueueIsBehind'
  <1>1. CASE Adds
    <2>1. taken' = Head(queue) /\ queue' \in {Tail(queue), <<>>} /\ worker' # "done"
          /\ queue # <<>> /\ sent' = sent
      BY <1>1 DEF Adds
    <2>2. CASE queue' = Tail(queue)
      BY <2>1, <2>2, QueueFacts DEF QueueIsBehind
    <2>3. CASE queue' = <<>>
      BY <2>1, <2>3, EmptySeq DEF QueueIsBehind
    <2> QED BY <2>1, <2>2, <2>3
  <1>2. CASE Submit /\ queue' # queue
    <2>1. queue' = Append(queue, sent + 1) /\ sent' = sent + 1 /\ taken' = taken /\ closed' = closed
          /\ worker' = worker
      BY <1>2, Groups DEF Submit
    <2>2. queue \in Seq(Nat) /\ sent + 1 \in Nat /\ sent \in Nat /\ taken \in Nat /\ taken <= sent
          /\ closed \in Nat /\ closed <= sent
      <3> HIDE DEF Event
      <3>1. queue \in Seq(Nat)
        BY TypesGive, SeqMonotonic
      <3>2. sent + 1 \in Nat
        BY TypesGive
      <3> QED BY <3>1, <3>2, TypesGive
    <2>3. /\ Len(queue') = Len(queue) + 1 /\ Len(queue) \in Nat
          /\ DOMAIN queue = 1 .. Len(queue) /\ DOMAIN queue' = 1 .. Len(queue) + 1
          /\ \A i \in 1 .. Len(queue) : queue'[i] = queue[i]
          /\ queue'[Len(queue) + 1] = sent + 1
      BY <2>1, <2>2, AppendProperties, LenProperties
    <2>4. \A i \in DOMAIN queue : queue[i] \in Nat
      BY <2>2, ElementOfSeq, <2>3
    <2>5. \A i \in DOMAIN queue' : (i \in DOMAIN queue /\ queue'[i] = queue[i])
                                   \/ (i = Len(queue) + 1 /\ queue'[i] = sent + 1)
      BY <2>3
    <2>6. \A i \in DOMAIN queue' : taken' < queue'[i] /\ queue'[i] <= sent'
      BY <2>1, <2>2, <2>4, <2>5 DEF QueueIsBehind
    <2>7. \A i, j \in DOMAIN queue' : i < j => queue'[i] < queue'[j]
      BY <2>1, <2>2, <2>3, <2>4, <2>5 DEF QueueIsBehind
    <2>8. worker' = "done" => \A i \in DOMAIN queue' : closed' < queue'[i]
      BY <2>1, <2>2, <2>4, <2>5 DEF QueueIsBehind
    <2> QED BY <2>6, <2>7, <2>8 DEF QueueIsBehind
  <1>3. CASE queue' = <<>> /\ ~Adds
    BY <1>3, EmptySeq DEF QueueIsBehind
  <1>4. CASE queue' = queue /\ queue # <<>> /\ ~Adds
    <2>1. /\ taken' = taken /\ sent' \in {sent, sent + 1}
          /\ worker' = "done" => worker = "done" /\ closed' = closed
      BY <1>4, AddsWhen, PurgeIsPurged, Groups DEF LogNext, Next, Work, Submit, KeepFile,
         RotateCollides, Reopen, ReopenFails, EndClose, CloseReturns,
         BeginClose, Exit, Crash, CliOpen, CliAppend, Purged, Tick,
         RotateRename, RotateZip, RotateZipFails, CrashInZip, Start, Die
    <2>2. sent \in Nat /\ \A i \in DOMAIN queue : queue[i] \in Nat
      BY TypesGive
    <2> QED BY <1>4, <2>1, <2>2 DEF QueueIsBehind
  <1>5. queue' = queue \/ queue' = <<>> \/ Submit \/ Adds
    BY AddsWhen, PurgeIsPurged, Groups DEF LogNext, Next, Work, KeepFile, RotateCollides, Reopen,
       ReopenFails, EndClose, CloseReturns, BeginClose, Exit, Crash, CliOpen, CliAppend, Purged,
       Tick, RotateRename, RotateZip, RotateZipFails, CrashInZip, Start, Die
  <1> QED BY <1>1, <1>2, <1>3, <1>4, <1>5

\* The chain, and its saved state, stay chains of events that were taken.
LEMMA ChainsStep ==
  ASSUME LogTypes, QueueIsBehind, ChainsAreChains, LogNext \/ UNCHANGED vars
  PROVE  ChainsAreChains'
  <1>1. CASE Adds
    <2>1. /\ queue # <<>> /\ taken' = Head(queue) /\ head' = Append(head, taken')
          /\ saved' = saved \/ saved' = head'
      BY <1>1 DEF Adds
    <2>2. head \in Seq(Event) /\ taken' \in Event /\ taken < taken' /\ taken \in Nat /\ Event \subseteq Nat
      BY <2>1, QueueFacts, TypesGive
    <2> HIDE DEF Event
    <2>3. /\ Len(head) \in Nat /\ DOMAIN head = 1 .. Len(head)
          /\ DOMAIN head' = 1 .. Len(head) + 1
          /\ \A i \in 1 .. Len(head) : head'[i] = head[i]
          /\ head'[Len(head) + 1] = taken'
      BY <2>1, <2>2, AppendProperties, LenProperties
    <2>4. \A i \in DOMAIN head : head[i] \in 1 .. taken
      BY DEF ChainsAreChains, IsChain
    <2>5. \A i \in DOMAIN head' : \/ i \in DOMAIN head /\ head'[i] = head[i]
                                  \/ i = Len(head) + 1 /\ head'[i] = taken'
      BY <2>3
    <2>6. \A i \in DOMAIN head' : head'[i] \in 1 .. taken'
      BY <2>2, <2>4, <2>5
    <2>7. \A i, j \in DOMAIN head' : i < j => head'[i] < head'[j]
      BY <2>2, <2>3, <2>4, <2>5 DEF ChainsAreChains, IsChain
    <2>8. IsChain(head)'
      BY <2>6, <2>7 DEF IsChain
    <2>9. saved # NoState => \A i \in DOMAIN saved : saved[i] \in 1 .. taken'
      BY <2>2 DEF ChainsAreChains, IsChain
    <2>10. saved' # NoState => IsChain(saved)'
      BY <2>1, <2>8, <2>9 DEF ChainsAreChains, IsChain
    <2> QED BY <2>8, <2>10 DEF ChainsAreChains
  <1>2. CASE Stays
    <2>1. taken' = taken
      BY <1>2 DEF Stays
    <2>3. IsChain(head)'
      BY <1>2, <2>1, EmptySeq DEF Stays, ChainsAreChains, IsChain
    <2>4. saved' # NoState => IsChain(saved)'
      BY <1>2, <2>1 DEF Stays, ChainsAreChains, IsChain
    <2> QED BY <2>3, <2>4 DEF ChainsAreChains
  <1> QED BY <1>1, <1>2, Steps

\* The active file after a step.
LEMMA LaterTails ==
  ASSUME LogTypes'
  PROVE  ActiveLines' \in Seq(AnyLine)
  <1>1. active' \in Seq(AnyLine) /\ tail'.line \in AnyLine
    BY DEF LogTypes
  <1>2. active' \o <<>> = active' /\ active' \o <<tail'.line>> = Append(active', tail'.line)
    <2> HIDE DEF AnyLine
    <2> QED BY <1>1, ConcatEmptySeq, AppendIsConcat
  <1>3. Append(active', tail'.line) \in Seq(AnyLine)
    BY <1>1, AppendLines
  <1> QED BY <1>1, <1>2, <1>3 DEF ActiveLines

\* The chain after an event was stamped.
LEMMA LastOfHead ==
  ASSUME LogTypes, QueueIsBehind, Adds
  PROVE  /\ taken' \in Nat /\ taken \in Nat /\ taken < taken'
         /\ head' \in Seq(Event) /\ Len(head') = Len(head) + 1 /\ Len(head) \in Nat
         /\ head \in Seq(Event) /\ \A i \in 1 .. Len(head) : head'[i] = head[i]
         /\ head'[Len(head')] = taken' /\ Last(head') = taken'
  <1>1. queue # <<>> /\ taken' = Head(queue) /\ head' = Append(head, taken')
    BY DEF Adds
  <1>2. head \in Seq(Event) /\ taken' \in Event /\ taken < taken' /\ taken \in Nat /\ taken' \in Nat
    BY <1>1, QueueFacts DEF LogTypes
  <1> HIDE DEF Event
  <1>3. /\ Len(head') = Len(head) + 1 /\ Len(head) \in Nat /\ head' \in Seq(Event)
        /\ \A i \in 1 .. Len(head) : head'[i] = head[i]
        /\ head'[Len(head) + 1] = taken'
    BY <1>1, <1>2, AppendProperties, LenProperties
  <1> QED BY <1>2, <1>3 DEF Last

\* The files stay in order: archives by name, the renamed file, the active file.
LEMMA FilesStep ==
  ASSUME LogTypes, LogTypes', QueueIsBehind, FilesInOrder, LogNext \/ UNCHANGED vars
  PROVE  FilesInOrder'
  <1> DEFINE z == archives
             r == Renamed
             a == ActiveLines
  <1>1. taken \in Nat /\ Ordered(z, r, a, taken) /\ a \in Seq(AnyLine) /\ a' \in Seq(AnyLine)
    <2>1. a \in Seq(AnyLine)
      BY Tails
    <2>2. a' \in Seq(AnyLine)
      BY LaterTails
    <2> QED BY <2>1, <2>2 DEF LogTypes, FilesInOrder
  <1>2. CASE Adds
    <2> DEFINE e == taken'
               b == a'
    <2>1. e \in Nat /\ taken < e /\ Last(head') = e
      BY <1>2, LastOfHead
    <2>2. Continues(b, a, {head'})
      BY <1>2 DEF Adds
    <2>3. Ends({head'}) = {e}
      BY <2>1, EndOne
    <2> HIDE DEF a, b
    <2>4. EndsOf(b) \subseteq EndsOf(a) \cup {e}
      BY <1>1, <2>2, <2>3, ContinuesHashes, EndsGrow DEF b
    <2>5. Below(EndsOf(a), {e}) => Increasing(b)
      <3>1. Increasing(a)
        BY <1>1 DEF Ordered
      <3>2. Increasing(a) /\ Below(Ends(Hashes(a)), Ends({head'})) => Increasing(b)
        BY <1>1, <2>2, ContinuesHashes DEF b
      <3> QED BY <2>3, <3>1, <3>2 DEF EndsOf
    <2>6. Ordered(z, r, b, e)
      BY <1>1, <2>1, <2>4, <2>5, OrderedWrite
    <2> QED BY <1>2, <2>6 DEF Adds, FilesInOrder, a, b
  <1>3. CASE Stays /\ Lessens
    <2>1. taken' = taken
      BY <1>3 DEF Stays
    <2>2. EndsOf(a') \subseteq EndsOf(a) /\ EndsOf(r') \subseteq EndsOf(r)
      BY <1>3 DEF Lessens, EndsOf, Ends
    <2>3. Increasing(a') /\ Increasing(r')
      BY <1>1, <1>3 DEF Lessens, Ordered
    <2>4. DOMAIN z' \subseteq DOMAIN z /\ \A s \in DOMAIN z' : z'[s] = z[s]
      BY <1>3 DEF Lessens
    <2> HIDE DEF a, r, z
    <2>5. Ordered(z', r', a', taken)
      BY <1>1, <2>2, <2>3, <2>4, OrderedLess
    <2> QED BY <2>1, <2>5 DEF FilesInOrder, a, r, z
  <1>4. CASE Stays /\ Renames
    <2>1. taken' = taken /\ r' = a /\ r = <<>> /\ a' = <<>> /\ z' = z
      BY <1>4 DEF Stays, Renames
    <2>2. EndsOf(r) = {} /\ EndsOf(a') = {} /\ Increasing(a')
      BY <2>1, NoHashes
    <2> HIDE DEF a, r, z
    <2>3. Ordered(z, a, a', taken)
      BY <1>1, <2>2, OrderedRename
    <2> QED BY <2>1, <2>3 DEF FilesInOrder, a, r, z
  <1>5. CASE Stays /\ Zips
    <2> DEFINE n == stamp
               c == z'[n]
    <2>1. /\ taken' = taken /\ a' = a /\ r' = <<>>
          /\ n \notin DOMAIN z /\ DOMAIN z' = DOMAIN z \cup {n}
          /\ \A s \in DOMAIN z : z'[s] = z[s]
      BY <1>5 DEF Stays, Zips
    <2>2. EndsOf(c) \subseteq EndsOf(r)
      BY <1>5 DEF Zips, EndsOf, Ends
    <2>3. Increasing(c)
      BY <1>1, <1>5 DEF Zips, Ordered
    <2>4. n \in Nat /\ \A s \in DOMAIN z : s \in Nat /\ s < n
      <3>1. Seconds \in Nat /\ now \in 0 .. Seconds /\ n \in 0 .. now /\ DOMAIN z \subseteq 0 .. n
        BY ConstantsAssumption DEF LogTypes
      <3> HIDE DEF n, z
      <3>2. n \in Nat /\ \A s \in DOMAIN z : s \in Nat /\ s <= n
        BY <3>1
      <3>3. \A s \in DOMAIN z : s # n
        BY <2>1
      <3> QED BY <3>2, <3>3
    <2>5. EndsOf(r') = {} /\ Increasing(r')
      BY <2>1, NoHashes
    <2> HIDE DEF a, r, z, n
    <2>6. Ordered(z', r', a, taken)
      BY <1>1, <2>1, <2>2, <2>3, <2>4, <2>5, OrderedZip
    <2> QED BY <2>1, <2>6 DEF FilesInOrder, a, r, z
  <1> QED BY <1>2, <1>3, <1>4, <1>5, Steps

\* The hashes on disk grow by the chain's new one only.
LEMMA HashesStep ==
  ASSUME LogTypes, LogTypes', QueueIsBehind, LogNext \/ UNCHANGED vars
  PROVE  /\ Adds => AllHashes' \subseteq AllHashes \cup {head'}
         /\ ~Adds => AllHashes' \subseteq AllHashes
  <1>1. ASSUME Adds PROVE AllHashes' \subseteq AllHashes \cup {head'}
    <2> DEFINE a == ActiveLines
               b == a'
    <2>1. Continues(b, a, {head'}) /\ Renamed' = Renamed /\ archives' = archives
      BY <1>1 DEF Adds
    <2>2. a \in Seq(AnyLine) /\ b \in Seq(AnyLine)
      BY Tails, LaterTails
    <2> HIDE DEF a, b
    <2>3. Hashes(b) \subseteq Hashes(a) \cup {head'}
      BY <2>1, <2>2, ContinuesHashes
    <2> QED BY <2>1, <2>3 DEF AllHashes, a, b
  <1>2. CASE Stays /\ Lessens
    BY <1>2 DEF Lessens, AllHashes
  <1>3. CASE Stays /\ Renames
    BY <1>3, NoHashes DEF Renames, AllHashes
  <1>4. CASE Stays /\ Zips
    BY <1>4, NoHashes DEF Zips, AllHashes
  <1> QED BY <1>1, <1>2, <1>3, <1>4, Steps

\* All that is on disk or signed stays of one chain, while no process forgets its end.
LEMMA OneChainStep ==
  ASSUME LogTypes, LogTypes', QueueIsBehind, OneChain, LogNext \/ UNCHANGED vars
  PROVE  OneChain'
  <1> SUFFICES ASSUME ~mishaps'.forgot, NEW x \in AllHashes' \cup manifests'
               PROVE  OfChain(x, head')
    BY DEF OneChain
  <1>1. CASE Adds
    <2>1. ~mishaps.forgot /\ manifests' \subseteq manifests \cup {head'}
      BY <1>1 DEF Adds
    <2>2. x \in AllHashes \cup manifests \/ x = head'
      BY <1>1, <2>1, HashesStep
    <2>3. /\ Len(head') = Len(head) + 1 /\ Len(head) \in Nat /\ head' \in Seq(Event)
          /\ \A i \in 1 .. Len(head) : head'[i] = head[i]
      BY <1>1, LastOfHead
    <2>4. CASE x = head'
      <3>1. head' # <<>>
        BY <2>3, EmptySeq
      <3> QED BY <2>3, <2>4, <3>1 DEF OfChain
    <2>5. CASE x \in AllHashes \cup manifests
      <3>1. OfChain(x, head)
        BY <2>1, <2>5 DEF OneChain
      <3>2. \A i \in 1 .. Len(x) : i \in 1 .. Len(head)
        BY <2>3, <3>1 DEF OfChain
      <3>3. Len(x) <= Len(head')
        BY <2>3, <3>1 DEF OfChain
      <3> QED BY <2>3, <3>1, <3>2, <3>3 DEF OfChain
    <2> QED BY <2>2, <2>4, <2>5
  <1>2. CASE ~Adds
    <2>1. Stays
      BY <1>2, Steps
    <2>2. x \in AllHashes \cup manifests /\ head' = head /\ ~mishaps.forgot
      BY <1>2, <2>1, HashesStep DEF Stays
    <2> QED BY <2>2 DEF OneChain
  <1> QED BY <1>1, <1>2
-----------------------------------------------------------------------------
(* What happens as long as nothing happens to the log *)

\* A mishap ends the calm, and no step brings it back.
LEMMA Bothers ==
  ASSUME LogTypes
  PROVE  /\ Fault => ~Undisturbed'
         /\ Die => ~Undisturbed'
         /\ mishaps' = [mishaps EXCEPT !.collided = TRUE] => ~Undisturbed'
         /\ mishaps' = [mishaps EXCEPT !.purged = TRUE] => ~Undisturbed'
         /\ UNCHANGED mishaps /\ Undisturbed' => Undisturbed
         /\ \A v : mishaps' = [mishaps EXCEPT !.forgot = v] =>
              mishaps'.forgot = v /\ (Undisturbed' => Undisturbed)
  <1> DEFINE m == mishaps
             n == mishaps'
  <1>1. m \in Mishaps
    BY DEF LogTypes
  <1>2. Undisturbed <=> m.crashes = 0 /\ m.faults = 0 /\ ~m.purged /\ ~m.collided
    BY DEF Undisturbed
  <1>3. Undisturbed' <=> n.crashes = 0 /\ n.faults = 0 /\ ~n.purged /\ ~n.collided
    BY DEF Undisturbed
  <1>4. Fault => n = [m EXCEPT !.faults = @ + 1]
    BY DEF Fault
  <1>5. Die => n = [m EXCEPT !.crashes = @ + 1]
    BY DEF Die
  <1> HIDE DEF m, n
  <1>6. n = [m EXCEPT !.faults = @ + 1] => n.faults # 0
    BY <1>1 DEF Mishaps
  <1>7. n = [m EXCEPT !.crashes = @ + 1] => n.crashes # 0
    BY <1>1 DEF Mishaps
  <1>8. n = [m EXCEPT !.collided = TRUE] => n.collided
    BY <1>1 DEF Mishaps
  <1>9. n = [m EXCEPT !.purged = TRUE] => n.purged
    BY <1>1 DEF Mishaps
  <1>10. \A v : n = [m EXCEPT !.forgot = v] =>
           /\ n.forgot = v /\ n.crashes = m.crashes /\ n.faults = m.faults
           /\ n.purged = m.purged /\ n.collided = m.collided
    BY <1>1 DEF Mishaps
  <1>11. Fault => ~Undisturbed'
    BY <1>3, <1>4, <1>6
  <1>12. Die => ~Undisturbed'
    BY <1>3, <1>5, <1>7
  <1>13. mishaps' = [mishaps EXCEPT !.collided = TRUE] => ~Undisturbed'
    BY <1>3, <1>8 DEF m, n
  <1>14. mishaps' = [mishaps EXCEPT !.purged = TRUE] => ~Undisturbed'
    BY <1>3, <1>9 DEF m, n
  <1>15. UNCHANGED mishaps /\ Undisturbed' => Undisturbed
    BY <1>2, <1>3 DEF m, n
  <1>16. \A v : mishaps' = [mishaps EXCEPT !.forgot = v] =>
              mishaps'.forgot = v /\ (Undisturbed' => Undisturbed)
    BY <1>2, <1>3, <1>10 DEF m, n
  <1> QED BY <1>11, <1>12, <1>13, <1>14, <1>15, <1>16

\* Then some steps do not occur.
LEMMA CalmSteps ==
  ASSUME LogTypes, Calm, LogNext \/ UNCHANGED vars, Undisturbed'
  PROVE  /\ Undisturbed
         /\ \/ Submit \/ WriteRow \/ KeepFile \/ RotateRename \/ RotateZip \/ Reopen
            \/ BeginClose \/ (EndClose /\ saved' = head) \/ Exit \/ Start \/ CliOpen \/ CliAppend
            \/ Tick \/ UNCHANGED vars
         /\ Start \/ UNCHANGED mishaps
  <1>1. ~Fault /\ ~Die
    BY Bothers
  <1>2. ~RotateCollides /\ ~Purged /\ ~Purge
    BY Bothers, PurgeIsPurged DEF RotateCollides, Purged
  <1>3. ~RotateZipFails /\ ~ReopenFails /\ ~Crash /\ ~CrashInWrite /\ ~CrashInZip
    BY <1>1 DEF RotateZipFails, ReopenFails, Crash, CrashInWrite, CrashInZip
  <1>4. EndClose => saved' = head /\ UNCHANGED mishaps
    BY <1>1 DEF EndClose, CloseReturns
  <1>5. WriteFails => fd = "closed" /\ worker \in {"idle", "draining"} /\ UNCHANGED mishaps
    BY <1>1 DEF WriteFails, Take
  <1>6. Start \/ UNCHANGED mishaps
    BY <1>2, <1>3, <1>4, <1>5, Groups DEF LogNext, Next, Work, Submit, WriteRow, KeepFile,
       RotateRename, RotateZip, Reopen, BeginClose, Exit, CliOpen, CliAppend, Tick
  <1>7. Undisturbed
    <2>1. CASE Start
      BY <2>1, Bothers DEF Start
    <2>2. CASE UNCHANGED mishaps
      BY <2>2, Bothers
    <2> QED BY <1>6, <2>1, <2>2
  <1>8. ~WriteFails
    BY <1>5, <1>7 DEF Calm
  <1> QED BY <1>2, <1>3, <1>4, <1>6, <1>7, <1>8 DEF LogNext, Next, Work

\* No hash is lost, and the chain's new one is on disk.
LEMMA CalmHashes ==
  ASSUME LogTypes, LogTypes', QueueIsBehind, Calm, LogNext \/ UNCHANGED vars, Undisturbed'
  PROVE  /\ tail' = Clean /\ AllHashes \subseteq AllHashes'
         /\ WriteRow => head' \in AllHashes'
  <1>1. Undisturbed /\ tail = Clean
    BY CalmSteps DEF Calm
  <1>2. CASE WriteRow
    <2>1. PICK e : Take(e) /\ Stamp(e) /\ AppendLine(Row(head'))
      BY <1>2 DEF WriteRow
    <2> DEFINE l == Row(head')
               t == Append(active, l)
    <2>2. l \in AnyLine /\ l.kind = "chained" /\ l.hash = head'
      BY <2>1, StampTypes
    <2>3. active' = t /\ tail' = Clean
      BY <1>1, <2>1, <2>2, JoinedLine DEF AppendLine
    <2>4. ActiveLines' = t /\ ActiveLines = active
      <3>1. active' \in Seq(AnyLine)
        BY DEF LogTypes
      <3>2. active' \o <<>> = active'
        <4> HIDE DEF AnyLine
        <4> QED BY <3>1, ConcatEmptySeq
      <3>3. ActiveLines' = active'
        BY <2>3, <3>2 DEF ActiveLines
      <3> QED BY <1>1, <2>3, <3>3, Tails
    <2> HIDE DEF l
    <2>5. Continues(t, active, {head'}) /\ head' \in Hashes(t) /\ t \in Seq(AnyLine)
          /\ active \in Seq(AnyLine)
      BY <2>2, Tails, AppendContinues, AppendLines
    <2> HIDE DEF t
    <2>6. Hashes(active) \subseteq Hashes(t)
      BY <2>5, ContinuesHashes
    <2>7. UNCHANGED archives /\ Renamed' = Renamed
      BY <1>2, AddsWhen DEF Adds
    <2> QED BY <2>3, <2>4, <2>5, <2>6, <2>7 DEF AllHashes
  <1>3. CASE RotateRename
    <2>1. tail' = Clean /\ ~WriteRow
      BY <1>3 DEF RotateRename, WriteRow, Take
    <2>2. AllHashes \subseteq AllHashes'
      BY <1>3, RenamesWhen, NoHashes DEF Renames, AllHashes
    <2> QED BY <2>1, <2>2
  <1>4. CASE RotateZip
    <2>1. /\ worker = "renamed" /\ worker' = "zipped" /\ UNCHANGED log /\ ~NameTaken
          /\ PutArchive(rotating)
      BY <1>4 DEF RotateZip
    <2>2. ActiveLines' = ActiveLines /\ Renamed' = <<>> /\ Renamed = rotating
      BY <2>1 DEF ActiveLines, log, Renamed
    <2>3. /\ DOMAIN archives' = DOMAIN archives \cup {stamp} /\ archives'[stamp] = rotating
          /\ \A s \in DOMAIN archives : archives'[s] = archives[s]
      BY <2>1 DEF PutArchive, NameTaken
    <2>4. tail' = Clean
      BY <1>1, <2>1 DEF log
    <2>5. ~WriteRow
      BY <2>1 DEF WriteRow, Take
    <2> QED BY <2>2, <2>3, <2>4, <2>5 DEF AllHashes
  <1>5. CASE CliAppend
    <2>1. archives' = archives /\ tail' \in {tail, Clean} /\ ~WriteRow
      BY <1>5 DEF CliAppend, AppendLine, log, WriteRow, Take, LogTypes, Files
    <2> QED BY <1>1, <1>5, <2>1, BareLessens DEF AllHashes
  <1>6. CASE \/ Submit \/ KeepFile \/ Reopen \/ BeginClose \/ EndClose \/ Exit \/ Start \/ CliOpen
             \/ Tick \/ UNCHANGED vars
    <2>1. /\ UNCHANGED <<active, old>> /\ tail' \in {tail, Recovered}
          /\ worker' = "renamed" <=> worker = "renamed"
      BY <1>6, Groups DEF Submit, KeepFile, Reopen, BeginClose, EndClose, CloseReturns, Exit, Start,
         CliOpen, Tick
    <2>2. tail' = Clean
      BY <1>1, <2>1 DEF Recovered
    <2>3. ActiveLines' = ActiveLines /\ Renamed' = Renamed /\ archives' = archives
      BY <1>1, <2>1, <2>2 DEF ActiveLines, Renamed, old
    <2>4. ~WriteRow
      BY <1>6, Groups DEF WriteRow, Take, Submit, KeepFile, Reopen, BeginClose, EndClose,
         CloseReturns, Exit, Start, CliOpen, Tick
    <2> QED BY <2>2, <2>3, <2>4 DEF AllHashes
  <1> QED BY <1>2, <1>3, <1>4, <1>5, <1>6, CalmSteps

\* In calm, events are written as they are stamped, and the file is open while the worker runs.
LEMMA CalmChain ==
  ASSUME LogTypes, LogTypes', QueueIsBehind, Calm, LogNext \/ UNCHANGED vars, Undisturbed'
  PROVE  /\ ~mishaps'.forgot
         /\ WriteRow => /\ taken' \in Event /\ head' = Append(head, taken') /\ head \in Seq(Event)
                        /\ written' = written \cup {taken'}
         /\ ~WriteRow => written' = written /\ head' = head
         /\ worker' \in {"idle", "check", "draining"} => fd' = "active"
         /\ worker' \in {"done", "down"} => saved' = head'
  <1>1. /\ Undisturbed /\ (Start \/ UNCHANGED mishaps)
        /\ \/ Submit \/ WriteRow \/ KeepFile \/ RotateRename \/ RotateZip \/ Reopen
           \/ BeginClose \/ (EndClose /\ saved' = head) \/ Exit \/ Start \/ CliOpen \/ CliAppend
           \/ Tick \/ UNCHANGED vars
    BY CalmSteps
  <1>2. /\ worker \in {"idle", "check", "draining"} => fd = "active"
        /\ ~mishaps.forgot
        /\ worker \in {"done", "down"} => saved = head
    BY <1>1 DEF Calm
  <1>3. CASE Start
    <2>1. saved = head /\ head # NoState
      <3>1. saved = head
        BY <1>2, <1>3 DEF Start
      <3>2. head # NoState
        <4>1. head \in Seq(Event) /\ 0 \notin Event /\ NoState = <<0>>
          BY ConstantsAssumption DEF LogTypes, Event, NoState
        <4> HIDE DEF Event
        <4>2. NoState[1] = 0 /\ Len(NoState) = 1
          BY <4>1
        <4>3. head = NoState => head[1] \in Event
          BY <4>1, <4>2, ElementOfSeq, LenProperties
        <4> QED BY <4>1, <4>2, <4>3
      <3> QED BY <3>1, <3>2
    <2>2. head' = head
      BY <1>3, <2>1 DEF Start
    <2>3. ~mishaps'.forgot
      <3>1. mishaps' = [mishaps EXCEPT !.forgot = mishaps.forgot \/ head' # head]
        BY <1>3 DEF Start
      <3>2. mishaps'.forgot = (mishaps.forgot \/ head' # head)
        BY <3>1, Bothers
      <3> QED BY <1>2, <2>2, <3>2
    <2>4. ~WriteRow /\ written' = written /\ worker' = "idle" /\ fd' = "active"
      BY <1>3, Groups DEF Start, WriteRow, Take
    <2> QED BY <2>2, <2>3, <2>4
  <1>4. CASE WriteRow
    <2>1. PICK e : Take(e) /\ Stamp(e) /\ fd = "active" /\ fd' = fd /\ written' = written \cup {e}
      BY <1>4 DEF WriteRow
    <2>2. /\ taken' = e /\ e \in Event /\ head' = Append(head, e) /\ worker' \in {"check", "draining"}
      BY <2>1, StampTypes
    <2>3. ~mishaps'.forgot /\ head \in Seq(Event)
      BY <1>2, <1>4 DEF WriteRow, LogTypes
    <2> QED BY <1>4, <2>1, <2>2, <2>3
  <1>5. CASE ~Start /\ ~WriteRow
    <2>1. mishaps' = mishaps
      BY <1>1, <1>5
    <2>2. written' = written /\ head' = head
      BY <1>1, <1>5, Groups DEF Submit, KeepFile, RotateRename, RotateZip, Reopen, BeginClose,
         EndClose, CloseReturns, Exit, CliOpen, CliAppend, Tick
    <2>3. worker' \in {"idle", "check", "draining"} => fd' = "active"
      BY <1>1, <1>2, <1>5, Groups DEF Submit, KeepFile, RotateRename, RotateZip, Reopen, BeginClose,
         EndClose, CloseReturns, Exit, CliOpen, CliAppend, Tick
    <2>4. worker' \in {"done", "down"} => saved' = head'
      BY <1>1, <1>2, <1>5, Groups DEF Submit, KeepFile, RotateRename, RotateZip, Reopen, BeginClose,
         EndClose, CloseReturns, Exit, CliOpen, CliAppend, Tick
    <2> QED BY <1>2, <1>5, <2>1, <2>2, <2>3, <2>4
  <1> QED BY <1>3, <1>4, <1>5

\* In calm, what was written is in the chain and the chain's events are on disk.
LEMMA CalmEvents ==
  ASSUME LogTypes, LogTypes', QueueIsBehind, Calm, LogNext \/ UNCHANGED vars, Undisturbed'
  PROVE  written' \subseteq ToSet(head') /\ ToSet(head') \subseteq Ends(AllHashes')
  <1>1. written \subseteq ToSet(head) /\ ToSet(head) \subseteq Ends(AllHashes)
    BY CalmSteps DEF Calm
  <1>2. Ends(AllHashes) \subseteq Ends(AllHashes')
    BY CalmHashes DEF Ends
  <1>3. CASE WriteRow
    <2>1. ToSet(head') = ToSet(head) \cup {taken'} /\ Last(head') = taken'
      <3>1. taken' \in Event /\ head' = Append(head, taken') /\ head \in Seq(Event)
        BY <1>3, CalmChain
      <3> HIDE DEF Event
      <3>2. /\ DOMAIN head = 1 .. Len(head) /\ Len(head) \in Nat /\ DOMAIN head' = 1 .. Len(head) + 1
            /\ \A i \in 1 .. Len(head) : head'[i] = head[i]
            /\ head'[Len(head) + 1] = taken' /\ Len(head') = Len(head) + 1
        BY <3>1, AppendProperties, LenProperties
      <3> QED BY <3>2 DEF ToSet, Last
    <2>2. head' \in AllHashes' /\ written' = written \cup {taken'}
      BY <1>3, CalmHashes, CalmChain
    <2>3. taken' \in Ends(AllHashes')
      BY <2>1, <2>2 DEF Ends
    <2> QED BY <1>1, <1>2, <2>1, <2>2, <2>3
  <1>4. CASE ~WriteRow
    <2>1. written' = written /\ head' = head
      BY <1>4, CalmChain
    <2> QED BY <1>1, <1>2, <2>1
  <1> QED BY <1>3, <1>4

\* Without a command of the CLI, every line is stamped.
LEMMA CalmLines ==
  ASSUME LogTypes, LogTypes', QueueIsBehind, Calm, LogNext \/ UNCHANGED vars, Undisturbed',
         cli'.runs = 0
  PROVE  /\ cli'.file = "none"
         /\ Stamped(active') /\ Stamped(Renamed')
         /\ \A s \in DOMAIN archives' : Stamped(archives'[s])
  <1>1. /\ Undisturbed
        /\ \/ Submit \/ WriteRow \/ KeepFile \/ RotateRename \/ RotateZip \/ Reopen
           \/ BeginClose \/ (EndClose /\ saved' = head) \/ Exit \/ Start \/ CliOpen \/ CliAppend
           \/ Tick \/ UNCHANGED vars
    BY CalmSteps
  <1>2. cli.runs = 0 /\ ~CliOpen
    <2>1. cli.runs \in Nat
      BY DEF LogTypes
    <2>2. CliOpen => cli'.runs = cli.runs + 1
      BY DEF CliOpen
    <2>3. ~CliOpen
      BY <2>1, <2>2
    <2>4. cli' = cli \/ \E f : cli' = [cli EXCEPT !.file = f]
      BY <1>1, <2>3, Groups DEF Submit, WriteRow, KeepFile, RotateRename, RotateZip, Reopen,
         BeginClose, EndClose, CloseReturns, Exit, Start, CliAppend, Tick
    <2>5. cli'.runs = cli.runs
      BY <2>4 DEF LogTypes
    <2> QED BY <2>3, <2>5
  <1>3. /\ cli.file = "none" /\ tail = Clean
        /\ Stamped(active) /\ Stamped(Renamed)
        /\ \A s \in DOMAIN archives : Stamped(archives[s])
    BY <1>1, <1>2 DEF Calm
  <1>4. Stamped(<<>>)
    BY EmptySeq DEF Stamped
  <1>5. CASE WriteRow
    <2>1. PICK e : Take(e) /\ Stamp(e) /\ AppendLine(Row(head')) /\ UNCHANGED <<old, cli>>
      BY <1>5 DEF WriteRow
    <2> DEFINE l == Row(head')
    <2>2. l \in AnyLine /\ l.kind = "chained"
      BY <2>1, StampTypes
    <2>3. active' = Append(active, l)
      BY <1>3, <2>1, <2>2, JoinedLine DEF AppendLine
    <2> HIDE DEF l
    <2>4. Stamped(active')
      <3> DEFINE t == Append(active, l)
      <3>1. /\ Len(active) \in Nat /\ DOMAIN active = 1 .. Len(active)
            /\ DOMAIN t = 1 .. Len(active) + 1
            /\ \A i \in 1 .. Len(active) : t[i] = active[i]
            /\ t[Len(active) + 1] = l
        BY <2>2, Tails, AppendLines
      <3> HIDE DEF t
      <3>2. \A i \in DOMAIN t : (i \in DOMAIN active /\ t[i] = active[i]) \/ t[i] = l
        BY <3>1
      <3>3. Stamped(t)
        BY <1>3, <2>2, <3>2 DEF Stamped
      <3> QED BY <2>3, <3>3 DEF t
    <2>5. UNCHANGED <<archives, cli>> /\ Renamed' = Renamed
      BY <1>5, <2>1, AddsWhen DEF Adds
    <2> QED BY <1>3, <2>4, <2>5
  <1>6. CASE RotateRename
    <2>1. Renamed' = active /\ active' = <<>> /\ archives' = archives
      BY <1>3, <1>6 DEF RotateRename, Renamed
    <2>2. cli'.file = "none"
      BY <1>3, <1>6 DEF RotateRename, LogTypes, Files
    <2> QED BY <1>3, <1>4, <2>1, <2>2
  <1>7. CASE RotateZip
    <2>1. /\ worker = "renamed" /\ worker' = "zipped" /\ UNCHANGED log /\ ~NameTaken
          /\ PutArchive(rotating)
      BY <1>7 DEF RotateZip
    <2>2. active' = active /\ Renamed' = <<>> /\ Renamed = rotating
      BY <2>1 DEF log, Renamed
    <2>3. /\ DOMAIN archives' = DOMAIN archives \cup {stamp} /\ archives'[stamp] = rotating
          /\ \A s \in DOMAIN archives : archives'[s] = archives[s]
      BY <2>1 DEF PutArchive, NameTaken
    <2>4. cli'.file = "none"
      BY <1>3, <1>7 DEF RotateZip, LogTypes, Files
    <2> QED BY <1>3, <1>4, <2>2, <2>3, <2>4
  <1>8. CASE \/ Submit \/ KeepFile \/ Reopen \/ BeginClose \/ EndClose \/ Exit \/ Start
             \/ Tick \/ UNCHANGED vars
    <2>1. UNCHANGED <<active, old, cli>> /\ (worker' = "renamed" <=> worker = "renamed")
      BY <1>8, Groups DEF Submit, KeepFile, Reopen, BeginClose, EndClose, CloseReturns, Exit, Start,
         Tick
    <2>2. Renamed' = Renamed /\ archives' = archives
      BY <2>1 DEF Renamed, old
    <2> QED BY <1>3, <2>1, <2>2
  <1>9. ~CliAppend
    BY <1>3 DEF CliAppend
  <1> QED BY <1>1, <1>2, <1>5, <1>6, <1>7, <1>8, <1>9

\* The calm part of the invariant is kept.
LEMMA CalmStep ==
  ASSUME LogTypes, LogTypes', QueueIsBehind, Calm, LogNext \/ UNCHANGED vars
  PROVE  Calm'
  BY CalmChain, CalmEvents, CalmLines, CalmHashes DEF Calm

\* The invariant of the log holds at first.
LEMMA LogStart ==
  ASSUME Init
  PROVE  LogInv
  <1>1. LogTypes
    <2>1. mishaps \in Mishaps
      BY DEF Init, Mishaps
    <2>2. tail \in [state : {"clean", "torn", "unterminated"}, line : AnyLine]
      BY LineTypes DEF Init, Clean
    <2>3. DOMAIN archives = {} /\ queue = <<>> /\ head = <<>> /\ active = <<>>
      BY EmptySeq DEF Init
    <2>4. <<>> \in Seq(Event)
      BY EmptySeq
    <2> QED BY <2>1, <2>2, <2>3, <2>4, LineTypes, ConstantsAssumption
            DEF Init, LogTypes, Clean, Files
  <1>2. QueueIsBehind
    BY EmptySeq DEF Init, QueueIsBehind
  <1>3. ChainsAreChains
    BY EmptySeq DEF Init, ChainsAreChains, IsChain
  <1>4. Renamed = <<>> /\ ActiveLines = <<>> /\ DOMAIN archives = {}
    <2>1. <<>> \o <<>> = <<>>
      BY EmptySeq, ConcatEmptySeq
    <2> QED BY <2>1, EmptySeq DEF Init, Renamed, ActiveLines
  <1>5. AllHashes = {}
    BY <1>4, NoHashes DEF AllHashes
  <1>6. FilesInOrder
    BY <1>4, NoHashes DEF FilesInOrder, Ordered, Below
  <1>7. OneChain
    BY <1>5 DEF Init, OneChain
  <1>8. Calm
    <2>1. Stamped(<<>>) /\ ToSet(<<>>) = {}
      BY EmptySeq DEF Stamped, ToSet
    <2> QED BY <1>4, <2>1 DEF Init, Calm, Clean
  <1> QED BY <1>1, <1>2, <1>3, <1>6, <1>7, <1>8 DEF LogInv

\* Every step of the log, and every purge, keeps its invariant.
LEMMA LogInvStep ==
  ASSUME LogInv, LogNext \/ UNCHANGED vars
  PROVE  LogInv'
  <1>1. LogTypes'
    <2>1. CASE UNCHANGED vars
      BY <2>1, Groups DEF LogInv, LogTypes
    <2>2. CASE LogNext
      BY <2>2, WorkTypes, OtherTypes, PurgeIsPurged DEF LogInv, LogNext, Next
    <2> QED BY <2>1, <2>2
  <1>2. QueueIsBehind' /\ ChainsAreChains'
    BY QueueStep, ChainsStep DEF LogInv
  <1>3. FilesInOrder'
    BY <1>1, FilesStep DEF LogInv
  <1>4. OneChain'
    BY <1>1, OneChainStep DEF LogInv
  <1>5. Calm'
    BY <1>1, CalmStep DEF LogInv
  <1> QED BY <1>1, <1>2, <1>3, <1>4, <1>5 DEF LogInv
-----------------------------------------------------------------------------
(* Numbers *)

\* A set of numbers has a smallest.
LEMMA SmallestExists ==
  ASSUME NEW S, S \subseteq Nat, S # {}
  PROVE  \E n \in S : \A m \in S : n <= m
  <1> PICK top \in S : TRUE
    OBVIOUS
  <1> DEFINE Under(x) == {y \in S : y < x}
             Lowers == {Under(x) : x \in {z \in S : z <= top}}
             R == StrictSubsetOrdering(0 .. top)
  <1>1. Lowers \subseteq SUBSET (0 .. top) /\ Lowers # {}
    <2>1. ASSUME NEW x \in S, x <= top PROVE Under(x) \in SUBSET (0 .. top)
      <3>1. \A y \in S : y < x => y \in 0 .. top
        BY <2>1
      <3> QED BY <3>1
    <2>2. Under(top) \in Lowers
      OBVIOUS
    <2> QED BY <2>1, <2>2
  <1>2. IsWellFoundedOn(R, SUBSET (0 .. top))
    <2>1. IsFiniteSet(0 .. top)
      BY FS_Interval
    <2> QED BY <2>1, FS_StrictSubsetOrderingWellFounded, FS_FiniteSubsetsOfFinite
  <1>3. PICK U \in Lowers : \A V \in Lowers : ~ (<<V, U>> \in R)
    <2> HIDE DEF Lowers, R
    <2> QED BY <1>1, <1>2, WFMin
  <1>4. PICK x \in S : U = Under(x) /\ x <= top
    OBVIOUS
  <1>5. ASSUME NEW z \in S, z < x PROVE FALSE
    <2>0. z <= top /\ ~(z < z) /\ \A y \in S : y < z => y < x
      BY <1>4, <1>5
    <2>1. /\ Under(z) \subseteq Under(x) /\ z \in Under(x) /\ z \notin Under(z)
          /\ Under(z) \in Lowers
      BY <1>5, <2>0
    <2>2. <<Under(z), Under(x)>> \in R
      BY <1>1, <1>4, <2>1 DEF StrictSubsetOrdering
    <2> QED BY <1>3, <1>4, <2>1, <2>2
  <1> QED BY <1>5

\* A bounded set of numbers has a largest.
LEMMA LargestExists ==
  ASSUME NEW c \in Nat, NEW S, S \subseteq 0 .. c, S # {}
  PROVE  \E n \in S : \A m \in S : n >= m
  <1> DEFINE T == {c - x : x \in S}
  <1>1. T \subseteq Nat /\ T # {}
    <2>1. \A x \in S : c - x \in Nat
      OBVIOUS
    <2> QED BY <2>1
  <1>2. PICK t \in T : \A u \in T : t <= u
    <2> HIDE DEF T
    <2> QED BY <1>1, SmallestExists
  <1>3. PICK n \in S : t = c - n
    BY <1>2
  <1>4. ASSUME NEW m \in S PROVE n >= m
    <2>1. c - n <= c - m
      BY <1>2, <1>3
    <2>2. n \in 0 .. c /\ m \in 0 .. c
      OBVIOUS
    <2> QED BY <2>1, <2>2
  <1> QED BY <1>4


\* A sequence whose numbers grow is as long as they are large, and finds each once.
LEMMA GrowthIsOne ==
  ASSUME NEW h \in Seq(Event), \A i, j \in DOMAIN h : i < j => h[i] < h[j],
         NEW i \in DOMAIN h, NEW j \in DOMAIN h
  PROVE  /\ i \in Nat /\ j \in Nat /\ h[i] \in Nat /\ h[j] \in Nat
         /\ h[i] < h[j] <=> i < j
         /\ h[i] = h[j] <=> i = j
  <1>1. Event \subseteq Nat /\ Len(h) \in Nat /\ DOMAIN h = 1 .. Len(h)
    BY ConstantsAssumption, LenProperties DEF Event
  <1> HIDE DEF Event
  <1>2. h[i] \in Event /\ h[j] \in Event
    BY <1>1, ElementOfSeq
  <1>3. i \in Nat /\ j \in Nat /\ h[i] \in Nat /\ h[j] \in Nat
    <2>1. h[i] \in Nat /\ h[j] \in Nat
      BY <1>1, <1>2
    <2>2. i \in 1 .. Len(h) /\ j \in 1 .. Len(h)
      BY <1>1
    <2> QED BY <1>1, <2>1, <2>2
  <1>4. (i < j => h[i] < h[j]) /\ (j < i => h[j] < h[i])
    OBVIOUS
  <1> QED BY <1>3, <1>4

\* Two beginnings of a chain are the same if they are as long.
LEMMA Beginnings ==
  ASSUME NEW h \in Seq(Event), NEW x, OfChain(x, h)
  PROVE  /\ Len(x) \in 1 .. Len(h) /\ Last(x) = h[Len(x)] /\ Len(Front(x)) = Len(x) - 1
         /\ Front(x) = <<>> <=> Len(x) = 1
         /\ \A y : OfChain(y, h) /\ Len(y) = Len(x) => y = x
         /\ \A y : OfChain(y, h) /\ Len(y) = Len(x) - 1 => Front(x) = y
  <1> HIDE DEF Event
  <1>1. /\ x \in Seq(Event) /\ Len(x) \in Nat /\ Len(x) # 0 /\ Len(h) \in Nat /\ Len(x) <= Len(h)
        /\ \A i \in 1 .. Len(x) : x[i] = h[i]
        /\ DOMAIN x = 1 .. Len(x)
    BY LenProperties, EmptySeq DEF OfChain
  <1>2. Last(x) = h[Len(x)]
    BY <1>1 DEF Last
  <1> DEFINE f == Front(x)
             n == Len(x) - 1
  <1>3. /\ f \in Seq(Event) /\ Len(f) = n /\ n \in Nat
        /\ \A i \in 1 .. n : f[i] = x[i]
    <2>1. \A i \in 1 .. n : x[i] \in Event
      BY <1>1, ElementOfSeq
    <2>2. f = SubSeq(x, 1, n) /\ n \in Nat
      BY <1>1 DEF Front
    <2> HIDE DEF f, n
    <2>3. /\ SubSeq(x, 1, n) \in Seq(Event) /\ Len(SubSeq(x, 1, n)) = IF 1 <= n THEN n - 1 + 1 ELSE 0
          /\ \A i \in 1 .. n - 1 + 1 : SubSeq(x, 1, n)[i] = x[1 + i - 1]
      BY <2>1, <2>2, SubSeqProperties
    <2>4. f \in Seq(Event) /\ Len(f) = n
      BY <2>2, <2>3
    <2>5. \A i \in 1 .. n : f[i] = x[i]
      <3> TAKE i \in 1 .. n
      <3>1. i \in 1 .. n - 1 + 1 /\ 1 + i - 1 = i
        BY <2>2
      <3> QED BY <2>2, <2>3, <3>1
    <2> QED BY <2>2, <2>4, <2>5
  <1>4. f = <<>> <=> Len(x) = 1
    BY <1>1, <1>3, EmptySeq
  <1>5. ASSUME NEW y, OfChain(y, h), Len(y) = Len(x) PROVE y = x
    BY <1>1, <1>5, SeqEqual DEF OfChain
  <1>6. ASSUME NEW y, OfChain(y, h), Len(y) = n PROVE f = y
    <2>1. y \in Seq(Event) /\ \A i \in 1 .. n : f[i] = y[i]
      BY <1>1, <1>3, <1>6 DEF OfChain
    <2> HIDE DEF f
    <2> QED BY <1>3, <1>6, <2>1, SeqEqual
  <1>7. Len(x) \in 1 .. Len(h)
    BY <1>1
  <1>8. \A y : OfChain(y, h) /\ Len(y) = Len(x) - 1 => Front(x) = y
    BY <1>6
  <1> QED BY <1>2, <1>3, <1>4, <1>5, <1>7, <1>8
-----------------------------------------------------------------------------
(* What the readers find *)

\* Some of the files that are kept.
Shelf(files) == DOMAIN files \subseteq DOMAIN Kept /\ \A f \in DOMAIN files : files[f] = Kept[f]

\* What a verifier and a bundle find in which file.
LEMMA KeptIs ==
  ASSUME LogTypes
  PROVE  /\ DOMAIN Lines = DOMAIN archives \cup {Active}
         /\ DOMAIN Kept = DOMAIN Lines \cup (IF worker = "renamed" THEN {Rotating} ELSE {})
         /\ Lines[Active] = ActiveLines /\ Kept[Active] = ActiveLines
         /\ worker = "renamed" => Kept[Rotating] = rotating /\ Renamed = rotating
         /\ worker # "renamed" => Renamed = <<>>
         /\ \A s \in DOMAIN archives : /\ Lines[s] = archives[s] /\ Kept[s] = archives[s]
                                       /\ s \in Nat /\ s < Rotating
         /\ Rotating \in Nat /\ Active \in Nat /\ Rotating < Active
  <1>1. Seconds \in Nat /\ Rotating = Seconds + 1 /\ Active = Seconds + 2
    BY ConstantsAssumption DEF Rotating, Active
  <1>2. \A s \in DOMAIN archives : s \in Nat /\ s <= Seconds
    BY <1>1 DEF LogTypes
  <1> HIDE DEF Rotating, Active
  <1>3. \A s \in DOMAIN archives : s \in Nat /\ s < Rotating /\ s # Active
    BY <1>1, <1>2
  <1>4. /\ DOMAIN Lines = DOMAIN archives \cup {Active} /\ Lines[Active] = ActiveLines
        /\ \A s \in DOMAIN archives : Lines[s] = archives[s]
    BY <1>3 DEF Lines
  <1>5. /\ DOMAIN Kept = DOMAIN Lines \cup (IF worker = "renamed" THEN {Rotating} ELSE {})
        /\ \A f \in DOMAIN Lines : f # Rotating => Kept[f] = Lines[f]
        /\ worker = "renamed" => Kept[Rotating] = rotating
    BY DEF Kept
  <1>6. (worker = "renamed" => Renamed = rotating) /\ (worker # "renamed" => Renamed = <<>>)
    BY DEF Renamed
  <1>7. Rotating \in Nat /\ Active \in Nat /\ Rotating < Active
    BY <1>1
  <1>8. Active # Rotating /\ \A s \in DOMAIN archives : s # Rotating
    BY <1>3, <1>7
  <1> QED BY <1>3, <1>4, <1>5, <1>6, <1>7, <1>8

\* All the files on disk and all that a directory listing shows are shelves of what is kept.
LEMMA ShelfIs ==
  ASSUME LogTypes
  PROVE  /\ Shelf(Kept) /\ Shelf(Lines)
         /\ \A f \in DOMAIN Kept : \/ f \in DOMAIN archives /\ Kept[f] = archives[f]
                                   \/ f = Active /\ Kept[f] = ActiveLines
                                   \/ f = Rotating /\ Kept[f] = rotating /\ worker = "renamed"
                                      /\ Renamed = rotating
         /\ \A f \in DOMAIN Kept : f \in Nat /\ Kept[f] \in Seq(AnyLine)
  <1>1. \A f \in DOMAIN Lines : Lines[f] = Kept[f] /\ f \in DOMAIN Kept
    BY KeptIs
  <1>2. \A f \in DOMAIN Kept : f \in DOMAIN archives \/ f = Active \/ (f = Rotating /\ worker = "renamed")
    BY KeptIs
  <1>3. rotating \in Seq(AnyLine) /\ \A s \in DOMAIN archives : archives[s] \in Seq(AnyLine)
    BY DEF LogTypes
  <1> QED BY <1>1, <1>2, <1>3, KeptIs, Tails DEF Shelf

\* The places of a shelf.
LEMMA PlaceIs ==
  ASSUME LogTypes, NEW files, Shelf(files), NEW p \in Places(files)
  PROVE  /\ p[1] \in DOMAIN files /\ p[1] \in Nat /\ p[1] \in DOMAIN Kept
         /\ p[2] \in DOMAIN files[p[1]] /\ p[2] \in Nat
         /\ p = <<p[1], p[2]>>
         /\ Line(files, p) = Kept[p[1]][p[2]] /\ Line(files, p) \in AnyLine
  <1>0. PICK f \in DOMAIN files : \E i \in DOMAIN files[f] : p = <<f, i>>
    BY DEF Places
  <1>1. PICK i \in DOMAIN files[f] : p = <<f, i>>
    BY <1>0
  <1>2. f \in Nat /\ files[f] = Kept[f] /\ files[f] \in Seq(AnyLine) /\ f \in DOMAIN Kept
    BY ShelfIs DEF Shelf
  <1> HIDE DEF AnyLine
  <1>3. i \in Nat /\ files[f][i] \in AnyLine
    BY <1>2, ElementOfSeq, LenProperties
  <1> QED BY <1>1, <1>2, <1>3 DEF Line

\* Of two places, one is before the other.
LEMMA PlacesInOrder ==
  ASSUME LogTypes, NEW files, Shelf(files), NEW p \in Places(files), NEW q \in Places(files)
  PROVE  p = q \/ Before(p, q) \/ Before(q, p)
  <1>1. p[1] \in Nat /\ p[2] \in Nat /\ q[1] \in Nat /\ q[2] \in Nat
        /\ p = <<p[1], p[2]>> /\ q = <<q[1], q[2]>>
    BY PlaceIs
  <1>2. (p[1] = q[1] /\ p[2] = q[2]) \/ Before(p, q) \/ Before(q, p)
    BY <1>1 DEF Before
  <1> QED BY <1>1, <1>2

\* The stamped lines of a shelf.
LEMMA RowsAre ==
  ASSUME LogTypes, NEW files, Shelf(files), NEW p \in Chained(files)
  PROVE  /\ p \in Places(files) /\ Line(files, p).hash \in Hashes(Kept[p[1]])
         /\ p[2] \in Rows(Kept[p[1]]) /\ Line(files, p) = Kept[p[1]][p[2]]
         /\ Line(files, p).hash \in AllHashes
         /\ EventAt(files, p) = Last(Kept[p[1]][p[2]].hash)
         /\ EventAt(files, p) \in EndsOf(Kept[p[1]])
  <1> DEFINE f == p[1]
             i == p[2]
  <1>1. p \in Places(files) /\ Line(files, p).kind = "chained"
    BY DEF Chained
  <1>2. f \in DOMAIN files /\ files[f] = Kept[f] /\ f \in DOMAIN Kept
        /\ i \in DOMAIN files[f] /\ Line(files, p) = Kept[f][i]
    BY <1>1, PlaceIs DEF Shelf
  <1>3. i \in Rows(Kept[f]) /\ Line(files, p).hash \in Hashes(Kept[f])
    BY <1>1, <1>2 DEF Rows, Hashes
  <1>4. Hashes(Kept[f]) \subseteq AllHashes
    BY <1>2, ShelfIs DEF AllHashes
  <1>5. EventAt(files, p) \in EndsOf(Kept[f]) /\ EventAt(files, p) = Last(Kept[f][i].hash)
    BY <1>2, <1>3 DEF EventAt, EndsOf, Ends
  <1> QED BY <1>1, <1>2, <1>3, <1>4, <1>5

\* The events that the files show are in order.
LEMMA EventsInOrder ==
  ASSUME LogTypes, FilesInOrder, NEW files, Shelf(files),
         NEW p \in Chained(files), NEW q \in Chained(files), Before(p, q)
  PROVE  EventAt(files, p) < EventAt(files, q)
  <1> DEFINE f == p[1]
             g == q[1]
  <1>1. /\ f \in DOMAIN Kept /\ g \in DOMAIN Kept /\ f \in Nat /\ g \in Nat
        /\ p[2] \in Rows(Kept[f]) /\ q[2] \in Rows(Kept[g])
        /\ EventAt(files, p) = Last(Kept[f][p[2]].hash) /\ EventAt(files, p) \in EndsOf(Kept[f])
        /\ EventAt(files, q) = Last(Kept[g][q[2]].hash) /\ EventAt(files, q) \in EndsOf(Kept[g])
    BY RowsAre, PlaceIs
  <1>2. /\ \A s \in DOMAIN archives : Increasing(archives[s])
        /\ Increasing(Renamed) /\ Increasing(ActiveLines)
        /\ Below(EndsOf(Renamed), EndsOf(ActiveLines))
        /\ \A s \in DOMAIN archives : Below(EndsOf(archives[s]), EndsOf(Renamed) \cup EndsOf(ActiveLines))
        /\ \A s, u \in DOMAIN archives : s < u => Below(EndsOf(archives[s]), EndsOf(archives[u]))
    BY DEF FilesInOrder, Ordered
  <1> HIDE DEF f, g
  <1>3. CASE f = g
    <2>1. p[2] < q[2]
      BY <1>1, <1>3 DEF Before, f, g
    <2>2. Increasing(Kept[f])
      BY <1>1, <1>2, ShelfIs
    <2> QED BY <1>1, <1>3, <2>1, <2>2 DEF Increasing
  <1>4. CASE f # g
    <2>1. f < g
      BY <1>4 DEF Before, f, g
    <2>2. \/ f \in DOMAIN archives /\ Kept[f] = archives[f]
          \/ f = Active /\ Kept[f] = ActiveLines
          \/ f = Rotating /\ Kept[f] = Renamed
      BY <1>1, ShelfIs
    <2>3. \/ g \in DOMAIN archives /\ Kept[g] = archives[g]
          \/ g = Active /\ Kept[g] = ActiveLines
          \/ g = Rotating /\ Kept[g] = Renamed
      BY <1>1, ShelfIs
    <2>4. f # Active
      BY <1>1, <2>1, <2>3, KeptIs
    <2>5. f = Rotating => g = Active
      BY <1>1, <2>1, <2>3, KeptIs
    <2>6. Below(EndsOf(Kept[f]), EndsOf(Kept[g]))
      <3>1. CASE f \in DOMAIN archives /\ Kept[f] = archives[f]
        BY <1>2, <2>1, <2>3, <3>1 DEF Below
      <3>2. CASE f = Rotating /\ Kept[f] = Renamed
        BY <1>2, <2>3, <2>5, <3>2, KeptIs
      <3> QED BY <2>2, <2>4, <3>1, <3>2
    <2> QED BY <1>1, <2>6 DEF Below
  <1> QED BY <1>3, <1>4

\* How much of the chain a line covers.
Covers(files, p) == Len(Line(files, p).hash)

\* A stamped line covers the chain up to its own event.
LEMMA CoversIs ==
  ASSUME LogInv, ~mishaps.forgot, NEW files, Shelf(files), NEW p \in Chained(files)
  PROVE  /\ OfChain(Line(files, p).hash, head)
         /\ Covers(files, p) \in 1 .. Len(head) /\ Covers(files, p) \in Nat /\ Len(head) \in Nat
         /\ EventAt(files, p) = head[Covers(files, p)]
  <1>1. OfChain(Line(files, p).hash, head) /\ head \in Seq(Event)
    BY RowsAre DEF LogInv, OneChain, LogTypes
  <1> HIDE DEF Event
  <1> QED BY <1>1, Beginnings, LenProperties DEF Covers, EventAt

\* A line covers more of the chain than another exactly if it comes later.
LEMMA CoversMore ==
  ASSUME LogInv, ~mishaps.forgot, NEW files, Shelf(files),
         NEW p \in Chained(files), NEW q \in Chained(files)
  PROVE  Covers(files, p) < Covers(files, q) <=> Before(p, q)
  <1> DEFINE m == Covers(files, p)
             n == Covers(files, q)
  <1>1. /\ m \in DOMAIN head /\ n \in DOMAIN head /\ head \in Seq(Event)
        /\ \A i, j \in DOMAIN head : i < j => head[i] < head[j]
        /\ EventAt(files, p) = head[m] /\ EventAt(files, q) = head[n]
    BY CoversIs, LenProperties DEF LogInv, LogTypes, ChainsAreChains, IsChain
  <1> HIDE DEF m, n
  <1>2. /\ m \in Nat /\ n \in Nat /\ (head[m] < head[n] <=> m < n) /\ (head[n] < head[m] <=> n < m)
    BY <1>1, GrowthIsOne
  <1>3. Before(p, q) => m < n
    BY <1>1, <1>2, EventsInOrder DEF LogInv
  <1>4. Before(q, p) => n < m
    BY <1>1, <1>2, EventsInOrder DEF LogInv
  <1>5. p = q \/ Before(p, q) \/ Before(q, p)
    BY RowsAre, PlacesInOrder DEF LogInv
  <1>6. p = q => m = n
    BY DEF m, n
  <1> QED BY <1>2, <1>3, <1>4, <1>5, <1>6 DEF m, n

\* What a verification that finds nothing to say has seen: the chain's beginning, as far as
\* the last line.
LEMMA NoGap ==
  ASSUME LogInv, ~mishaps.forgot, NEW files, Shelf(files), ChainOK(files),
         NEW p \in Chained(files), NEW k \in Nat, k >= 1, k <= Covers(files, p)
  PROVE  \E q \in Chained(files) : Covers(files, q) = k
  <1> DEFINE P == Chained(files)
             L(q) == Covers(files, q)
             above == {L(q) : q \in {r \in P : L(r) >= k}}
  <1>1. P = Places(files)
    BY DEF ChainOK
  <1>2. \A q \in P : L(q) \in Nat /\ OfChain(Line(files, q).hash, head)
    BY CoversIs
  <1>3. above \subseteq Nat /\ above # {}
    BY <1>2
  <1> HIDE DEF P, L
  <1>4. PICK n \in above : \A m \in above : n <= m
    <2> HIDE DEF above
    <2> QED BY <1>3, SmallestExists
  <1>5. PICK q \in P : n = L(q) /\ L(q) >= k
    BY <1>4
  <1>6. CASE \A r \in P : ~Before(r, q)
    <2>1. Front(Line(files, q).hash) = <<>>
      BY <1>1, <1>5, <1>6 DEF ChainOK
    <2>2. L(q) = 1
      <3>1. head \in Seq(Event)
        BY DEF LogInv, LogTypes
      <3> HIDE DEF Event
      <3> QED BY <1>2, <1>5, <2>1, <3>1, Beginnings DEF L, Covers
    <2> QED BY <1>5, <2>2 DEF P, L
  <1>7. CASE \E r \in P : Before(r, q)
    <2>1. PICK r \in P : Precedes(r, q, P) /\ Front(Line(files, q).hash) = Line(files, r).hash
      BY <1>1, <1>5, <1>7 DEF ChainOK
    <2>2. L(r) = L(q) - 1
      <3>1. head \in Seq(Event)
        BY DEF LogInv, LogTypes
      <3> HIDE DEF Event
      <3> QED BY <1>2, <1>5, <2>1, <3>1, Beginnings DEF L, Covers
    <2>3. L(r) \in Nat /\ L(q) \in Nat
      BY <1>2, <1>5
    <2>4. ~(L(r) >= k)
      <3>1. L(r) >= k => L(r) \in above
        OBVIOUS
      <3>2. L(r) \in above => L(q) <= L(r)
        BY <1>4, <1>5
      <3> HIDE DEF above
      <3> QED BY <2>2, <2>3, <3>1, <3>2
    <2>5. L(q) = k
      BY <1>5, <2>2, <2>3, <2>4
    <2> QED BY <1>5, <2>5 DEF P, L
  <1> QED BY <1>6, <1>7

\* The last line that a reader finds.
LEMMA LastLine ==
  ASSUME LogInv, ~mishaps.forgot, NEW files, Shelf(files), Chained(files) # {}
  PROVE  \E p \in Chained(files) : \A q \in Chained(files) :
           ~Before(p, q) /\ Covers(files, q) <= Covers(files, p)
  <1> DEFINE P == Chained(files)
             L(q) == Covers(files, q)
             all == {L(q) : q \in P}
  <1>1. \A q \in P : L(q) \in Nat /\ L(q) \in 0 .. Len(head)
    BY CoversIs
  <1>2. Len(head) \in Nat
    BY CoversIs
  <1>3. \A p, q \in P : L(p) < L(q) <=> Before(p, q)
    BY CoversMore
  <1> HIDE DEF P, L
  <1>4. all \subseteq 0 .. Len(head) /\ all # {}
    BY <1>1 DEF P
  <1>5. PICK n \in all : \A m \in all : n >= m
    <2> HIDE DEF all
    <2> QED BY <1>2, <1>4, LargestExists
  <1>6. PICK p \in P : n = L(p)
    BY <1>5
  <1>7. ASSUME NEW q \in P PROVE ~Before(p, q) /\ L(q) <= L(p)
    <2>1. L(q) <= L(p)
      BY <1>1, <1>5, <1>6
    <2> QED BY <1>1, <1>3, <2>1
  <1> QED BY <1>6, <1>7 DEF P, L

\* What the verifier accepts shows every event up to the last manifest's.
LEMMA Honest ==
  ASSUME LogInv
  PROVE  VerifyIsHonest
  <1> SUFFICES ASSUME ~mishaps.forgot, Chained(Lines) # {}, VerifyOK(Lines), NEW m \in manifests,
                      NEW i \in DOMAIN m
               PROVE  m[i] \in EventsOf(Lines)
    BY DEF VerifyIsHonest, ToSet
  <1>1. Shelf(Lines) /\ head \in Seq(Event)
    BY ShelfIs DEF LogInv, LogTypes
  <1>2. PICK p \in Chained(Lines) : \A q \in Chained(Lines) : ~Before(p, q)
    BY <1>1, LastLine
  <1>3. Len(m) <= Covers(Lines, p)
    BY <1>2 DEF VerifyOK, ManifestOK, Covers
  <1>4. OfChain(m, head)
    BY DEF LogInv, OneChain
  <1> HIDE DEF Event
  <1>5. i \in 1 .. Len(m) /\ m[i] = head[i] /\ Len(m) \in Nat
    BY <1>4, LenProperties DEF OfChain
  <1>6. Covers(Lines, p) \in Nat
    BY <1>1, CoversIs
  <1>7. PICK q \in Chained(Lines) : Covers(Lines, q) = i
    BY <1>1, <1>3, <1>5, <1>6, NoGap DEF VerifyOK
  <1>8. EventAt(Lines, q) = m[i]
    BY <1>1, <1>5, <1>7, CoversIs
  <1> QED BY <1>8 DEF EventsOf

\* What the stricter of the two verifiers accepts, the other accepts.
LEMMA Stricter ==
  ASSUME LogInv
  PROVE  StricterOfTwo
  <1> SUFFICES ASSUME ChainOK(Lines), NEW f \in Failures
               PROVE  \/ f = Active /\ \E i \in DOMAIN active : active[i].glued
                      \/ Compressing /\ f = stamp
    BY DEF StricterOfTwo
  <1>1. ASSUME NEW g \in DOMAIN Lines, NEW i \in DOMAIN Lines[g] PROVE Lines[g][i].kind = "chained"
    <2>1. <<g, i>> \in Places(Lines)
      BY DEF Places
    <2>2. <<g, i>> \in Chained(Lines) /\ Line(Lines, <<g, i>>) = Lines[g][i]
      BY <2>1 DEF ChainOK, Line
    <2> QED BY <2>2 DEF Chained
  <1>2. f \notin FlawedArchives
    <2> SUFFICES ASSUME f \in DOMAIN archives, Bad \in ToSet(archives[f]) PROVE FALSE
      BY DEF FlawedArchives
    <2>1. f \in DOMAIN Lines /\ Lines[f] = archives[f]
      BY KeptIs DEF LogInv
    <2>2. PICK i \in DOMAIN Lines[f] : Lines[f][i] = Bad
      BY <2>1 DEF ToSet
    <2> QED BY <1>1, <2>1, <2>2, LineTypes
  <1>3. ASSUME FlawedActive PROVE \E i \in DOMAIN active : active[i].glued
    <2>1. PICK i \in DOMAIN active : active[i].kind = "bad" \/ active[i].glued
      BY <1>3 DEF FlawedActive
    <2>2. Active \in DOMAIN Lines /\ Lines[Active] = ActiveLines
      BY KeptIs DEF LogInv
    <2>3. i \in DOMAIN ActiveLines /\ ActiveLines[i] = active[i]
      <3>1. CASE tail = Clean
        BY <3>1, Tails DEF LogInv
      <3>2. CASE tail # Clean
        BY <3>2, Tails, AppendLines DEF LogInv
      <3> QED BY <3>1, <3>2
    <2>4. active[i].kind = "chained"
      BY <1>1, <2>2, <2>3
    <2> QED BY <2>1, <2>4
  <1> QED BY <1>2, <1>3 DEF Failures

\* Every hash on disk has its place.
LEMMA HashHasPlace ==
  ASSUME LogTypes, NEW h \in AllHashes
  PROVE  \E p \in Chained(Kept) : Line(Kept, p).hash = h
  <1>1. ASSUME NEW f \in DOMAIN Kept, h \in Hashes(Kept[f])
        PROVE  \E p \in Chained(Kept) : Line(Kept, p).hash = h
    <2>1. PICK i \in Rows(Kept[f]) : Kept[f][i].hash = h
      BY <1>1 DEF Hashes
    <2>2. i \in DOMAIN Kept[f] /\ Kept[f][i].kind = "chained"
      BY DEF Rows
    <2>3. <<f, i>> \in Places(Kept) /\ Line(Kept, <<f, i>>) = Kept[f][i]
      BY <2>2 DEF Places, Line
    <2> QED BY <2>1, <2>2, <2>3 DEF Chained
  <1>2. CASE h \in Hashes(Renamed)
    <2>1. worker = "renamed"
      BY <1>2, KeptIs, NoHashes
    <2>2. Rotating \in DOMAIN Kept /\ Kept[Rotating] = Renamed
      BY <2>1, KeptIs
    <2> QED BY <1>1, <1>2, <2>2
  <1>3. CASE h \in Hashes(ActiveLines)
    <2>1. Active \in DOMAIN Kept /\ Kept[Active] = ActiveLines
      BY KeptIs
    <2> QED BY <1>1, <1>3, <2>1
  <1>4. CASE h \in UNION {Hashes(archives[s]) : s \in DOMAIN archives}
    <2>1. PICK s \in DOMAIN archives : h \in Hashes(archives[s])
      BY <1>4
    <2>2. s \in DOMAIN Kept /\ Kept[s] = archives[s]
      BY KeptIs
    <2> QED BY <1>1, <2>1, <2>2
  <1> QED BY <1>2, <1>3, <1>4 DEF AllHashes

\* In an undisturbed log there is a line for each event of the chain.
LEMMA EachIsThere ==
  ASSUME LogInv, Undisturbed, NEW k \in 1 .. Len(head)
  PROVE  \E p \in Chained(Kept) : Covers(Kept, p) = k
  <1>1. /\ head \in Seq(Event) /\ ToSet(head) \subseteq Ends(AllHashes) /\ ~mishaps.forgot
        /\ \A i, j \in DOMAIN head : i < j => head[i] < head[j]
    BY DEF LogInv, LogTypes, Calm, ChainsAreChains, IsChain
  <1> HIDE DEF Event
  <1>2. k \in DOMAIN head /\ DOMAIN head = 1 .. Len(head)
    BY <1>1, LenProperties
  <1>3. PICK h \in AllHashes : head[k] = Last(h)
    BY <1>1, <1>2 DEF Ends, ToSet
  <1>4. OfChain(h, head)
    BY <1>1 DEF LogInv, OneChain
  <1>5. Len(h) \in DOMAIN head /\ head[Len(h)] = head[k]
    BY <1>1, <1>2, <1>3, <1>4, Beginnings
  <1>6. Len(h) = k
    BY <1>1, <1>2, <1>5, GrowthIsOne
  <1> QED BY <1>6, HashHasPlace DEF LogInv, Covers

\* In calm, and while the CLI writes nothing, every line on disk is stamped.
LEMMA AllStamped ==
  ASSUME LogInv, Undisturbed, cli.runs = 0
  PROVE  Chained(Kept) = Places(Kept)
  <1>1. /\ tail = Clean /\ Stamped(active) /\ Stamped(Renamed)
        /\ \A s \in DOMAIN archives : Stamped(archives[s])
    BY DEF LogInv, Calm
  <1>2. ActiveLines = active
    BY <1>1, Tails DEF LogInv
  <1>3. \A f \in DOMAIN Kept : Stamped(Kept[f])
    BY <1>1, <1>2, ShelfIs DEF LogInv
  <1>4. ASSUME NEW p \in Places(Kept) PROVE Line(Kept, p).kind = "chained"
    <2>1. p[1] \in DOMAIN Kept /\ p[2] \in DOMAIN Kept[p[1]] /\ Line(Kept, p) = Kept[p[1]][p[2]]
      BY PlaceIs, ShelfIs DEF LogInv
    <2> QED BY <1>3, <2>1 DEF Stamped
  <1> QED BY <1>4 DEF Chained

\* An undisturbed log to which only the proxy wrote verifies.
LEMMA Verifies ==
  ASSUME LogInv, Undisturbed, cli.runs = 0
  PROVE  VerifyOK(Kept)
  <1> DEFINE P == Places(Kept)
             L(p) == Covers(Kept, p)
             N == Len(head)
  <1>1. Shelf(Kept) /\ ~mishaps.forgot /\ head \in Seq(Event) /\ N \in Nat
    BY ShelfIs, LenProperties DEF LogInv, LogTypes, Calm
  <1> HIDE DEF Event
  <1>2. Chained(Kept) = P
    BY AllStamped
  <1>3. \A p \in P : /\ OfChain(Line(Kept, p).hash, head) /\ L(p) \in 1 .. N /\ L(p) \in Nat
                     /\ L(p) = Len(Line(Kept, p).hash)
    BY <1>1, <1>2, CoversIs DEF Covers
  <1>4. \A p, q \in P : L(p) < L(q) <=> Before(p, q)
    BY <1>1, <1>2, CoversMore
  <1>5. \A k \in 1 .. N : \E p \in P : L(p) = k
    BY <1>2, EachIsThere
  <1> HIDE DEF P, L, N
  <1>6. ASSUME NEW q \in P, \A p \in P : ~Before(p, q)
        PROVE  Front(Line(Kept, q).hash) = <<>>
    <2>1. L(q) = 1
      <3>1. 1 \in 1 .. N /\ L(q) \in Nat /\ L(q) >= 1
        BY <1>1, <1>3
      <3>2. PICK p \in P : L(p) = 1
        BY <1>5, <3>1
      <3>3. ~(L(p) < L(q))
        BY <1>4, <1>6
      <3> QED BY <3>1, <3>2, <3>3
    <2>2. Len(Line(Kept, q).hash) = 1 /\ OfChain(Line(Kept, q).hash, head)
      BY <1>3, <2>1
    <2> QED BY <1>1, <2>2, Beginnings
  <1>7. ASSUME NEW q \in P, NEW o \in P, Before(o, q)
        PROVE  \E p \in P : Precedes(p, q, P) /\ Front(Line(Kept, q).hash) = Line(Kept, p).hash
    <2>1. L(o) < L(q) /\ L(o) \in Nat /\ L(q) \in Nat /\ L(o) >= 1 /\ L(q) <= N
      BY <1>3, <1>4, <1>7
    <2>2. L(q) - 1 \in 1 .. N
      BY <1>1, <2>1
    <2>3. PICK p \in P : L(p) = L(q) - 1
      BY <1>5, <2>2
    <2>4. Before(p, q)
      BY <1>4, <2>1, <2>3
    <2>5. ASSUME NEW r \in P, Before(p, r), Before(r, q) PROVE FALSE
      <3>1. L(p) < L(r) /\ L(r) < L(q) /\ L(r) \in Nat
        BY <1>3, <1>4, <2>5
      <3> QED BY <2>1, <2>3, <3>1
    <2>6. Front(Line(Kept, q).hash) = Line(Kept, p).hash
      <3> DEFINE x == Line(Kept, q).hash
                 y == Line(Kept, p).hash
      <3>1. OfChain(x, head) /\ OfChain(y, head) /\ Len(y) = Len(x) - 1
        BY <1>3, <2>3
      <3> HIDE DEF x, y
      <3>2. Front(x) = y
        BY <1>1, <3>1, Beginnings
      <3> QED BY <3>2 DEF x, y
    <2> QED BY <2>4, <2>5, <2>6 DEF Precedes
  <1>8. ChainOK(Kept)
    BY <1>2, <1>6, <1>7 DEF ChainOK, P
  <1>9. ASSUME NEW m \in manifests, NEW p \in P, \A q \in P : ~Before(p, q)
        PROVE  LET last == Line(Kept, p).hash IN Len(m) <= Len(last) /\ (Len(m) = Len(last) => m = last)
    <2> DEFINE x == Line(Kept, p).hash
    <2>1. OfChain(m, head) /\ OfChain(x, head) /\ L(p) = Len(x)
      BY <1>1, <1>3 DEF LogInv, OneChain
    <2>2. Len(m) \in 1 .. N /\ Len(m) \in Nat
      BY <1>1, <2>1, Beginnings DEF N
    <2>3. PICK q \in P : L(q) = Len(m)
      BY <1>5, <2>2
    <2>4. ~(L(p) < L(q)) /\ L(p) \in Nat
      BY <1>3, <1>4, <1>9
    <2>5. Len(m) <= Len(x)
      BY <2>1, <2>2, <2>3, <2>4
    <2> HIDE DEF x
    <2>6. Len(m) = Len(x) => m = x
      BY <1>1, <2>1, Beginnings
    <2> QED BY <2>5, <2>6 DEF x
  <1>10. \A m \in manifests : ManifestOK(m, Kept)
    BY <1>2, <1>9 DEF ManifestOK
  <1> QED BY <1>8, <1>10 DEF VerifyOK

\* The invariant says that the log is whole.
LEMMA Whole ==
  ASSUME LogInv
  PROVE  WholeLog
  <1> SUFFICES ASSUME Undisturbed
               PROVE  /\ written \subseteq EventsOf(Kept)
                      /\ worker = "done" => \A i \in DOMAIN queue : queue[i] > closed
                      /\ cli.runs = 0 => VerifyOK(Kept)
    BY DEF WholeLog
  <1>1. ASSUME NEW e \in written PROVE e \in EventsOf(Kept)
    <2>1. e \in Ends(AllHashes)
      BY DEF LogInv, Calm
    <2>2. PICK h \in AllHashes : e = Last(h)
      BY <2>1 DEF Ends
    <2>3. PICK p \in Chained(Kept) : Line(Kept, p).hash = h
      BY HashHasPlace DEF LogInv
    <2> QED BY <2>2, <2>3 DEF EventsOf, EventAt
  <1>2. ASSUME worker = "done", NEW i \in DOMAIN queue PROVE queue[i] > closed
    <2>1. closed < queue[i]
      BY <1>2 DEF LogInv, QueueIsBehind
    <2>2. closed \in Nat /\ queue[i] \in Nat
      BY TypesGive DEF LogInv
    <2> QED BY <2>1, <2>2
  <1> QED BY <1>1, <1>2, Verifies
-----------------------------------------------------------------------------
(* The bundle *)

\* Beside the commands, one process of the proxy writes, undisturbed.
Alone ==
    part = "commands" =>
        /\ worker # "down" /\ tail = Clean /\ cli.file = "none"
        /\ worker \in {"renamed", "zipped", "done"} => fd = "closed"

Fields == {"at", "todo", "sized", "got", "cut", "had", "calm"}

\* What was copied comes before what is still to be copied.
BundleTypes ==
    /\ DOMAIN bundle = Fields /\ bundle.calm \in BOOLEAN
    /\ part = "log" => bundle.at = "none"
    /\ Len(bundle.sized) \in Nat
    /\ bundle.at = "done" => bundle.todo = {}
    /\ \A g \in bundle.todo : g \in 0 .. Seconds \/ g = Active
    /\ \A f \in DOMAIN bundle.got :
         /\ f \in Nat /\ bundle.got[f] \in Seq(AnyLine)
         /\ \A g \in bundle.todo : f < g

GotInOrder ==
    /\ \A f \in DOMAIN bundle.got :
         /\ Increasing(bundle.got[f]) /\ EndsOf(bundle.got[f]) \subseteq 1 .. taken
         /\ f # Active => Below(EndsOf(bundle.got[f]), EndsOf(ActiveLines))
    /\ \A f, g \in DOMAIN bundle.got :
         f < g => Below(EndsOf(bundle.got[f]), EndsOf(bundle.got[g]))
    /\ \A f \in DOMAIN bundle.got, g \in bundle.todo :
         /\ g \in DOMAIN archives => Below(EndsOf(bundle.got[f]), EndsOf(archives[g]))
         /\ g = stamp => Below(EndsOf(bundle.got[f]), EndsOf(Renamed))

\* The events in some files.
In(files, S) == UNION {EndsOf(files[f]) : f \in S}

\* As long as no file goes, what the bundle has to show is in it or in the files to come.
AllIsGot ==
    bundle.at # "none" /\ bundle.calm =>
        /\ worker \in {"idle", "check", "draining", "done"}
        /\ bundle.todo \subseteq DOMAIN Lines
        /\ ~bundle.cut
        /\ bundle.at = "copy" =>
             \A f \in bundle.todo : FirstToDo(f) => Len(bundle.sized) <= Len(Lines[f])
        /\ Stem = "audit" /\ bundle.at # "failed" =>
             bundle.had \subseteq In(bundle.got, DOMAIN bundle.got) \cup In(Lines, bundle.todo)

BundleInv == Alone /\ BundleTypes /\ GotInOrder /\ AllIsGot

\* The events of some files, by file.
LEMMA EventsAre ==
  ASSUME NEW files
  PROVE  EventsOf(files) = In(files, DOMAIN files)
  <1>1. ASSUME NEW p \in Chained(files) PROVE EventAt(files, p) \in In(files, DOMAIN files)
    <2>1. p \in Places(files) /\ Line(files, p).kind = "chained"
      BY DEF Chained
    <2>2. PICK f \in DOMAIN files : \E i \in DOMAIN files[f] : p = <<f, i>>
      BY <2>1 DEF Places
    <2>3. PICK i \in DOMAIN files[f] : p = <<f, i>>
      BY <2>2
    <2>4. i \in Rows(files[f]) /\ EventAt(files, p) = Last(files[f][i].hash)
      BY <2>1, <2>3 DEF Line, Rows, EventAt
    <2>5. EventAt(files, p) \in EndsOf(files[f])
      BY <2>4 DEF EndsOf, Ends, Hashes
    <2> QED BY <2>5 DEF In
  <1>2. ASSUME NEW f \in DOMAIN files, NEW e \in EndsOf(files[f]) PROVE e \in EventsOf(files)
    <2>1. PICK i \in Rows(files[f]) : e = Last(files[f][i].hash)
      BY DEF EndsOf, Ends, Hashes
    <2>2. i \in DOMAIN files[f] /\ files[f][i].kind = "chained"
      BY DEF Rows
    <2>3. <<f, i>> \in Places(files) /\ Line(files, <<f, i>>) = files[f][i]
      BY <2>2 DEF Places, Line
    <2> QED BY <2>1, <2>2, <2>3 DEF Chained, EventsOf, EventAt
  <1> QED BY <1>1, <1>2 DEF EventsOf, In

\* The files after a step.
LEMMA LaterLines ==
  ASSUME LogTypes'
  PROVE  /\ DOMAIN Lines' = DOMAIN archives' \cup {Active}
         /\ Lines'[Active] = ActiveLines'
         /\ \A s \in DOMAIN archives' : Lines'[s] = archives'[s]
  <1>1. Seconds \in Nat /\ Active = Seconds + 2
    BY ConstantsAssumption DEF Active
  <1>2. \A s \in DOMAIN archives' : s \in Nat /\ s <= Seconds
    BY <1>1 DEF LogTypes
  <1> HIDE DEF Active
  <1>3. \A s \in DOMAIN archives' : s # Active
    BY <1>1, <1>2
  <1> QED BY <1>3 DEF Lines

\* What may happen to the log while the commands are at work.
LEMMA AloneSteps ==
  ASSUME LogTypes, QueueIsBehind, Alone, part = "commands", LogNext, Quiet
  PROVE  \/ Submit \/ WriteRow \/ (WriteFails /\ UNCHANGED log) \/ KeepFile \/ RotateRename
         \/ RotateZip \/ RotateCollides \/ Reopen \/ BeginClose \/ EndClose \/ Purged \/ Tick
  <1>1. worker' # "down" /\ worker # "down" /\ cli.file = "none"
    BY DEF Alone, Quiet
  <1>2. ~Die /\ ~Exit /\ ~Start /\ ~CliAppend
    BY <1>1 DEF Die, Exit, Start, CliAppend
  <1>3. ~Fault
    <2>1. Fault => mishaps'.faults = mishaps.faults + 1 /\ mishaps.faults \in Nat
      BY DEF Fault, LogTypes, Mishaps
    <2> QED BY <2>1 DEF Quiet
  <1>4. ~CliOpen
    <2>1. CliOpen => cli'.runs = cli.runs + 1 /\ cli.runs \in Nat
      BY DEF CliOpen, LogTypes
    <2> QED BY <2>1 DEF Quiet
  <1>5. ~Crash /\ ~CrashInWrite /\ ~CrashInZip /\ ~RotateZipFails /\ ~ReopenFails
    BY <1>2, <1>3 DEF Crash, CrashInWrite, CrashInZip, RotateZipFails, ReopenFails
  <1>6. WriteFails => UNCHANGED log
    BY <1>3 DEF WriteFails
  <1> QED BY <1>2, <1>4, <1>5, <1>6, PurgeIsPurged DEF LogNext, Next, Work

\* The log waits while a command runs.
LEMMA AloneStep ==
  ASSUME LogTypes, QueueIsBehind, Alone, LogNext \/ UNCHANGED vars, part' = part,
         part = "commands" => Quiet \/ UNCHANGED vars
  PROVE  Alone'
  <1> SUFFICES ASSUME part = "commands" PROVE Alone'
    BY DEF Alone
  <1>1. /\ worker # "down" /\ tail = Clean /\ cli.file = "none"
        /\ worker \in {"renamed", "zipped", "done"} => fd = "closed"
    BY DEF Alone
  <1>2. CASE UNCHANGED vars
    BY <1>1, <1>2, Groups DEF Alone
  <1>3. CASE ~UNCHANGED vars
    <2>1. worker' # "down"
      BY <1>3 DEF Quiet
    <2>2. \/ Submit \/ WriteRow \/ (WriteFails /\ UNCHANGED log) \/ KeepFile \/ RotateRename
          \/ RotateZip \/ RotateCollides \/ Reopen \/ BeginClose \/ EndClose \/ Purged \/ Tick
      BY <1>3, AloneSteps
    <2>3. tail' = Clean
      BY <1>1, <2>2, Groups DEF Submit, WriteRow, AppendLine, KeepFile, RotateRename, RotateZip,
         RotateCollides, Reopen, BeginClose, EndClose, CloseReturns, Purged, Tick
    <2>4. cli'.file = "none"
      <3>1. CASE RotateRename
        BY <1>1, <3>1 DEF RotateRename, LogTypes, Files
      <3>2. CASE RotateZip
        BY <1>1, <3>2 DEF RotateZip, LogTypes, Files
      <3>3. CASE ~RotateRename /\ ~RotateZip
        <4>1. cli' = cli
          BY <2>2, <3>3, Groups DEF Submit, WriteRow, WriteFails, KeepFile,
             RotateCollides, Reopen, BeginClose, EndClose, CloseReturns, Purged, Tick
        <4> QED BY <1>1, <4>1
      <3> QED BY <3>1, <3>2, <3>3
    <2>5. worker' \in {"renamed", "zipped", "done"} => fd' = "closed"
      BY <1>1, <2>2, Groups DEF Submit, WriteRow, WriteFails, Take, KeepFile, RotateRename, RotateZip,
         RotateCollides, Reopen, BeginClose, EndClose, CloseReturns, Purged, Tick
    <2> QED BY <2>1, <2>3, <2>4, <2>5 DEF Alone
  <1> QED BY <1>2, <1>3

\* The name of the next archive is chosen when the active file is renamed.
LEMMA StampSteps ==
  ASSUME LogTypes, LogNext \/ UNCHANGED vars
  PROVE  stamp' = stamp \/ Renames
  <1>1. CASE RotateRename
    BY <1>1, RenamesWhen
  <1>2. CASE ~RotateRename
    BY <1>2, PurgeIsPurged, Groups DEF LogNext, Next, Work, Submit, WriteRow, WriteFails, KeepFile,
       RotateZip, RotateCollides, RotateZipFails, Reopen, ReopenFails, EndClose, CloseReturns,
       BeginClose, Exit, Crash, CrashInWrite, CrashInZip, Start, CliOpen, CliAppend, Purged, Tick
  <1> QED BY <1>1, <1>2

\* A step of the log leaves what was copied before what is still to be copied.
LEMMA GotLater ==
  ASSUME LogTypes, LogTypes', QueueIsBehind, BundleTypes, GotInOrder, LogNext \/ UNCHANGED vars,
         bundle'.got = bundle.got, bundle'.todo = bundle.todo
  PROVE  GotInOrder'
  <1> DEFINE got == bundle.got
             todo == bundle.todo
             a == ActiveLines
             r == Renamed
  <1>1. /\ taken \in Nat
        /\ \A f \in DOMAIN got : /\ Increasing(got[f]) /\ EndsOf(got[f]) \subseteq 1 .. taken
                                 /\ f # Active => Below(EndsOf(got[f]), EndsOf(a))
        /\ \A f, g \in DOMAIN got : f < g => Below(EndsOf(got[f]), EndsOf(got[g]))
        /\ \A f \in DOMAIN got, g \in todo :
             /\ g \in DOMAIN archives => Below(EndsOf(got[f]), EndsOf(archives[g]))
             /\ g = stamp => Below(EndsOf(got[f]), EndsOf(r))
    <2>1. taken \in Nat
      BY TypesGive
    <2> QED BY <2>1 DEF GotInOrder
  <1>2. \A f \in DOMAIN got : todo # {} => f # Active
    <2>1. Seconds \in Nat /\ Active = Seconds + 2
      BY ConstantsAssumption DEF Active
    <2> HIDE DEF Active
    <2>2. ASSUME NEW f \in DOMAIN got, NEW g \in todo PROVE f # Active
      <3>1. f \in Nat /\ f < g /\ (g \in 0 .. Seconds \/ g = Active)
        BY DEF BundleTypes
      <3> QED BY <2>1, <3>1
    <2> QED BY <2>2
  <1> SUFFICES /\ \A f \in DOMAIN got : /\ EndsOf(got[f]) \subseteq 1 .. taken'
                                        /\ f # Active => Below(EndsOf(got[f]), EndsOf(a'))
               /\ \A f \in DOMAIN got, g \in todo :
                    /\ g \in DOMAIN archives' => Below(EndsOf(got[f]), EndsOf(archives'[g]))
                    /\ g = stamp' => Below(EndsOf(got[f]), EndsOf(r'))
    BY <1>1 DEF GotInOrder
  <1>3. stamp' = stamp \/ Renames
    BY StampSteps
  <1> HIDE DEF got, todo
  <1>4. CASE Adds
    <2> DEFINE e == taken'
    <2>1. e \in Nat /\ taken < e /\ Ends({head'}) = {e}
      BY <1>4, LastOfHead, EndOne
    <2>2. EndsOf(a') \subseteq EndsOf(a) \cup {e}
      <3>1. Continues(a', a, {head'}) /\ a \in Seq(AnyLine) /\ a' \in Seq(AnyLine)
        BY <1>4, Tails, LaterTails DEF Adds
      <3> HIDE DEF a
      <3> DEFINE b == a'
      <3>2. b \in Seq(AnyLine) /\ Continues(b, a, {head'})
        BY <3>1
      <3> HIDE DEF b
      <3>3. Hashes(b) \subseteq Hashes(a) \cup {head'}
        BY <3>1, <3>2, ContinuesHashes
      <3> QED BY <2>1, <3>3, EndsGrow DEF b
    <2>3. archives' = archives /\ r' = r
      BY <1>4 DEF Adds
    <2>4. \A f \in DOMAIN got : EndsOf(got[f]) \subseteq 1 .. e
      BY <1>1, <2>1
    <2>5. \A f \in DOMAIN got : f # Active => Below(EndsOf(got[f]), EndsOf(a'))
      <3> TAKE f \in DOMAIN got
      <3>1. EndsOf(got[f]) \subseteq 1 .. taken /\ (f # Active => Below(EndsOf(got[f]), EndsOf(a)))
        BY <1>1
      <3> HIDE DEF a, e
      <3> QED BY <1>1, <2>1, <2>2, <3>1 DEF Below
    <2>6. stamp' = stamp \/ EndsOf(r') \subseteq EndsOf(a)
      BY <1>3 DEF Renames
    <2> QED BY <1>1, <1>2, <2>3, <2>4, <2>5, <2>6 DEF Below
  <1>5. CASE Stays /\ Lessens
    <2>1. EndsOf(a') \subseteq EndsOf(a) /\ EndsOf(r') \subseteq EndsOf(r) /\ taken' = taken
      BY <1>5 DEF Lessens, EndsOf, Ends, Stays
    <2>2. stamp' = stamp \/ EndsOf(r') \subseteq EndsOf(a)
      BY <1>3 DEF Renames
    <2>3. \A g \in DOMAIN archives' : g \in DOMAIN archives /\ archives'[g] = archives[g]
      BY <1>5 DEF Lessens
    <2> HIDE DEF a, r
    <2> QED BY <1>1, <1>2, <2>1, <2>2, <2>3 DEF Below
  <1>6. CASE Stays /\ Renames
    <2>1. r' = a /\ EndsOf(a') = {} /\ archives' = archives /\ taken' = taken
      BY <1>6, NoHashes DEF Renames, Stays
    <2> HIDE DEF a, r
    <2> QED BY <1>1, <1>2, <2>1 DEF Below
  <1>7. CASE Stays /\ Zips /\ ~Renames
    <2>1. /\ a' = a /\ EndsOf(r') = {} /\ taken' = taken /\ stamp' = stamp
          /\ DOMAIN archives' = DOMAIN archives \cup {stamp}
          /\ \A s \in DOMAIN archives : archives'[s] = archives[s]
          /\ EndsOf(archives'[stamp]) \subseteq EndsOf(r)
      BY <1>3, <1>7, NoHashes DEF Zips, Stays, EndsOf, Ends
    <2> HIDE DEF a, r
    <2> QED BY <1>1, <2>1 DEF Below
  <1> QED BY <1>4, <1>5, <1>6, <1>7, Steps

\* Beside the commands, and as long as none is rotated out or purged, the files only grow.
LEMMA FilesGrow ==
  ASSUME LogTypes, LogTypes', QueueIsBehind, Alone, part = "commands",
         worker \in {"idle", "check", "draining", "done"},
         (LogNext /\ Quiet) \/ UNCHANGED vars,
         ~(worker = "check" /\ worker' = "renamed"), DOMAIN archives \subseteq DOMAIN archives'
  PROVE  /\ worker' \in {"idle", "check", "draining", "done"}
         /\ DOMAIN Lines \subseteq DOMAIN Lines'
         /\ \A f \in DOMAIN Lines : /\ Len(Lines[f]) <= Len(Lines'[f])
                                    /\ EndsOf(Lines[f]) \subseteq EndsOf(Lines'[f])
  <1> DEFINE a == ActiveLines
  <1>1. \/ Submit \/ WriteRow \/ (WriteFails /\ UNCHANGED log) \/ KeepFile
        \/ BeginClose \/ EndClose \/ Purged \/ Tick \/ UNCHANGED vars
    BY AloneSteps DEF RotateRename, RotateZip, RotateCollides, Reopen
  <1>2. worker' \in {"idle", "check", "draining", "done"}
    BY <1>1, Groups DEF Submit, WriteRow, WriteFails, Take, KeepFile, BeginClose, EndClose,
       CloseReturns, Purged, Tick
  <1>3. \A s \in DOMAIN archives : s \in DOMAIN archives' /\ archives'[s] = archives[s]
    BY <1>1, Groups DEF Submit, WriteRow, WriteFails, KeepFile, BeginClose, EndClose,
       CloseReturns, Purged, Tick
  <1>4. a \in Seq(AnyLine) /\ a' \in Seq(AnyLine) /\ Len(a) \in Nat /\ Len(a') \in Nat
    BY Tails, LaterTails, LenProperties
  <1>5. Len(a) <= Len(a') /\ EndsOf(a) \subseteq EndsOf(a')
    <2>1. CASE WriteRow
      <3> DEFINE b == a'
      <3>1. Continues(b, a, {head'})
        BY <2>1, AddsWhen DEF Adds
      <3>2. a \in Seq(AnyLine) /\ b \in Seq(AnyLine) /\ Len(a) \in Nat /\ Len(b) \in Nat
        BY <1>4
      <3> HIDE DEF a, b
      <3>3. Hashes(a) \subseteq Hashes(b)
        BY <3>1, <3>2, ContinuesHashes
      <3>4. Len(a) <= Len(b)
        BY <3>1, <3>2 DEF Continues
      <3> QED BY <3>3, <3>4 DEF EndsOf, Ends, b
    <2>2. CASE ~WriteRow
      <3>1. UNCHANGED log
        BY <1>1, <2>2, Groups DEF Submit, KeepFile, BeginClose, EndClose, CloseReturns, Purged, Tick
      <3>2. a' = a
        BY <3>1 DEF log, ActiveLines
      <3> QED BY <1>4, <3>2
    <2> QED BY <2>1, <2>2
  <1>6. DOMAIN Lines \subseteq DOMAIN Lines'
    BY <1>3, KeptIs, LaterLines
  <1>7. ASSUME NEW f \in DOMAIN Lines
        PROVE  Len(Lines[f]) <= Len(Lines'[f]) /\ EndsOf(Lines[f]) \subseteq EndsOf(Lines'[f])
    <2>1. CASE f = Active
      BY <1>5, <2>1, KeptIs, LaterLines
    <2>2. CASE f \in DOMAIN archives
      <3>1. Lines'[f] = Lines[f] /\ Lines[f] \in Seq(AnyLine)
        BY <1>3, <2>2, KeptIs, LaterLines DEF LogTypes
      <3>2. Len(Lines[f]) \in Nat
        BY <3>1, LenProperties
      <3> QED BY <3>1, <3>2
    <2> QED BY <2>1, <2>2, KeptIs
  <1> QED BY <1>2, <1>6, <1>7

\* A step of the log, or of a purge.
LEMMA Watched ==
  ASSUME LogTypes, LogTypes', QueueIsBehind, BundleInv, part' = part,
         \/ part = "log" /\ (LogNext \/ UNCHANGED vars) /\ UNCHANGED bundle
         \/ part = "commands" /\ LogNext /\ Quiet
            /\ \E calm \in BOOLEAN :
                 /\ bundle' = [bundle EXCEPT !.calm = calm]
                 /\ calm => bundle.calm /\ ~(worker = "check" /\ worker' = "renamed")
                            /\ DOMAIN archives \subseteq DOMAIN archives'
         \/ UNCHANGED vars /\ UNCHANGED bundle
  PROVE  BundleInv'
  <1>1. Alone'
    BY AloneStep DEF BundleInv
  <1>2. /\ \A k \in Fields \ {"calm"} : bundle'[k] = bundle[k]
        /\ DOMAIN bundle' = Fields /\ bundle'.calm \in BOOLEAN
        /\ bundle'.calm => bundle.calm
    BY DEF BundleInv, BundleTypes, Fields
  <1>3. /\ bundle'.at = bundle.at /\ bundle'.todo = bundle.todo /\ bundle'.sized = bundle.sized
        /\ bundle'.got = bundle.got /\ bundle'.cut = bundle.cut /\ bundle'.had = bundle.had
    BY <1>2 DEF Fields
  <1>4. BundleTypes'
    BY <1>2, <1>3 DEF BundleInv, BundleTypes
  <1>5. GotInOrder'
    BY <1>3, GotLater DEF BundleInv
  <1>6. AllIsGot'
    <2> SUFFICES ASSUME bundle'.at # "none", bundle'.calm PROVE AllIsGot'
      BY DEF AllIsGot
    <2>1. /\ worker \in {"idle", "check", "draining", "done"}
          /\ bundle.todo \subseteq DOMAIN Lines /\ ~bundle.cut
          /\ bundle.at = "copy" =>
               \A f \in bundle.todo : FirstToDo(f) => Len(bundle.sized) <= Len(Lines[f])
          /\ Stem = "audit" /\ bundle.at # "failed" =>
               bundle.had \subseteq In(bundle.got, DOMAIN bundle.got) \cup In(Lines, bundle.todo)
      BY <1>2, <1>3 DEF BundleInv, AllIsGot
    <2>2. CASE UNCHANGED vars
      <3>1. Lines' = Lines /\ worker' = worker
        BY <2>2, Groups DEF Lines, ActiveLines
      <3> QED BY <1>3, <2>1, <3>1 DEF AllIsGot, FirstToDo, In
    <2>3. CASE ~UNCHANGED vars
      <3>1. /\ part = "commands" /\ LogNext /\ Quiet
            /\ ~(worker = "check" /\ worker' = "renamed") /\ DOMAIN archives \subseteq DOMAIN archives'
        <4>1. part # "log"
          BY <1>3 DEF BundleInv, BundleTypes
        <4>2. PICK calm \in BOOLEAN :
                 /\ bundle' = [bundle EXCEPT !.calm = calm]
                 /\ calm => bundle.calm /\ ~(worker = "check" /\ worker' = "renamed")
                            /\ DOMAIN archives \subseteq DOMAIN archives'
          BY <2>3, <4>1
        <4>3. calm
          BY <4>2 DEF BundleInv, BundleTypes, Fields
        <4> QED BY <2>3, <4>1, <4>2, <4>3
      <3>2. /\ worker' \in {"idle", "check", "draining", "done"}
            /\ DOMAIN Lines \subseteq DOMAIN Lines'
            /\ \A f \in DOMAIN Lines : /\ Len(Lines[f]) <= Len(Lines'[f])
                                       /\ EndsOf(Lines[f]) \subseteq EndsOf(Lines'[f])
        BY <2>1, <3>1, FilesGrow DEF BundleInv
      <3>3. In(Lines, bundle.todo) \subseteq In(Lines', bundle.todo)
        BY <2>1, <3>2 DEF In
      <3>4. ASSUME bundle.at = "copy", NEW f \in bundle.todo, FirstToDo(f)
            PROVE  Len(bundle.sized) <= Len(Lines'[f])
        <4>1. f \in DOMAIN Lines /\ Len(bundle.sized) <= Len(Lines[f]) /\ Len(Lines[f]) <= Len(Lines'[f])
          BY <2>1, <3>2, <3>4
        <4>2. Lines[f] \in Seq(AnyLine)
          BY <4>1, ShelfIs DEF Shelf
        <4>3. Lines'[f] \in Seq(AnyLine)
          <5>1. f \in DOMAIN archives' \/ f = Active
            BY <3>2, <4>1, LaterLines
          <5>2. ActiveLines' \in Seq(AnyLine) /\ \A s \in DOMAIN archives' : archives'[s] \in Seq(AnyLine)
            BY LaterTails DEF LogTypes
          <5> QED BY <5>1, <5>2, LaterLines
        <4>4. Len(bundle.sized) \in Nat
          BY DEF BundleInv, BundleTypes
        <4> HIDE DEF AnyLine
        <4>5. Len(Lines[f]) \in Nat /\ Len(Lines'[f]) \in Nat
          BY <4>2, <4>3, LenProperties
        <4> QED BY <4>1, <4>4, <4>5
      <3>5. \A f : FirstToDo(f)' <=> FirstToDo(f)
        BY <1>3 DEF FirstToDo
      <3> QED BY <1>3, <2>1, <3>2, <3>3, <3>4, <3>5 DEF AllIsGot
    <2> QED BY <2>2, <2>3
  <1> QED BY <1>1, <1>4, <1>5, <1>6 DEF BundleInv
-----------------------------------------------------------------------------
(* What the archive command does *)

\* What the copy of a file finds.
LEMMA ContentsAre ==
  ASSUME LogTypes, NEW f, NEW lines \in Contents(f)
  PROVE  /\ lines \in Seq(AnyLine)
         /\ \/ f = Active /\ lines = ActiveLines
            \/ f \in DOMAIN archives /\ lines = archives[f]
            \/ /\ f = stamp /\ worker = "renamed" /\ f \notin DOMAIN archives
               /\ EndsOf(lines) \subseteq EndsOf(Renamed)
               /\ Increasing(Renamed) => Increasing(lines)
  <1>1. CASE f = Active
    BY <1>1, Tails DEF Contents
  <1>2. CASE f # Active /\ f \in DOMAIN archives
    BY <1>2 DEF Contents, LogTypes
  <1>3. CASE f # Active /\ f \notin DOMAIN archives
    <2>1. Compressing /\ f = stamp /\ lines \in PartOf(rotating)
      BY <1>3 DEF Contents
    <2>2. worker = "renamed" /\ Renamed = rotating /\ rotating \in Seq(AnyLine)
      BY <2>1 DEF Compressing, Renamed, LogTypes
    <2>3. /\ lines \in Seq(AnyLine) /\ Hashes(lines) \subseteq Hashes(rotating)
          /\ Increasing(rotating) => Increasing(lines)
      BY <2>1, <2>2, PartIs
    <2> QED BY <1>3, <2>1, <2>2, <2>3 DEF EndsOf, Ends
  <1> QED BY <1>1, <1>2, <1>3

\* A copy comes behind what was copied, and before what is still to be copied.
LEMMA CopyFits ==
  ASSUME LogInv, BundleInv, NEW f \in bundle.todo, FirstToDo(f), NEW lines \in Contents(f)
  PROVE  /\ f \in Nat /\ lines \in Seq(AnyLine) /\ f \notin DOMAIN bundle.got
         /\ \A g \in bundle.todo \ {f} : f < g
         /\ Increasing(lines) /\ EndsOf(lines) \subseteq 1 .. taken
         /\ f # Active => Below(EndsOf(lines), EndsOf(ActiveLines))
         /\ \A g \in DOMAIN bundle.got : g < f /\ Below(EndsOf(bundle.got[g]), EndsOf(lines))
         /\ \A g \in bundle.todo \ {f} :
              /\ g \in DOMAIN archives => Below(EndsOf(lines), EndsOf(archives[g]))
              /\ g = stamp => Below(EndsOf(lines), EndsOf(Renamed))
  <1> DEFINE a == ActiveLines
             r == Renamed
  <1>1. /\ lines \in Seq(AnyLine)
        /\ \/ f = Active /\ lines = a
           \/ f \in DOMAIN archives /\ lines = archives[f]
           \/ /\ f = stamp /\ worker = "renamed" /\ f \notin DOMAIN archives
              /\ EndsOf(lines) \subseteq EndsOf(r)
              /\ Increasing(r) => Increasing(lines)
    BY ContentsAre DEF LogInv
  <1>2. Seconds \in Nat /\ Active = Seconds + 2
    BY ConstantsAssumption DEF Active
  <1> HIDE DEF Active
  <1>3. \A g \in bundle.todo : g \in Nat /\ f <= g /\ g <= Active
    BY <1>2 DEF BundleInv, BundleTypes, FirstToDo
  <1>4. f \in Nat /\ \A g \in bundle.todo \ {f} : f < g /\ f # Active
    BY <1>2, <1>3
  <1>5. \A g \in DOMAIN bundle.got : g \in Nat /\ g < f
    BY DEF BundleInv, BundleTypes
  <1>6. /\ \A s \in DOMAIN archives : Increasing(archives[s])
        /\ Increasing(r) /\ Increasing(a) /\ Below(EndsOf(r), EndsOf(a))
        /\ \A s \in DOMAIN archives : Below(EndsOf(archives[s]), EndsOf(r) \cup EndsOf(a))
        /\ \A s, u \in DOMAIN archives : s < u => Below(EndsOf(archives[s]), EndsOf(archives[u]))
        /\ EndsOf(r) \cup EndsOf(a) \subseteq 1 .. taken
        /\ \A s \in DOMAIN archives : EndsOf(archives[s]) \subseteq 1 .. taken
    BY DEF LogInv, FilesInOrder, Ordered
  <1> HIDE DEF a, r
  <1>7. Increasing(lines) /\ EndsOf(lines) \subseteq 1 .. taken
    BY <1>1, <1>6
  <1>8. f # Active => Below(EndsOf(lines), EndsOf(a))
    BY <1>1, <1>6 DEF Below
  <1>9. ASSUME NEW g \in DOMAIN bundle.got PROVE Below(EndsOf(bundle.got[g]), EndsOf(lines))
    <2>1. /\ g # Active => Below(EndsOf(bundle.got[g]), EndsOf(a))
          /\ f \in DOMAIN archives => Below(EndsOf(bundle.got[g]), EndsOf(archives[f]))
          /\ f = stamp => Below(EndsOf(bundle.got[g]), EndsOf(r))
      BY DEF BundleInv, GotInOrder, a, r
    <2>2. g # Active
      BY <1>2, <1>3, <1>5
    <2> QED BY <1>1, <2>1, <2>2 DEF Below
  <1>10. ASSUME NEW g \in bundle.todo \ {f}, g \in DOMAIN archives
         PROVE  Below(EndsOf(lines), EndsOf(archives[g]))
    <2>1. f < g /\ f # Active
      BY <1>4
    <2>2. f # stamp
      <3>1. g <= stamp /\ stamp \in Nat /\ g \in Nat
        BY <1>2, <1>10 DEF LogInv, LogTypes
      <3> QED BY <1>4, <2>1, <3>1
    <2> QED BY <1>1, <1>6, <1>10, <2>1, <2>2
  <1>11. ASSUME NEW g \in bundle.todo \ {f}, g = stamp
         PROVE  Below(EndsOf(lines), EndsOf(r))
    <2>1. f < g /\ f # Active /\ f # stamp
      BY <1>4, <1>11
    <2> QED BY <1>1, <1>6, <2>1 DEF Below
  <1>12. f \notin DOMAIN bundle.got
    BY <1>5
  <1> QED BY <1>1, <1>4, <1>5, <1>7, <1>8, <1>9, <1>10, <1>11, <1>12 DEF a, r

\* A step of the command leaves the log alone.
LEMMA SameFiles ==
  ASSUME UNCHANGED vars
  PROVE  /\ Lines' = Lines /\ worker' = worker /\ archives' = archives /\ taken' = taken /\ stamp' = stamp
         /\ ActiveLines' = ActiveLines /\ Renamed' = Renamed /\ fd' = fd /\ tail' = tail /\ cli' = cli
  <1>1. ActiveLines' = ActiveLines /\ archives' = archives
    BY Groups DEF ActiveLines
  <1>2. Renamed' = Renamed
    BY Groups DEF Renamed
  <1>3. Lines' = Lines
    BY <1>1 DEF Lines
  <1> QED BY <1>1, <1>2, <1>3, Groups

\* The directory is listed.
LEMMA ListStep ==
  ASSUME LogInv, BundleInv, part = "commands", ListFiles, UNCHANGED vars, part' = part
  PROVE  BundleInv'
  <1>1. PICK withActive \in BOOLEAN, found \in UNION {Found(FALSE), Found(TRUE)} :
          /\ found \in Found(withActive)
          /\ bundle' = [at |-> "stat", todo |-> found, sized |-> <<>>, got |-> <<>>, cut |-> FALSE,
                    had |-> EventsOf(archives) \cup
                            (IF withActive THEN EventsOf([f \in {Active} |-> ActiveLines]) ELSE {}),
                    calm |-> ~Compressing /\ fd = "active"]
    BY DEF ListFiles
  <1>2. /\ bundle'.at = "stat" /\ bundle'.todo = found /\ bundle'.sized = <<>> /\ bundle'.got = <<>>
        /\ bundle'.cut = FALSE /\ bundle'.calm = (~Compressing /\ fd = "active")
        /\ bundle'.had = EventsOf(archives) \cup
                            (IF withActive THEN EventsOf([f \in {Active} |-> ActiveLines]) ELSE {})
        /\ DOMAIN bundle' = Fields
    BY <1>1 DEF Fields
  <1>3. PICK half \in {{}, {stamp}}, live \in {{}, {Active}} :
          /\ found = DOMAIN archives \cup half \cup live
          /\ ~Compressing => half = {}
          /\ Stem = "audit" /\ withActive /\ ~Absent => live = {Active}
    BY <1>1 DEF Found
  <1>4. DOMAIN <<>> = {} /\ Len(<<>>) = 0
    BY EmptySeq
  <1>5. Alone'
    BY AloneStep DEF LogInv, BundleInv
  <1>6. BundleTypes'
    <2>1. Seconds \in Nat /\ now \in 0 .. Seconds /\ stamp \in 0 .. now /\ DOMAIN archives \subseteq 0 .. stamp
      BY ConstantsAssumption DEF LogInv, LogTypes
    <2>2. \A g \in found : g \in 0 .. Seconds \/ g = Active
      BY <1>3, <2>1
    <2>3. Compressing \in BOOLEAN
      BY DEF Compressing, NameTaken
    <2> QED BY <1>2, <1>4, <2>2, <2>3 DEF BundleTypes
  <1>7. GotInOrder'
    BY <1>2, <1>4 DEF GotInOrder
  <1>8. AllIsGot'
    <2> SUFFICES ASSUME ~Compressing, fd = "active" PROVE AllIsGot'
      BY <1>2 DEF AllIsGot
    <2>1. worker' \in {"idle", "check", "draining", "done"}
      BY SameFiles DEF BundleInv, Alone, LogInv, LogTypes
    <2>2. found \subseteq DOMAIN Lines /\ DOMAIN archives \subseteq found
      BY <1>3, KeptIs DEF LogInv
    <2>3. ASSUME Stem = "audit" PROVE bundle'.had \subseteq In(Lines, found)
      <3>1. EventsOf(archives) \subseteq In(Lines, found)
        BY <2>2, EventsAre, KeptIs DEF In, LogInv
      <3>2. CASE withActive
        <4>1. Active \in found /\ Lines[Active] = ActiveLines
          BY <1>3, <2>3, <3>2, KeptIs DEF Absent, LogInv
        <4>2. EventsOf([f \in {Active} |-> ActiveLines]) = EndsOf(ActiveLines)
          BY EventsAre DEF In
        <4> QED BY <1>2, <3>1, <4>1, <4>2 DEF In
      <3>3. CASE ~withActive
        BY <1>2, <3>1, <3>3
      <3> QED BY <3>2, <3>3
    <2>4. Lines' = Lines
      BY SameFiles
    <2> QED BY <1>2, <2>1, <2>2, <2>3, <2>4 DEF AllIsGot
  <1> QED BY <1>5, <1>6, <1>7, <1>8 DEF BundleInv

\* What the command finds in a file, while none is rotated out or purged.
LEMMA CalmContents ==
  ASSUME LogInv, BundleInv, bundle.at # "none", bundle.calm,
         NEW f \in bundle.todo, NEW lines \in Contents(f)
  PROVE  f \in DOMAIN Lines /\ lines = Lines[f]
  <1>1. worker # "renamed" /\ f \in DOMAIN Lines
    BY DEF BundleInv, AllIsGot
  <1>2. (f = Active /\ lines = ActiveLines) \/ (f \in DOMAIN archives /\ lines = archives[f])
    BY <1>1, ContentsAre DEF LogInv
  <1> QED BY <1>1, <1>2, KeptIs DEF LogInv

\* It fails, or has come to its end.
LEMMA EndStep ==
  ASSUME LogInv, BundleInv, part = "commands", UNCHANGED vars, part' = part, bundle.at # "none",
         NEW v \in {"failed", "done"}, v = "done" => bundle.at = "stat" /\ bundle.todo = {},
         bundle' = [bundle EXCEPT !.at = v]
  PROVE  BundleInv'
  <1>1. /\ bundle'.at = v /\ bundle'.todo = bundle.todo /\ bundle'.sized = bundle.sized
        /\ bundle'.got = bundle.got /\ bundle'.cut = bundle.cut /\ bundle'.had = bundle.had
        /\ bundle'.calm = bundle.calm /\ DOMAIN bundle' = Fields
    BY DEF BundleInv, BundleTypes, Fields
  <1>2. Alone'
    BY AloneStep DEF LogInv, BundleInv
  <1>3. BundleTypes'
    BY <1>1 DEF BundleInv, BundleTypes
  <1>4. GotInOrder'
    BY <1>1, SameFiles DEF BundleInv, GotInOrder
  <1>5. AllIsGot'
    BY <1>1, SameFiles DEF BundleInv, AllIsGot, FirstToDo, In
  <1> QED BY <1>2, <1>3, <1>4, <1>5 DEF BundleInv

\* Looking up the size of a file keeps the invariant.
LEMMA StatStep ==
  ASSUME LogInv, BundleInv, part = "commands", StatFile, UNCHANGED vars, part' = part
  PROVE  BundleInv'
  <1>1. CASE Fails
    BY <1>1, EndStep DEF Fails, StatFile
  <1>2. CASE ~Fails
    <2>1. bundle.at = "stat"
      BY DEF StatFile
    <2>2. PICK f \in bundle.todo : FirstToDo(f) /\ \E lines \in Contents(f) :
                 bundle' = [at |-> "copy", todo |-> bundle.todo, sized |-> lines, got |-> bundle.got,
                            cut |-> bundle.cut, had |-> bundle.had, calm |-> bundle.calm]
      BY <1>2 DEF StatFile
    <2>3. PICK lines \in Contents(f) :
                 bundle' = [at |-> "copy", todo |-> bundle.todo, sized |-> lines, got |-> bundle.got,
                            cut |-> bundle.cut, had |-> bundle.had, calm |-> bundle.calm]
      BY <2>2
    <2>4. /\ bundle'.at = "copy" /\ bundle'.todo = bundle.todo /\ bundle'.sized = lines
          /\ bundle'.got = bundle.got /\ bundle'.cut = bundle.cut /\ bundle'.had = bundle.had
          /\ bundle'.calm = bundle.calm /\ DOMAIN bundle' = Fields
      BY <2>3 DEF Fields
    <2>5. lines \in Seq(AnyLine) /\ Len(lines) \in Nat
      <3>1. lines \in Seq(AnyLine)
        BY ContentsAre DEF LogInv
      <3> HIDE DEF AnyLine
      <3> QED BY <3>1, LenProperties
    <2>6. Alone'
      BY AloneStep DEF LogInv, BundleInv
    <2>7. BundleTypes'
      BY <2>4, <2>5 DEF BundleInv, BundleTypes
    <2>8. GotInOrder'
      BY <2>4, SameFiles DEF BundleInv, GotInOrder
    <2>9. AllIsGot'
      <3> SUFFICES ASSUME bundle.calm PROVE AllIsGot'
        BY <2>4 DEF AllIsGot
      <3>1. f \in DOMAIN Lines /\ lines = Lines[f]
        BY <2>1, CalmContents
      <3>2. ASSUME NEW g \in bundle.todo, \A h \in bundle.todo : g <= h PROVE g = f
        <4>1. g \in Nat /\ f \in Nat
          BY ConstantsAssumption DEF BundleInv, BundleTypes, Active
        <4> QED BY <2>2, <3>2, <4>1 DEF FirstToDo
      <3>3. \A g \in bundle.todo : FirstToDo(g)' => Len(lines) <= Len(Lines[g])
        BY <2>4, <2>5, <3>1, <3>2 DEF FirstToDo
      <3> QED BY <2>1, <2>4, <3>3, SameFiles DEF BundleInv, AllIsGot
    <2> QED BY <2>6, <2>7, <2>8, <2>9 DEF BundleInv
  <1> QED BY <1>1, <1>2

\* Copying a file, or failing to, keeps the invariant: what is copied lies before what is
\* still to be copied.
LEMMA CopyStep ==
  ASSUME LogInv, BundleInv, part = "commands", CopyFile, UNCHANGED vars, part' = part
  PROVE  BundleInv'
  <1>1. CASE Fails
    BY <1>1, EndStep DEF Fails, CopyFile
  <1>2. CASE ~Fails
    <2>1. bundle.at = "copy"
      BY DEF CopyFile
    <2>2. PICK f \in bundle.todo : FirstToDo(f) /\ \E lines \in Contents(f) :
                 LET rest == bundle.todo \ {f}
                     less == Len(lines) < Len(bundle.sized)
                     more == Len(lines) > Len(bundle.sized)
                 IN  bundle' = [at    |-> IF more \/ (less /\ rest # {}) THEN "failed" ELSE "stat",
                                todo  |-> rest,
                                sized |-> bundle.sized,
                                got   |-> [g \in DOMAIN bundle.got \cup {f} |->
                                             IF g = f THEN lines ELSE bundle.got[g]],
                                cut   |-> less,
                                had   |-> bundle.had, calm |-> bundle.calm]
      BY <1>2 DEF CopyFile
    <2> DEFINE got == bundle.got
               rest == bundle.todo \ {f}
    <2>3. PICK lines \in Contents(f) :
            /\ bundle'.at \in {"failed", "stat"} /\ bundle'.todo = rest /\ bundle'.sized = bundle.sized
            /\ bundle'.got = [g \in DOMAIN got \cup {f} |-> IF g = f THEN lines ELSE got[g]]
            /\ bundle'.cut = (Len(lines) < Len(bundle.sized)) /\ bundle'.had = bundle.had
            /\ bundle'.calm = bundle.calm /\ DOMAIN bundle' = Fields
      BY <2>2 DEF Fields
    <2> DEFINE now_ == bundle'.got
    <2>4. /\ f \in Nat /\ lines \in Seq(AnyLine) /\ f \notin DOMAIN got
          /\ \A g \in rest : f < g
          /\ Increasing(lines) /\ EndsOf(lines) \subseteq 1 .. taken
          /\ f # Active => Below(EndsOf(lines), EndsOf(ActiveLines))
          /\ \A g \in DOMAIN got : g < f /\ Below(EndsOf(got[g]), EndsOf(lines))
          /\ \A g \in rest :
               /\ g \in DOMAIN archives => Below(EndsOf(lines), EndsOf(archives[g]))
               /\ g = stamp => Below(EndsOf(lines), EndsOf(Renamed))
      BY <2>2, CopyFits
    <2>5. /\ DOMAIN now_ = DOMAIN got \cup {f} /\ now_[f] = lines
          /\ \A g \in DOMAIN got : now_[g] = got[g]
      BY <2>3, <2>4
    <2> HIDE DEF now_, got
    <2>6. Alone'
      BY AloneStep DEF LogInv, BundleInv
    <2>7. BundleTypes'
      <3>1. \A g \in DOMAIN now_ : g \in Nat /\ now_[g] \in Seq(AnyLine) /\ \A h \in rest : g < h
        BY <2>4, <2>5 DEF BundleInv, BundleTypes, got
      <3> QED BY <2>3, <3>1 DEF BundleInv, BundleTypes, now_
    <2>8. GotInOrder'
      <3>1. /\ \A g \in DOMAIN got : /\ Increasing(got[g]) /\ EndsOf(got[g]) \subseteq 1 .. taken
                                     /\ g # Active => Below(EndsOf(got[g]), EndsOf(ActiveLines))
            /\ \A g, h \in DOMAIN got : g < h => Below(EndsOf(got[g]), EndsOf(got[h]))
            /\ \A g \in DOMAIN got, h \in rest :
                 /\ h \in DOMAIN archives => Below(EndsOf(got[g]), EndsOf(archives[h]))
                 /\ h = stamp => Below(EndsOf(got[g]), EndsOf(Renamed))
        BY DEF BundleInv, GotInOrder, got
      <3>2. \A g \in DOMAIN now_ : /\ Increasing(now_[g]) /\ EndsOf(now_[g]) \subseteq 1 .. taken
                                   /\ g # Active => Below(EndsOf(now_[g]), EndsOf(ActiveLines))
        BY <2>4, <2>5, <3>1
      <3>3. ASSUME NEW g \in DOMAIN now_, NEW h \in DOMAIN now_, g < h
            PROVE  Below(EndsOf(now_[g]), EndsOf(now_[h]))
        <4>1. \A u \in DOMAIN got : u \in Nat
          BY DEF BundleInv, BundleTypes, got
        <4>2. g \in DOMAIN got
          <5>1. g # f
            <6>1. ASSUME g = f, h \in DOMAIN got PROVE FALSE
              BY <2>4, <3>3, <4>1, <6>1
            <6>2. h \in DOMAIN got \/ h = f
              BY <2>5
            <6> QED BY <2>4, <3>3, <6>1, <6>2
          <5> QED BY <2>5, <5>1
        <4>3. CASE h = f
          BY <2>4, <2>5, <4>2, <4>3
        <4>4. CASE h \in DOMAIN got
          BY <2>5, <3>1, <3>3, <4>2, <4>4
        <4> QED BY <2>5, <4>3, <4>4
      <3>4. \A g \in DOMAIN now_, h \in rest :
              /\ h \in DOMAIN archives => Below(EndsOf(now_[g]), EndsOf(archives[h]))
              /\ h = stamp => Below(EndsOf(now_[g]), EndsOf(Renamed))
        BY <2>4, <2>5, <3>1
      <3> QED BY <2>3, <3>2, <3>3, <3>4, SameFiles DEF GotInOrder, now_
    <2>9. AllIsGot'
      <3> SUFFICES ASSUME bundle.calm PROVE AllIsGot'
        BY <2>3 DEF AllIsGot
      <3>1. f \in DOMAIN Lines /\ lines = Lines[f]
        BY <2>1, CalmContents
      <3>2. /\ worker \in {"idle", "check", "draining", "done"}
            /\ bundle.todo \subseteq DOMAIN Lines
            /\ Len(bundle.sized) <= Len(lines)
            /\ Stem = "audit" => bundle.had \subseteq In(got, DOMAIN got) \cup In(Lines, bundle.todo)
        BY <2>1, <2>2, <3>1 DEF BundleInv, AllIsGot, got
      <3>3. ~bundle'.cut
        <4>1. Len(lines) \in Nat /\ Len(bundle.sized) \in Nat
          <5>1. Len(bundle.sized) \in Nat
            BY DEF BundleInv, BundleTypes
          <5> HIDE DEF AnyLine
          <5> QED BY <2>4, <5>1, LenProperties
        <4>2. ~(Len(lines) < Len(bundle.sized))
          BY <3>2, <4>1
        <4>3. bundle'.cut = (Len(lines) < Len(bundle.sized))
          BY <2>3
        <4> QED BY <4>2, <4>3, Zenon
      <3>4. In(got, DOMAIN got) \cup In(Lines, bundle.todo) \subseteq In(now_, DOMAIN now_) \cup In(Lines, rest)
        BY <2>5, <3>1 DEF In
      <3> QED BY <2>3, <3>2, <3>3, <3>4, SameFiles DEF AllIsGot, now_
    <2> QED BY <2>6, <2>7, <2>8, <2>9 DEF BundleInv
  <1> QED BY <1>1, <1>2

\* Every step of the archive command keeps the invariant of the bundle.
LEMMA CommandStep ==
  ASSUME LogInv, BundleInv, part = "commands", ArchiveLogs, UNCHANGED vars, part' = part
  PROVE  BundleInv'
  <1>1. CASE EndBundle
    BY <1>1, EndStep DEF EndBundle
  <1> QED BY <1>1, ListStep, StatStep, CopyStep DEF ArchiveLogs

\* The invariant says that a finished bundle is sound.
LEMMA Bundled ==
  ASSUME LogInv, BundleInv
  PROVE  BundlesAreSound
  <1> SUFFICES ASSUME bundle.at = "done"
               PROVE  /\ \A p, q \in Chained(bundle.got) :
                           Before(p, q) => EventAt(bundle.got, p) < EventAt(bundle.got, q)
                      /\ bundle.calm => /\ ~bundle.cut
                                        /\ Stem = "audit" => bundle.had \subseteq EventsOf(bundle.got)
    BY DEF BundlesAreSound
  <1> DEFINE got == bundle.got
  <1>1. /\ \A f \in DOMAIN got : Increasing(got[f]) /\ f \in Nat
        /\ \A f, g \in DOMAIN got : f < g => Below(EndsOf(got[f]), EndsOf(got[g]))
    BY DEF BundleInv, GotInOrder, BundleTypes
  <1> HIDE DEF got
  <1>2. \A p \in Chained(got) : /\ p[1] \in DOMAIN got /\ p[2] \in Rows(got[p[1]])
                                /\ EventAt(got, p) = Last(got[p[1]][p[2]].hash)
                                /\ EventAt(got, p) \in EndsOf(got[p[1]])
    <2> TAKE p \in Chained(got)
    <2>1. p \in Places(got) /\ Line(got, p).kind = "chained"
      BY DEF Chained
    <2>2. PICK f \in DOMAIN got : \E i \in DOMAIN got[f] : p = <<f, i>>
      BY <2>1 DEF Places
    <2>3. PICK i \in DOMAIN got[f] : p = <<f, i>>
      BY <2>2
    <2>4. i \in Rows(got[f]) /\ EventAt(got, p) = Last(got[f][i].hash)
      BY <2>1, <2>3 DEF Line, Rows, EventAt
    <2>5. EventAt(got, p) \in EndsOf(got[f])
      BY <2>4 DEF EndsOf, Ends, Hashes
    <2> QED BY <2>3, <2>4, <2>5
  <1>3. ASSUME NEW p \in Chained(got), NEW q \in Chained(got), Before(p, q)
        PROVE  EventAt(got, p) < EventAt(got, q)
    <2>1. CASE p[1] = q[1] /\ p[2] < q[2]
      BY <1>1, <1>2, <2>1 DEF Increasing
    <2>2. CASE p[1] < q[1]
      BY <1>1, <1>2, <2>2 DEF Below
    <2> QED BY <1>3, <2>1, <2>2 DEF Before
  <1>4. ASSUME bundle.calm, Stem = "audit" PROVE bundle.had \subseteq EventsOf(got)
    <2>1. bundle.had \subseteq In(got, DOMAIN got) \cup In(Lines, bundle.todo)
      BY <1>4 DEF BundleInv, AllIsGot, got
    <2>2. bundle.todo = {}
      BY DEF BundleInv, AllIsGot, BundleTypes
    <2>3. In(Lines, {}) = {}
      BY DEF In
    <2> QED BY <2>1, <2>2, <2>3, EventsAre
  <1>5. bundle.calm => ~bundle.cut
    BY DEF BundleInv, AllIsGot
  <1> QED BY <1>3, <1>4, <1>5 DEF got
-----------------------------------------------------------------------------
(* What a reader of the trail sees go *)

\* Of the events S only T stay, and between two that go there was none that stays.
Cut(S, T) == T \subseteq S /\ \A e \in T : Below({e}, S \ T) \/ Below(S \ T, {e})

\* What the archives z, the file r that is being compressed and the active file a show.
Shows(z, r, a) == EndsOf(r) \cup EndsOf(a) \cup UNION {EndsOf(z[s]) : s \in DOMAIN z}

\* At most one event goes.
LEMMA CutOne ==
  ASSUME NEW S, NEW T, NEW x, S \subseteq Nat, T \subseteq S, S \subseteq T \cup {x}
  PROVE  Cut(S, T)
  <1>1. ASSUME NEW e \in T PROVE Below({e}, S \ T) \/ Below(S \ T, {e})
    <2>1. CASE x \in S \ T
      <3>1. e < x \/ x < e
        BY <2>1
      <3> QED BY <3>1 DEF Below
    <2>2. CASE x \notin S \ T
      BY <2>2 DEF Below
    <2> QED BY <2>1, <2>2
  <1> QED BY <1>1 DEF Cut

\* The renamed file goes, and its archive has its beginning or nothing of it.
LEMMA CutRenamed ==
  ASSUME NEW z, NEW r, NEW a, NEW t, Ordered(z, r, a, t), NEW c,
         c \subseteq EndsOf(r), Below(c, EndsOf(r) \ c),
         NEW T, T = c \cup EndsOf(a) \cup UNION {EndsOf(z[s]) : s \in DOMAIN z}
  PROVE  Cut(Shows(z, r, a), T)
  <1>1. T \subseteq Shows(z, r, a)
    BY DEF Shows
  <1>2. Shows(z, r, a) \ T \subseteq EndsOf(r) \ c
    BY DEF Shows
  <1>3. ASSUME NEW e \in T PROVE Below({e}, EndsOf(r) \ c) \/ Below(EndsOf(r) \ c, {e})
    <2>1. CASE e \in c
      BY <2>1 DEF Below
    <2>2. CASE e \in EndsOf(a)
      BY <2>2 DEF Below, Ordered
    <2>3. CASE e \in UNION {EndsOf(z[s]) : s \in DOMAIN z}
      BY <2>3 DEF Below, Ordered
    <2> QED BY <2>1, <2>2, <2>3
  <1>4. ASSUME NEW e \in T
        PROVE  Below({e}, Shows(z, r, a) \ T) \/ Below(Shows(z, r, a) \ T, {e})
    BY <1>2, <1>3 DEF Below
  <1> QED BY <1>1, <1>4 DEF Cut

\* The oldest archives go.
LEMMA CutArchives ==
  ASSUME NEW z, NEW r, NEW a, NEW t, Ordered(z, r, a, t), NEW y,
         DOMAIN y \subseteq DOMAIN z, \A s \in DOMAIN y : y[s] = z[s],
         \A s \in DOMAIN z \ DOMAIN y, u \in DOMAIN y : s < u
  PROVE  Cut(Shows(z, r, a), Shows(y, r, a))
  <1> DEFINE S == Shows(z, r, a)
             T == Shows(y, r, a)
  <1>1. T \subseteq S
    BY DEF Shows
  <1>2. ASSUME NEW d \in S, d \notin T, NEW e \in T PROVE d < e
    <2>1. PICK s \in DOMAIN z \ DOMAIN y : d \in EndsOf(z[s])
      BY <1>2 DEF Shows
    <2>2. CASE e \in EndsOf(r) \cup EndsOf(a)
      BY <2>1, <2>2 DEF Ordered, Below
    <2>3. CASE e \notin EndsOf(r) \cup EndsOf(a)
      <3>1. PICK u \in DOMAIN y : e \in EndsOf(y[u])
        BY <2>3 DEF Shows
      <3>2. s < u /\ u \in DOMAIN z /\ e \in EndsOf(z[u])
        BY <3>1
      <3> QED BY <2>1, <3>2 DEF Ordered, Below
    <2> QED BY <2>2, <2>3
  <1> QED BY <1>1, <1>2 DEF Cut, Below

\* What a step that adds nothing may take away: the last line of the active file; the file
\* that was renamed; or the oldest archives.
LosesLine ==
    /\ Hashes(Renamed') = Hashes(Renamed) /\ archives' = archives
    /\ Hashes(ActiveLines') \subseteq Hashes(ActiveLines)
    /\ \E h : Hashes(ActiveLines) \subseteq Hashes(ActiveLines') \cup {h}

LosesRenamed ==
    /\ Renamed' = <<>> /\ archives' = archives
    /\ Hashes(ActiveLines') = Hashes(ActiveLines)

LosesArchives ==
    /\ Hashes(Renamed') = Hashes(Renamed) /\ Hashes(ActiveLines') = Hashes(ActiveLines)
    /\ DOMAIN archives' \subseteq DOMAIN archives
    /\ \A s \in DOMAIN archives' : archives'[s] = archives[s]
    /\ \A s \in DOMAIN archives \ DOMAIN archives', u \in DOMAIN archives' : s < u

\* Retention and the purge of the command begin with the oldest archives.
LEMMA PurgeTakesOldest ==
  ASSUME LogTypes, Purge \/ PurgeStep
  PROVE  LosesArchives
  <1>1. DOMAIN archives \subseteq Nat
    BY ConstantsAssumption DEF LogTypes
  <1>2. Hashes(Renamed') = Hashes(Renamed) /\ Hashes(ActiveLines') = Hashes(ActiveLines)
    BY DEF Purge, PurgeStep, Renamed, ActiveLines, log
  <1>3. Purged
    BY PurgeIsPurged
  <1>4. CASE Purge
    <2> DEFINE D == DOMAIN archives
               m == Min(D)
    <2>1. m \in D /\ \A s \in D : m <= s
      <3>1. D # {}
        BY <1>4 DEF Purge
      <3>2. \E n \in D : \A s \in D : n <= s
        BY <1>1, <3>1, SmallestExists
      <3> QED BY <3>2 DEF Min
    <2>2. DOMAIN archives' = D \ {m}
      BY <1>4 DEF Purge
    <2> HIDE DEF m
    <2>3. \A s \in D \ DOMAIN archives', u \in DOMAIN archives' : s < u
      BY <1>1, <2>1, <2>2
    <2> QED BY <1>2, <1>3, <2>3 DEF LosesArchives, Purged
  <1>5. CASE PurgeStep
    <2>1. PICK asked \in Asked :
            DOMAIN archives' = DOMAIN archives \ {s \in DOMAIN archives : s < now - Days(asked) * Day}
      BY <1>5 DEF PurgeStep, PurgeLogsOlderThan
    <2> DEFINE k == now - Days(asked) * Day
    <2>2. k \in Int
      <3>1. now \in Nat /\ Day \in Nat \ {0} /\ asked \in Nat
        BY ConstantsAssumption, CommandsAssumption DEF LogTypes
      <3>2. asked \div Day \in Int
        BY <3>1
      <3>3. Days(asked) \in Int
        BY <3>2 DEF Days
      <3>4. Days(asked) * Day \in Int
        BY <3>1, <3>3
      <3> HIDE DEF Days
      <3> QED BY <3>1, <3>4
    <2>3. DOMAIN archives' = DOMAIN archives \ {s \in DOMAIN archives : s < k}
      BY <2>1
    <2> HIDE DEF k
    <2>4. \A s \in DOMAIN archives \ DOMAIN archives', u \in DOMAIN archives' : s < u
      BY <1>1, <2>2, <2>3
    <2> QED BY <1>2, <1>3, <2>4 DEF LosesArchives, Purged
  <1> QED BY <1>4, <1>5

\* A start that finds the last line torn or glued cuts it off, with the event it may show.
LEMMA RecoveredLosesLine ==
  ASSUME LogTypes, active' = active, tail' \in {tail, Recovered}
  PROVE  /\ Hashes(ActiveLines') \subseteq Hashes(ActiveLines)
         /\ \E h : Hashes(ActiveLines) \subseteq Hashes(ActiveLines') \cup {h}
  <1>1. Hashes(ActiveLines') \subseteq Hashes(ActiveLines)
    BY RecoveredLessens
  <1>2. CASE tail' = tail
    <2>1. ActiveLines' = ActiveLines
      BY <1>2 DEF ActiveLines
    <2> QED BY <2>1
  <1>3. CASE tail' # tail
    <2>1. tail' = Clean /\ tail # Clean
      BY <1>3 DEF Recovered
    <2>2. active \o <<>> = active
      <3> HIDE DEF AnyLine
      <3> QED BY Tails, ConcatEmptySeq
    <2>3. ActiveLines' = active
      BY <2>1, <2>2 DEF ActiveLines
    <2> DEFINE l == tail.line
               s == active
               t == Append(s, l)
    <2>4. ActiveLines = t /\ l \in AnyLine /\ s \in Seq(AnyLine)
      BY <2>1, Tails
    <2> HIDE DEF l, s
    <2>5. Len(s) \in Nat /\ DOMAIN s = 1 .. Len(s) /\ DOMAIN t = 1 .. Len(s) + 1
          /\ (\A i \in 1 .. Len(s) : t[i] = s[i]) /\ t[Len(s) + 1] = l
      BY <2>4, AppendLines
    <2> HIDE DEF t
    <2>6. \A i \in Rows(t) : (i \in Rows(s) /\ t[i] = s[i]) \/ t[i].hash = l.hash
      <3> TAKE i \in Rows(t)
      <3>1. i \in 1 .. Len(s) \/ i = Len(s) + 1
        BY <2>5 DEF Rows
      <3> QED BY <2>5, <3>1 DEF Rows
    <2>7. Hashes(t) \subseteq Hashes(s) \cup {l.hash}
      BY <2>6 DEF Hashes
    <2> QED BY <1>1, <2>3, <2>4, <2>7 DEF s
  <1> QED BY <1>2, <1>3

\* The steps after which the files show no more than before take no more than that.
LEMMA LosesWhen ==
  ASSUME LogTypes,
         \/ Submit \/ KeepFile \/ RotateCollides \/ Reopen \/ ReopenFails \/ EndClose
         \/ BeginClose \/ Exit \/ Crash \/ Start \/ CliOpen \/ CliAppend \/ Purge \/ PurgeStep
         \/ Tick \/ UNCHANGED vars
  PROVE  LosesLine \/ LosesRenamed \/ LosesArchives
  <1>1. CASE CliAppend
    <2>1. archives' = archives
      BY <1>1 DEF CliAppend
    <2> QED BY <1>1, <2>1, BareLessens DEF LosesLine
  <1>2. CASE Purge \/ PurgeStep
    BY <1>2, PurgeTakesOldest
  <1>3. CASE ~(CliAppend \/ Purge \/ PurgeStep)
    <2>1. /\ active' = active /\ tail' \in {tail, Recovered} /\ rotating' = rotating
          /\ worker' = "renamed" => worker = "renamed"
          /\ worker = "renamed" => worker' = worker \/ tail' = tail
          /\ archives' = archives
      BY <1>3, Groups DEF Submit, KeepFile, RotateCollides, Reopen, ReopenFails, EndClose,
         CloseReturns, BeginClose, Exit, Crash, Die, Start, CliOpen, Tick
    <2>2. CASE Renamed' = Renamed
      BY <2>1, <2>2, RecoveredLosesLine DEF LosesLine
    <2>3. CASE Renamed' # Renamed
      <3>1. worker = "renamed" /\ worker' # "renamed" /\ tail' = tail
        BY <2>1, <2>3 DEF Renamed
      <3>2. ActiveLines' = ActiveLines /\ Renamed' = <<>>
        BY <2>1, <3>1 DEF ActiveLines, Renamed
      <3> QED BY <2>1, <3>2 DEF LosesRenamed
    <2> QED BY <2>2, <2>3
  <1> QED BY <1>1, <1>2, <1>3

Shown == Shows(archives, Renamed, ActiveLines)

\* Whatever an operation of the log leaves on disk, a reader finds what was there and the
\* event that was taken, or misses events that lay behind one another.
LEMMA ShownStep ==
  ASSUME LogTypes, LogTypes', QueueIsBehind, FilesInOrder, Next \/ PurgeStep \/ UNCHANGED vars
  PROVE  \/ /\ taken < taken' /\ taken' \in Event
            /\ Shown' \in {Shown, Shown \cup {taken'}}
         \/ taken' = taken /\ Cut(Shown, Shown')
  <1> DEFINE z == archives
             r == Renamed
             a == ActiveLines
  <1>1. Ordered(z, r, a, taken) /\ taken \in Nat
    BY DEF FilesInOrder, LogTypes
  <1>2. Shown \subseteq Nat
    BY <1>1 DEF Shown, Shows, Ordered
  <1>3. Hashes(a') = Hashes(a) => EndsOf(a') = EndsOf(a)
    BY DEF EndsOf
  <1>4. Hashes(r') = Hashes(r) => EndsOf(r') = EndsOf(r)
    BY DEF EndsOf
  <1>5. CASE WriteRow \/ WriteFails \/ CrashInWrite
    <2>1. Adds
      BY <1>5, AddsWhen
    <2>2. taken < taken' /\ taken' \in Event /\ Last(head') = taken'
      BY <2>1, LastOfHead, QueueFacts DEF Adds
    <2>3. Continues(a', a, {head'}) /\ a \in Seq(AnyLine) /\ a' \in Seq(AnyLine)
      BY <2>1, Tails, LaterTails DEF Adds
    <2>4. r' = r /\ z' = z
      BY <2>1 DEF Adds
    <2> HIDE DEF a, r, z
    <2>5. Hashes(a) \subseteq Hashes(a') /\ Hashes(a') \subseteq Hashes(a) \cup {head'}
      BY <2>3, ContinuesHashes
    <2>6. EndsOf(a) \subseteq EndsOf(a') /\ EndsOf(a') \subseteq EndsOf(a) \cup {taken'}
      BY <2>2, <2>5 DEF EndsOf, Ends
    <2>7. Shows(z, r, a) \subseteq Shows(z', r', a')
          /\ Shows(z', r', a') \subseteq Shows(z, r, a) \cup {taken'}
      BY <2>4, <2>6 DEF Shows
    <2>8. Shown' \in {Shown, Shown \cup {taken'}}
      BY <2>7 DEF Shown, a, r, z
    <2> QED BY <2>2, <2>8
  <1>6. CASE \/ Submit \/ KeepFile \/ RotateCollides \/ Reopen \/ ReopenFails \/ EndClose
             \/ BeginClose \/ Exit \/ Crash \/ Start \/ CliOpen \/ CliAppend \/ Purge \/ PurgeStep
             \/ Tick \/ UNCHANGED vars
    <2>1. taken' = taken
      BY <1>6, Groups DEF Submit, KeepFile, RotateCollides, Reopen, ReopenFails, EndClose,
         CloseReturns, BeginClose, Exit, Crash, Start, CliOpen, CliAppend, Purge, PurgeStep, Tick
    <2>2. CASE LosesLine
      <3>1. EndsOf(r') = EndsOf(r) /\ z' = z /\ EndsOf(a') \subseteq EndsOf(a)
        BY <1>4, <2>2 DEF LosesLine, EndsOf, Ends
      <3>2. PICK h : Hashes(a) \subseteq Hashes(a') \cup {h}
        BY <2>2 DEF LosesLine
      <3>3. EndsOf(a) \subseteq EndsOf(a') \cup {Last(h)}
        BY <3>2 DEF EndsOf, Ends
      <3> HIDE DEF a, r, z
      <3>4. /\ Shows(z', r', a') \subseteq Shows(z, r, a)
            /\ Shows(z, r, a) \subseteq Shows(z', r', a') \cup {Last(h)}
        BY <3>1, <3>3 DEF Shows
      <3>5. Shown' \subseteq Shown /\ Shown \subseteq Shown' \cup {Last(h)}
        BY <3>4 DEF Shown, a, r, z
      <3> QED BY <1>2, <2>1, <3>5, CutOne
    <2>3. CASE LosesRenamed
      <3>1. EndsOf(r') = {} /\ z' = z /\ EndsOf(a') = EndsOf(a)
        BY <1>3, <2>3, NoHashes DEF LosesRenamed
      <3>2. Below({}, EndsOf(r) \ {})
        BY DEF Below
      <3> HIDE DEF a, r, z
      <3>3. Shows(z', r', a') = {} \cup EndsOf(a) \cup UNION {EndsOf(z[s]) : s \in DOMAIN z}
        BY <3>1 DEF Shows
      <3>4. Cut(Shows(z, r, a), Shows(z', r', a'))
        BY <1>1, <3>2, <3>3, CutRenamed
      <3> QED BY <2>1, <3>4 DEF Shown, a, r, z
    <2>4. CASE LosesArchives
      <3>1. /\ EndsOf(r') = EndsOf(r) /\ EndsOf(a') = EndsOf(a)
            /\ DOMAIN z' \subseteq DOMAIN z /\ \A s \in DOMAIN z' : z'[s] = z[s]
            /\ \A s \in DOMAIN z \ DOMAIN z', u \in DOMAIN z' : s < u
        BY <1>3, <1>4, <2>4 DEF LosesArchives
      <3> HIDE DEF a, r, z
      <3>2. Shows(z', r', a') = Shows(z', r, a)
        BY <3>1 DEF Shows
      <3>3. Cut(Shows(z, r, a), Shows(z', r', a'))
        BY <1>1, <3>1, <3>2, CutArchives
      <3> QED BY <2>1, <3>3 DEF Shown, a, r, z
    <2> QED BY <1>6, <2>2, <2>3, <2>4, LosesWhen
  <1>7. CASE RotateRename
    <2>1. taken' = taken /\ Renames
      BY <1>7, RenamesWhen DEF RotateRename, past
    <2>2. r' = a /\ r = <<>> /\ a' = <<>> /\ z' = z
      BY <2>1 DEF Renames
    <2>3. EndsOf(r) = {} /\ EndsOf(a') = {}
      BY <2>2, NoHashes
    <2> HIDE DEF a, r, z
    <2>4. Shows(z', r', a') = Shows(z, r, a)
      BY <2>2, <2>3 DEF Shows
    <2>5. Shown' = Shown
      BY <2>4 DEF Shown, a, r, z
    <2>6. Cut(Shown, Shown')
      BY <2>5 DEF Cut, Below
    <2> QED BY <2>1, <2>6
  <1>8. CASE RotateZip \/ RotateZipFails \/ CrashInZip
    <2>1. taken' = taken /\ Zips
      BY <1>8, ZipsWhen DEF RotateZip, RotateZipFails, CrashInZip, past
    <2> DEFINE n == stamp
               c == EndsOf(z'[n])
    <2>2. /\ a' = a /\ r' = <<>> /\ n \notin DOMAIN z /\ DOMAIN z' = DOMAIN z \cup {n}
          /\ \A s \in DOMAIN z : z'[s] = z[s]
      BY <2>1 DEF Zips
    <2>3. c \subseteq EndsOf(r) /\ Below(c, EndsOf(r) \ c)
      BY <1>1, <2>1 DEF Zips, EndsOf, Ends, Ordered
    <2>4. EndsOf(r') = {}
      BY <2>2, NoHashes
    <2> HIDE DEF a, r, z, n
    <2>5. Shows(z', r', a') = c \cup EndsOf(a) \cup UNION {EndsOf(z[s]) : s \in DOMAIN z}
      BY <2>2, <2>4 DEF Shows
    <2> HIDE DEF c
    <2>6. Cut(Shows(z, r, a), Shows(z', r', a'))
      BY <1>1, <2>3, <2>5, CutRenamed
    <2> QED BY <2>1, <2>6 DEF Shown, a, r, z
  <1> QED BY <1>5, <1>6, <1>7, <1>8 DEF Next, Work
-----------------------------------------------------------------------------
(* The trail that the files implement *)

\* The pairs of numbers of S of which the first is the smaller one.
Pairs(S) == {de \in S \X S : de[1] < de[2]}

\* What a reader finds is what the files show, in the order of the events.
Said == EventsOf(Kept) = Shown /\ ReadBefore = Pairs(EventsOf(Kept))

\* The invariant of the log says what a reader finds.
LEMMA ReaderFinds ==
  ASSUME LogInv
  PROVE  Said
  <1> DEFINE E == EventsOf(Kept)
  <1>1. LogTypes /\ FilesInOrder /\ Shelf(Kept)
    BY ShelfIs DEF LogInv
  <1>2. E = Shown
    <2>1. E = UNION {EndsOf(Kept[f]) : f \in DOMAIN Kept}
      BY EventsAre DEF In
    <2>2. ASSUME NEW f \in DOMAIN Kept PROVE EndsOf(Kept[f]) \subseteq Shown
      BY <1>1, ShelfIs DEF Shown, Shows
    <2>3. EndsOf(ActiveLines) \subseteq E
      <3>1. Active \in DOMAIN Kept /\ Kept[Active] = ActiveLines
        BY <1>1, KeptIs
      <3> QED BY <2>1, <3>1
    <2>4. EndsOf(Renamed) \subseteq E
      <3>1. CASE worker = "renamed"
        <4>1. Rotating \in DOMAIN Kept /\ Kept[Rotating] = Renamed
          BY <1>1, <3>1, KeptIs
        <4> QED BY <2>1, <4>1
      <3>2. CASE worker # "renamed"
        <4>1. Renamed = <<>>
          BY <3>2 DEF Renamed
        <4> QED BY <4>1, NoHashes
      <3> QED BY <3>1, <3>2
    <2>5. ASSUME NEW s \in DOMAIN archives PROVE EndsOf(archives[s]) \subseteq E
      <3>1. s \in DOMAIN Kept /\ Kept[s] = archives[s]
        BY <1>1, KeptIs
      <3> QED BY <2>1, <3>1
    <2> QED BY <2>1, <2>2, <2>3, <2>4, <2>5 DEF Shown, Shows
  <1>3. E \subseteq Nat
    BY <1>1, <1>2 DEF Shown, Shows, FilesInOrder, Ordered, LogTypes
  <1>4. ASSUME NEW p \in Chained(Kept), NEW q \in Chained(Kept)
        PROVE  /\ EventAt(Kept, p) \in E /\ EventAt(Kept, q) \in E
               /\ Before(p, q) <=> EventAt(Kept, p) < EventAt(Kept, q)
    <2>1. EventAt(Kept, p) \in E /\ EventAt(Kept, q) \in E
      BY DEF EventsOf
    <2>2. p = q \/ Before(p, q) \/ Before(q, p)
      BY <1>1, PlacesInOrder DEF Chained
    <2>3. Before(p, q) => EventAt(Kept, p) < EventAt(Kept, q)
      BY <1>1, EventsInOrder
    <2>4. Before(q, p) => EventAt(Kept, q) < EventAt(Kept, p)
      BY <1>1, EventsInOrder
    <2>5. EventAt(Kept, p) \in Nat /\ EventAt(Kept, q) \in Nat
      BY <1>3, <2>1
    <2> DEFINE x == EventAt(Kept, p)
               y == EventAt(Kept, q)
    <2>6. p = q => x = y
      OBVIOUS
    <2> HIDE DEF x, y, E
    <2>7. x < y => ~(y < x) /\ x # y
      BY <2>5 DEF x, y
    <2>8. Before(p, q) <=> x < y
      BY <2>2, <2>3, <2>4, <2>6, <2>7 DEF x, y
    <2> QED BY <2>1, <2>8 DEF x, y
  <1>5. ReadBefore \subseteq Pairs(E)
    BY <1>4 DEF ReadBefore, Pairs
  <1>6. Pairs(E) \subseteq ReadBefore
    <2> SUFFICES ASSUME NEW de \in Pairs(E) PROVE de \in ReadBefore
      OBVIOUS
    <2>1. de \in E \X E /\ de[1] < de[2]
      BY DEF Pairs
    <2>2. PICK p \in Chained(Kept) : de[1] = EventAt(Kept, p)
      BY <2>1 DEF EventsOf
    <2>3. PICK q \in Chained(Kept) : de[2] = EventAt(Kept, q)
      BY <2>1 DEF EventsOf
    <2>4. Before(p, q)
      BY <1>4, <2>1, <2>2, <2>3
    <2>5. de = <<EventAt(Kept, p), EventAt(Kept, q)>>
      BY <2>1, <2>2, <2>3
    <2> QED BY <2>1, <2>4, <2>5 DEF ReadBefore
  <1> QED BY <1>2, <1>5, <1>6 DEF Said

\* The pairs that are left after a cut, and what lies between two events that went.
LEMMA PairsOfCut ==
  ASSUME NEW S, NEW T, S \subseteq Nat, Cut(S, T)
  PROVE  /\ T = S \ (S \ T) /\ Pairs(T) = Pairs(S) \cap (T \X T)
         /\ \A d, f \in S \ T, e \in S :
              <<d, e>> \in Pairs(S) /\ <<e, f>> \in Pairs(S) => e \in S \ T
  <1>1. T \subseteq S
    BY DEF Cut
  <1>2. ASSUME NEW d \in S \ T, NEW f \in S \ T, NEW e \in S, d < e, e < f, e \in T
        PROVE  FALSE
    <2>1. e < d \/ f < e
      BY <1>2 DEF Cut, Below
    <2> QED BY <1>2, <2>1
  <1>3. \A d, e : <<d, e>> \in Pairs(S) => d < e
    BY DEF Pairs
  <1> QED BY <1>1, <1>2, <1>3 DEF Pairs

\* The pairs with an event behind all others.
LEMMA PairsOfMore ==
  ASSUME NEW S, NEW t \in Nat, S \subseteq 1 .. t, NEW e \in Nat, t < e
  PROVE  Pairs(S \cup {e}) = Pairs(S) \cup (S \X {e})
  <1>1. \A d \in S : d \in Nat /\ d < e /\ ~(e < d)
    OBVIOUS
  <1>2. ~(e < e)
    OBVIOUS
  <1> QED BY <1>1, <1>2 DEF Pairs

\* Every step of the log records an event, spoils it, loses a stretch of the trail or leaves
\* the trail as it is.
LEMMA TrailStep ==
  ASSUME LogInv, LogInv', Said, Said', Next \/ PurgeStep \/ UNCHANGED vars
  PROVE  Trail!Next
  <1> DEFINE S == EventsOf(Kept)
  <1>1. /\ LogTypes /\ LogTypes' /\ QueueIsBehind /\ FilesInOrder /\ taken \in Nat
    BY DEF LogInv, LogTypes
  <1>2. S = Shown /\ S' = Shown' /\ ReadBefore = Pairs(S) /\ ReadBefore' = Pairs(S')
    BY DEF Said
  <1>3. S \subseteq 1 .. taken
    BY <1>1, <1>2 DEF Shown, Shows, FilesInOrder, Ordered
  <1>4. CASE taken < taken' /\ taken' \in Event /\ Shown' \in {Shown, Shown \cup {taken'}}
    <2> DEFINE e == taken'
    <2>1. e \in Nat
      BY <1>4, ConstantsAssumption DEF Event
    <2>2. CASE S' = S
      <3>1. Trail!Spoil(e)
        BY <1>2, <1>4, <2>1, <2>2 DEF Trail!Spoil
      <3> QED BY <1>4, <3>1 DEF Trail!Next
    <2>3. CASE S' = S \cup {e}
      <3>1. Pairs(S \cup {e}) = Pairs(S) \cup (S \X {e})
        BY <1>1, <1>3, <1>4, <2>1, PairsOfMore
      <3>2. Trail!Record(e)
        BY <1>2, <1>4, <2>1, <2>3, <3>1 DEF Trail!Record
      <3> QED BY <1>4, <3>2 DEF Trail!Next
    <2> QED BY <1>2, <1>4, <2>2, <2>3
  <1>5. CASE taken' = taken /\ Cut(Shown, Shown')
    <2> DEFINE T == S'
               X == S \ T
    <2>1. Cut(S, T) /\ S \subseteq Nat
      BY <1>2, <1>3, <1>5
    <2>2. /\ T = S \ X /\ Pairs(T) = Pairs(S) \cap (T \X T)
          /\ \A d, f \in X, e \in S : <<d, e>> \in Pairs(S) /\ <<e, f>> \in Pairs(S) => e \in X
      BY <2>1, PairsOfCut
    <2>3. Trail!Stretch(X)
      BY <1>2, <2>2 DEF Trail!Stretch
    <2>4. Trail!Lose(X)
      BY <1>2, <1>5, <2>2, <2>3 DEF Trail!Lose
    <2> QED BY <2>4 DEF Trail!Next
  <1> QED BY <1>1, <1>4, <1>5, ShownStep

\* The trail is empty at first.
LEMMA TrailStart ==
  ASSUME Init
  PROVE  Trail!Init
  <1>1. LogInv
    BY LogStart
  <1>2. Said
    BY <1>1, ReaderFinds
  <1>3. Renamed = <<>> /\ ActiveLines = <<>> /\ DOMAIN archives = {} /\ taken = 0
    <2>1. <<>> \o <<>> = <<>>
      BY EmptySeq, ConcatEmptySeq
    <2> QED BY <2>1, EmptySeq DEF Init, Renamed, ActiveLines
  <1>4. EventsOf(Kept) = {}
    BY <1>2, <1>3, NoHashes DEF Said, Shown, Shows
  <1>5. ReadBefore = {}
    BY <1>2, <1>4 DEF Said, Pairs
  <1> QED BY <1>3, <1>4, <1>5 DEF Trail!Init
-----------------------------------------------------------------------------
(* The behaviours *)

MCInv == LogInv /\ BundleInv

\* Both invariants hold at first.
LEMMA MCStart ==
  ASSUME MCInit
  PROVE  MCInv
  <1>1. LogInv
    BY LogStart DEF MCInit
  <1>2. /\ DOMAIN bundle = Fields /\ bundle.at = "none" /\ bundle.todo = {} /\ bundle.got = <<>>
        /\ bundle.sized = <<>> /\ bundle.calm = TRUE
    BY DEF MCInit, InitCommands, NoBundle, Fields
  <1>3. DOMAIN <<>> = {} /\ Len(<<>>) = 0
    BY EmptySeq
  <1>4. Alone
    BY DEF MCInit, Init, Alone
  <1>5. BundleTypes /\ GotInOrder /\ AllIsGot
    BY <1>2, <1>3 DEF BundleTypes, GotInOrder, AllIsGot
  <1> QED BY <1>1, <1>4, <1>5 DEF MCInv, BundleInv

\* Every step, of the log or of a command, keeps both.
LEMMA MCStep ==
  ASSUME MCInv, [MCNext]_allvars
  PROVE  MCInv'
  <1>0. UNCHANGED allvars => UNCHANGED vars /\ UNCHANGED bundle /\ part' = part
    BY DEF allvars, commands
  <1>1. CASE part = "log" /\ Next /\ UNCHANGED <<part, commands>>
    <2>1. LogNext /\ UNCHANGED bundle /\ part' = part
      BY <1>1 DEF LogNext, commands
    <2>2. LogInv'
      BY <2>1, LogInvStep DEF MCInv
    <2> QED BY <1>1, <2>1, <2>2, Watched DEF MCInv, LogInv
  <1>2. CASE part = "commands" /\ LogStep /\ Quiet /\ UNCHANGED part
    <2>1. LogNext /\ Watch
      BY <1>2 DEF LogNext, LogStep
    <2>2. LogInv'
      BY <2>1, LogInvStep DEF MCInv
    <2> DEFINE c == bundle.calm /\ ~(worker = "check" /\ worker' = "renamed")
                    /\ DOMAIN archives \subseteq DOMAIN archives'
    <2>3. c \in BOOLEAN /\ bundle' = [bundle EXCEPT !.calm = c]
      BY <2>1 DEF Watch
    <2> QED BY <1>2, <2>1, <2>2, <2>3, Watched DEF MCInv, LogInv
  <1>3. CASE part = "commands" /\ PurgeStep /\ Quiet /\ UNCHANGED part
    <2>1. LogNext /\ bundle' = [bundle EXCEPT !.calm = FALSE]
      BY <1>3, PurgeIsPurged DEF LogNext, PurgeStep
    <2>2. LogInv'
      BY <2>1, LogInvStep DEF MCInv
    <2> QED BY <1>3, <2>1, <2>2, Watched DEF MCInv, LogInv
  <1>4. CASE part = "commands" /\ BundleStep /\ UNCHANGED part
    <2>1. ArchiveLogs /\ UNCHANGED vars
      BY <1>4 DEF BundleStep
    <2>2. LogInv'
      BY <2>1, LogInvStep DEF MCInv
    <2> QED BY <1>4, <2>1, <2>2, CommandStep DEF MCInv
  <1>5. CASE UNCHANGED allvars
    <2>1. LogInv'
      BY <1>0, <1>5, LogInvStep DEF MCInv
    <2> QED BY <1>0, <1>5, <2>1, Watched DEF MCInv, LogInv
  <1> QED BY <1>1, <1>2, <1>3, <1>4, <1>5 DEF MCNext, NextCommands

\* The inductive invariant holds: what the log has on disk, whatever is rotated, crashes or
\* starts again, and what a command that reads it has seen so far.
THEOREM Invariance == MCSpec => []MCInv
  <1>1. MCInit => MCInv
    BY MCStart
  <1>2. MCInv /\ [MCNext]_allvars => MCInv'
    BY MCStep
  <1> QED BY <1>1, <1>2, PTL DEF MCSpec
-----------------------------------------------------------------------------

\* As long as nothing went wrong with the log's files and nothing was purged, the log is
\* whole, whatever is rotated and restarted: it has all events that were counted as
\* written, those accepted before Close returned among them, and the verifier has nothing
\* to say of it unless the CLI wrote to it (log.go, rotation.go, chain_verify.go).
THEOREM LogIsWhole == MCSpec => []WholeLog
  <1>1. MCInv => WholeLog
    BY Whole DEF MCInv
  <1> QED BY <1>1, Invariance, PTL

\* A verification that finds nothing to say has seen every event of the manifests; what it
\* accepts, `logs verify` accepts; and a bundle that was reported as done shows the events
\* in their order and, if no file went meanwhile, all that was there when it was begun
\* (chain_verify.go, manifest.go, rotation.go, tar.go).
THEOREM ReadersSeeWhatIs == MCSpec => []ReadersAreRight
  <1>1. MCInv => ReadersAreRight
    BY Honest, Stricter, Bundled DEF MCInv, ReadersAreRight
  <1> QED BY <1>1, Invariance, PTL

\* The files implement the trail of AuditTrail: whatever is rotated, torn, crashes, starts
\* again or is purged, events come to be read in the order in which they were taken, none
\* is read twice or comes back, and those that are lost lay behind one another (log.go,
\* rotation.go, diskpressure.go).
THEOREM OrderIsKept == MCSpec => KeepsOrder
  <1>1. MCInit => Trail!Init
    BY TrailStart DEF MCInit
  <1>2. MCInv => Said
    BY ReaderFinds DEF MCInv
  <1>3. MCInv /\ MCInv' /\ Said /\ Said' /\ [MCNext]_allvars
          => [Trail!Next]_<<EventsOf(Kept), ReadBefore, taken>>
    <2> SUFFICES ASSUME MCInv, MCInv', Said, Said', [MCNext]_allvars
                 PROVE  Trail!Next
      OBVIOUS
    <2>1. Next \/ PurgeStep \/ UNCHANGED vars
      BY DEF MCNext, NextCommands, LogStep, BundleStep, allvars
    <2> QED BY <2>1, TrailStep DEF MCInv
  <1> QED BY <1>1, <1>2, <1>3, Invariance, PTL DEF MCSpec, KeepsOrder, Trail!Spec
=============================================================================
