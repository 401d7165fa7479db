---------------------------- MODULE WindowsProofs ----------------------------
(***************************************************************************)
(* Proofs about the windows that end by themselves: pauses, for any number   *)
(* of commands, requests, rows and instants, then tasks, for any owners,     *)
(* callers, rows and instants, then both.  Inv and TaskInv are inductive;    *)
(* that one window is open at a time holds when no two calls that open one   *)
(* overlap (OneStarter, of each kind).                                       *)
(***************************************************************************)
EXTENDS MCWindows, WellFoundedInduction, FiniteSetTheorems, TLAPS
-----------------------------------------------------------------------------
(* Pauses: the invariant *)

\* The rows that were not inserted are blank, and the others have an end.
Blank == \A p \in Ids : IF p > count THEN pauses[p] = NoPause ELSE pauses[p].ends > 0

\* What a lookup left open when it expired the rows past due has time left.
TimeLeft(a) ==
    /\ loc[a].swept <= count
    /\ a \in Starters /\ ~ At(a, "idle") => loc[a].ends > 0
    /\ At(a, "select") =>
         \A p \in 1 .. loc[a].swept : Open(p) => pauses[p].ends > loc[a].now
    /\ Looked(a) /\ loc[a].active \in 1 .. loc[a].swept =>
         pauses[loc[a].active].ends > loc[a].now

\* Requests that have swapped the window they saw for the last one, and have
\* not told yet: those that will open a window, and those that will close it.
Emitting   == {q \in Requests : At(q, "emit")}
Opening(p) == {q \in Emitting : loc[q].active = p}
Closing(p) == {q \in Emitting : loc[q].prev = p}

\* With these counted in, the window last seen is the one that is open in the trail.
Balanced ==
    \A p \in Ids :
      net[p] + Cardinality(Opening(p)) - Cardinality(Closing(p))
        = IF p = lastSeen THEN 1 ELSE 0

Inv == TypeOK /\ Blank /\ (\A a \in Actors : TimeLeft(a)) /\ Balanced

\* An actor that holds nothing yet.
LEMMA IdleFacts ==
    ASSUME ConstantsAssumption
    PROVE  /\ Idle \in Locals /\ NoPause \in Rows
           /\ Idle.at = "idle" /\ Idle.swept = 0 /\ Idle.active = NoId
           /\ NoPause.ended = 0
  BY DEF ConstantsAssumption, Idle, Locals, NoId, NoPause, Rows

LEMMA InitInv == ASSUME ConstantsAssumption PROVE Init => Inv
  <1> SUFFICES ASSUME Init PROVE Inv
    OBVIOUS
  <1>1. TypeOK
    BY IdleFacts DEF ConstantsAssumption, Init, TypeOK, NoId
  <1>2. Blank
    BY DEF Init, Blank, Ids
  <1>3. ASSUME NEW a \in Actors PROVE TimeLeft(a)
    <2>1. loc[a] = Idle /\ count = 0
      BY DEF Init
    <2> QED
      BY <2>1, IdleFacts DEF TimeLeft, At, Looked
  <1>4. Emitting = {}
    BY IdleFacts DEF Init, Emitting, At, Actors
  <1>5. ASSUME NEW p \in Ids PROVE Opening(p) = {} /\ Closing(p) = {}
    BY <1>4 DEF Opening, Closing
  <1>6. Balanced
    <2>1. lastSeen = 0 /\ \A p \in Ids : net[p] = 0 /\ p # 0
      BY DEF Init, Ids, NoId
    <2> QED
      BY <1>5, <2>1, FS_EmptySet DEF Balanced
  <1> QED
    BY <1>1, <1>2, <1>3, <1>6 DEF Inv

\* What the types say of one actor and of the rows.
LEMMA TypesOf ==
    ASSUME TypeOK
    PROVE  /\ clock \in Nat /\ count \in Nat /\ count <= MaxPauses
           /\ \A p \in Ids : pauses[p] \in Rows
           /\ \A a \in Actors : /\ loc[a] \in Locals
                                /\ loc[a].now \in 0 .. MaxTime /\ loc[a].now \in Nat
                                /\ loc[a].swept \in 0 .. MaxPauses /\ loc[a].swept \in Nat
                                /\ loc[a].active \in {NoId} \cup Ids
                                /\ loc[a].prev \in {NoId} \cup Ids
                                /\ loc[a].ends \in Nat
  <1>1. clock \in Nat /\ count \in Nat /\ count <= MaxPauses
    BY DEF TypeOK
  <1>2. \A p \in Ids : pauses[p] \in Rows
    BY DEF TypeOK
  <1>3. ASSUME NEW a \in Actors PROVE loc[a] \in Locals
    BY DEF TypeOK
  <1>4. ASSUME NEW l \in Locals
        PROVE  /\ l.now \in 0 .. MaxTime /\ l.swept \in 0 .. MaxPauses /\ l.ends \in Nat
               /\ l.active \in {NoId} \cup Ids /\ l.prev \in {NoId} \cup Ids
    BY DEF Locals
  <1>5. ASSUME NEW l \in Locals PROVE l.now \in Nat /\ l.swept \in Nat
    BY <1>4
  <1> QED
    BY <1>1, <1>2, <1>3, <1>4, <1>5

\* The counts depend on the requests that emit, and on nothing else.
LEMMA BalanceStays ==
    ASSUME Inv, UNCHANGED <<net, lastSeen>>,
           \A q \in Requests :
             \/ loc'[q] = loc[q]
             \/ ~ At(q, "emit") /\ ~ At(q, "emit")'
    PROVE  Balanced'
  <1>1. \A p : Opening(p)' = Opening(p) /\ Closing(p)' = Closing(p)
    BY DEF Opening, Closing, Emitting, At
  <1> QED
    BY <1>1 DEF Inv, Balanced

\* Rows may end and be added: what had time left when it was looked at still has.
LEMMA TimeStays ==
    ASSUME Inv, NEW a \in Actors, loc'[a] = loc[a], count' \in Nat, count <= count',
           \A p \in 1 .. count : pauses'[p].ends = pauses[p].ends /\ (Open(p)' => Open(p))
    PROVE  TimeLeft(a)'
  <1>1. TimeLeft(a) /\ loc[a].swept \in Nat /\ count \in Nat
    BY TypesOf DEF Inv
  <1>2. \A p \in 1 .. loc[a].swept : p \in 1 .. count
    BY <1>1 DEF TimeLeft
  <1>3. loc[a].swept <= count'
    BY <1>1 DEF TimeLeft
  <1> QED
    BY <1>1, <1>2, <1>3 DEF TimeLeft, At, Looked

\* One actor moves on and touches nothing but its own locals.
LEMMA OneActorMoves ==
    ASSUME Inv, NEW a \in Actors, NEW l \in Locals, loc' = [loc EXCEPT ![a] = l],
           UNCHANGED <<pauses, count, audit>>, clock' \in 1 .. MaxTime,
           TimeLeft(a)', ~ At(a, "emit"), l.at # "emit"
    PROVE  Inv'
  <1>1. /\ loc' \in [Actors -> Locals] /\ loc'[a] = l
        /\ \A b \in Actors \ {a} : loc'[b] = loc[b]
    BY DEF Inv, TypeOK
  <1>2. TypeOK'
    BY <1>1 DEF Inv, TypeOK, audit
  <1>3. Blank'
    BY DEF Inv, Blank
  <1>4. ASSUME NEW b \in Actors PROVE TimeLeft(b)'
    <2>1. CASE b = a
      BY <2>1
    <2>2. CASE b # a
      BY <2>2, <1>1, TimeStays DEF Inv, TypeOK, Open
    <2> QED
      BY <2>1, <2>2
  <1>5. Balanced'
    BY <1>1, BalanceStays DEF audit, At, Actors
  <1> QED
    BY <1>2, <1>3, <1>4, <1>5 DEF Inv
-----------------------------------------------------------------------------
(* GetActivePause *)

\* A finite set of numbers has a greatest one.
LEMMA GreatestExists ==
    ASSUME NEW S, S \subseteq Nat, IsFiniteSet(S), S # {}
    PROVE  \E x \in S : \A y \in S : y <= x
  <1> DEFINE Above(x) == {y \in S : y > x}
             Uppers == {Above(x) : x \in S}
             R == StrictSubsetOrdering(S)
  <1>1. Uppers \subseteq SUBSET S /\ Uppers # {}
    OBVIOUS
  <1>2. IsWellFoundedOn(R, SUBSET S)
    BY FS_StrictSubsetOrderingWellFounded, FS_FiniteSubsetsOfFinite
  <1>3. PICK U \in Uppers : \A V \in Uppers : ~ (<<V, U>> \in R)
    <2> HIDE DEF Uppers, R
    <2> QED BY <1>1, <1>2, WFMin
  <1>4. PICK x \in S : U = Above(x)
    OBVIOUS
  <1>5. ASSUME NEW z \in S, z > x PROVE FALSE
    <2>0. x \in Int /\ z \in Int /\ S \subseteq Int
      OBVIOUS
    <2>5. \A w \in S : w > z => w > x
      BY <1>5, <2>0
    <2>b. Above(z) \subseteq Above(x)
      BY <2>5
    <2>c. z \in Above(x)
      BY <1>5
    <2>d. z \notin Above(z)
      BY <2>0
    <2>1. Above(z) # Above(x)
      BY <2>c, <2>d
    <2>2. <<Above(z), Above(x)>> \in R
      BY <2>1, <2>b DEF StrictSubsetOrdering
    <2> QED
      BY <1>3, <1>4, <2>2
  <1>6. \A z \in S : z <= x
    BY <1>5
  <1> QED
    BY <1>6

\* The newest open row is one of those there are, and there is one if any is open.
LEMMA NewestIsOpen ==
    ASSUME ConstantsAssumption
    PROVE  /\ Newest # NoId => Newest \in Ids /\ Open(Newest)
           /\ Newest = NoId => \A p \in Ids : ~ Open(p)
  <1> DEFINE S == {p \in Ids : Open(p)}
  <1>1. S \subseteq Nat /\ IsFiniteSet(S) /\ NoId \notin S
    BY FS_Interval, FS_Subset DEF Ids, NoId, ConstantsAssumption
  <1>2. CASE S = {}
    BY <1>2 DEF Newest
  <1>3. CASE S # {}
    <2>1. PICK p \in S : \A q \in S : q <= p
      BY <1>1, <1>3, GreatestExists
    <2>2. Newest \in Ids /\ Open(Newest)
      BY <2>1 DEF Newest
    <2> QED
      BY <1>1, <2>2
  <1> QED
    BY <1>2, <1>3

LEMMA BeginInv ==
    ASSUME ConstantsAssumption, Inv, NEW a \in Actors, NEW ends \in Nat, Begin(a, ends),
           a \in Starters => ends > 0
    PROVE  Inv'
  <1> DEFINE l == [Idle EXCEPT !.at = "gc", !.now = clock, !.ends = ends]
  <1>1. clock \in 0 .. MaxTime
    BY DEF Inv, TypeOK
  <1>2. l \in Locals /\ l.at = "gc" /\ l.swept = 0 /\ l.active = NoId /\ l.ends = ends
    BY <1>1, IdleFacts DEF Locals, Idle
  <1>3. loc'[a] = l /\ UNCHANGED <<clock, pauses, count, audit>> /\ loc' = [loc EXCEPT ![a] = l]
    BY DEF Begin, Inv, TypeOK, table
  <1> HIDE DEF l
  <1>4. TimeLeft(a)'
    BY <1>2, <1>3, TypesOf DEF Inv, TimeLeft, At, Looked
  <1> QED
    BY <1>2, <1>3, <1>4, OneActorMoves DEF Begin, At, Inv, TypeOK

\* Where an answer of GetActivePause takes its caller.
LEMMA ContinueMeans ==
    ASSUME ConstantsAssumption, Inv, NEW a \in Actors, NEW p \in {NoId} \cup Ids,
           Continue(a, p)
    PROVE  \E l \in Locals :
             /\ loc' = [loc EXCEPT ![a] = l]
             /\ l.at \in {"idle", "insert", "update", "observe"}
             /\ l.swept \in {0, loc[a].swept}
             /\ l.at # "idle" => l.ends = loc[a].ends
             /\ l.at = "insert" => a \in Starters /\ p = NoId
             /\ l.at = "observe" => /\ l.active = p
                                   /\ l.swept = loc[a].swept /\ l.now = loc[a].now
  <1>0. loc \in [Actors -> Locals]
    BY DEF Inv, TypeOK
  <1>1. CASE a \in Starters /\ p = NoId
    <2> DEFINE l == [loc[a] EXCEPT !.at = "insert"]
    <2>1. l \in Locals /\ l.at = "insert" /\ l.swept = loc[a].swept
          /\ l.ends = loc[a].ends
      BY <1>0 DEF Locals
    <2>2. loc' = [loc EXCEPT ![a] = l]
      BY <1>1, <1>0 DEF Continue, ConstantsAssumption
    <2> QED
      BY <2>1, <2>2, <1>1
  <1>2. CASE a \in Stoppers /\ p # NoId
    <2> DEFINE l == [loc[a] EXCEPT !.at = "update", !.active = p]
    <2>1. l \in Locals /\ l.at = "update" /\ l.swept = loc[a].swept
          /\ l.ends = loc[a].ends
      BY <1>0 DEF Locals
    <2>2. loc' = [loc EXCEPT ![a] = l]
      BY <1>2, <1>0 DEF Continue, ConstantsAssumption
    <2> QED
      BY <2>1, <2>2
  <1>3. CASE a \in Requests
    <2> DEFINE l == [loc[a] EXCEPT !.at = "observe", !.active = p]
    <2>1. l \in Locals /\ l.at = "observe" /\ l.active = p /\ l.swept = loc[a].swept
          /\ l.now = loc[a].now /\ l.ends = loc[a].ends
      BY <1>0 DEF Locals
    <2>2. loc' = [loc EXCEPT ![a] = l]
      BY <1>3, <1>0 DEF Continue, ConstantsAssumption
    <2> QED
      BY <2>1, <2>2, <1>3
  <1>4. CASE /\ ~ (a \in Starters /\ p = NoId) /\ ~ (a \in Stoppers /\ p # NoId)
             /\ a \notin Requests
    BY <1>4, IdleFacts DEF Continue, Leave
  <1> QED
    BY <1>1, <1>2, <1>3, <1>4

\* A window that was open when it was selected, and in the table when the due
\* ones were expired, has time left.
LEMMA SelectInv ==
    ASSUME ConstantsAssumption, Inv, NEW a \in Actors, Select(a) PROVE Inv'
  <1>1. Newest \in {NoId} \cup Ids /\ (Newest # NoId => Open(Newest))
    BY NewestIsOpen
  <1>2. Continue(a, Newest) /\ At(a, "select") /\ UNCHANGED <<clock, pauses, count, audit>>
    BY DEF Select, table
  <1>3. PICK l \in Locals :
          /\ loc' = [loc EXCEPT ![a] = l]
          /\ l.at \in {"idle", "insert", "update", "observe"}
          /\ l.swept \in {0, loc[a].swept}
          /\ l.at # "idle" => l.ends = loc[a].ends
          /\ l.at = "observe" => /\ l.active = Newest
                                /\ l.swept = loc[a].swept /\ l.now = loc[a].now
    BY <1>1, <1>2, ContinueMeans
  <1>4. loc'[a] = l
    BY <1>3 DEF Inv, TypeOK
  <1>5. TimeLeft(a) /\ loc[a].swept \in Nat /\ count \in Nat
    BY TypesOf DEF Inv
  <1>6. l.swept <= count
    BY <1>3, <1>5 DEF TimeLeft
  <1>7. Newest \in 1 .. loc[a].swept => pauses[Newest].ends > loc[a].now
    <2>1. 0 \notin 1 .. loc[a].swept
      BY <1>5
    <2> QED
      BY <1>1, <1>2, <1>5, <2>1 DEF TimeLeft, NoId
  <1>8. TimeLeft(a)'
    BY <1>2, <1>3, <1>4, <1>5, <1>6, <1>7 DEF TimeLeft, At, Looked
  <1>9. clock' \in 1 .. MaxTime /\ ~ At(a, "emit") /\ l.at # "emit"
    BY <1>2, <1>3 DEF Inv, TypeOK, At
  <1> QED
    BY <1>2, <1>3, <1>8, <1>9, OneActorMoves

\* An actor that has done what it came for forgets everything.
LEMMA LeaveInv ==
    ASSUME ConstantsAssumption, Inv, NEW a \in Actors, Leave(a), ~ At(a, "emit"),
           UNCHANGED <<clock, table, audit>>
    PROVE  Inv'
  <1>1. loc'[a] = Idle /\ loc' = [loc EXCEPT ![a] = Idle]
    BY DEF Leave, Inv, TypeOK
  <1>2. TimeLeft(a)'
    BY <1>1, IdleFacts, TypesOf DEF Inv, TimeLeft, At, Looked, table
  <1>3. clock' \in 1 .. MaxTime
    BY DEF Inv, TypeOK
  <1> QED
    BY <1>1, <1>2, <1>3, IdleFacts, OneActorMoves DEF table

\* A lookup that fails found nothing.
LEMMA LookupFailsInv ==
    ASSUME ConstantsAssumption, Inv, NEW a \in Actors, LookupFails(a) PROVE Inv'
  <1>1. At(a, "gc") \/ At(a, "select")
    BY DEF LookupFails
  <1>2. UNCHANGED <<clock, pauses, count, audit>>
    BY DEF LookupFails, table
  <1>3. CASE a \notin Requests
    <2>1. Leave(a)
      BY <1>3 DEF LookupFails
    <2> QED
      BY <1>1, <1>2, <2>1, LeaveInv DEF At, table
  <1>4. CASE a \in Requests
    <2>1. PICK l \in Locals :
            /\ loc' = [loc EXCEPT ![a] = l]
            /\ l.at \in {"idle", "insert", "update", "observe"}
            /\ l.swept \in {0, loc[a].swept}
            /\ l.at # "idle" => l.ends = loc[a].ends
            /\ l.at = "observe" => l.active = NoId
      BY <1>4, ContinueMeans DEF LookupFails
    <2>2. loc'[a] = l
      BY <2>1 DEF Inv, TypeOK
    <2>3. TimeLeft(a) /\ loc[a].swept \in Nat /\ count \in Nat
      BY TypesOf DEF Inv
    <2>4. l.swept <= count /\ NoId \notin 1 .. l.swept
      BY <2>1, <2>3 DEF TimeLeft, NoId
    <2>5. TimeLeft(a)'
      BY <1>1, <1>2, <2>1, <2>2, <2>3, <2>4 DEF TimeLeft, At, Looked
    <2>6. clock' \in 1 .. MaxTime /\ ~ At(a, "emit") /\ l.at # "emit"
      BY <1>1, <1>2, <2>1 DEF Inv, TypeOK, At
    <2> QED
      BY <1>2, <2>1, <2>5, <2>6, OneActorMoves
  <1> QED
    BY <1>3, <1>4

\* Time passes.
LEMMA TickInv == ASSUME ConstantsAssumption, Inv, Tick PROVE Inv'
  <1>1. UNCHANGED <<pauses, count, loc, lastSeen, net>>
    BY DEF Tick, table, audit
  <1>2. clock \in 1 .. MaxTime /\ clock < MaxTime /\ clock' = clock + 1
    BY DEF Tick, Inv, TypeOK
  <1>3. clock' \in 1 .. MaxTime
    BY <1>2 DEF ConstantsAssumption
  <1>4. TypeOK' /\ Blank'
    BY <1>1, <1>3 DEF Inv, TypeOK, Blank
  <1>5. \A a \in Actors : TimeLeft(a)'
    BY <1>1, TimeStays, TypesOf DEF Inv, Open
  <1>6. Balanced'
    BY <1>1, BalanceStays
  <1> QED
    BY <1>4, <1>5, <1>6 DEF Inv

\* The rows past due take their own end; what stays open has time left.
LEMMA ExpireDueInv ==
    ASSUME ConstantsAssumption, Inv, NEW a \in Actors, ExpireDue(a) PROVE Inv'
  <1> DEFINE l == [loc[a] EXCEPT !.at = "select", !.swept = count]
  <1>1. l \in Locals /\ l.at = "select" /\ l.swept = count /\ l.now = loc[a].now
        /\ l.ends = loc[a].ends
    <2>1. loc[a] \in Locals /\ count \in 0 .. MaxPauses
      BY TypesOf DEF Inv, TypeOK
    <2> QED
      BY <2>1 DEF Locals
  <1>2. loc' = [loc EXCEPT ![a] = l] /\ At(a, "gc") /\ UNCHANGED <<clock, count, audit>>
    BY DEF ExpireDue, Inv, TypeOK
  <1>3. loc' \in [Actors -> Locals] /\ loc'[a] = l /\ \A b \in Actors \ {a} : loc'[b] = loc[b]
    BY <1>1, <1>2 DEF Inv, TypeOK
  <1> HIDE DEF l
  <1>4. ASSUME NEW p \in Ids
        PROVE  /\ pauses'[p] \in Rows /\ pauses'[p].ends = pauses[p].ends
               /\ Due(p, loc[a].now) => pauses'[p].ended = pauses[p].ends
               /\ ~ Due(p, loc[a].now) => pauses'[p] = pauses[p]
    <2>1. pauses[p] \in Rows
      BY TypesOf DEF Inv
    <2>2. CASE Due(p, loc[a].now)
      <3>1. pauses'[p] = [pauses[p] EXCEPT !.ended = pauses[p].ends, !.kind = "expired"]
        BY <2>2 DEF ExpireDue
      <3> QED
        BY <2>1, <2>2, <3>1 DEF Rows
    <2>3. CASE ~ Due(p, loc[a].now)
      BY <2>1, <2>3 DEF ExpireDue
    <2> QED
      BY <2>2, <2>3
  <1>5. TypeOK'
    <2>1. pauses' \in [Ids -> Rows]
      BY <1>4 DEF ExpireDue
    <2> QED
      BY <1>2, <1>3, <2>1 DEF Inv, TypeOK, audit
  <1>6. Blank'
    <2>1. ASSUME NEW p \in Ids, p > count PROVE ~ Due(p, loc[a].now)
      BY <2>1, TypesOf DEF Due, Open, Inv, Ids
    <2> QED
      BY <1>2, <1>4, <2>1 DEF Inv, Blank
  <1>7. ASSUME NEW p \in Ids, Open(p)'
        PROVE  Open(p) /\ ~ Due(p, loc[a].now)
    <2>1. p \in 1 .. count /\ pauses'[p].ended = 0
      BY <1>2, <1>7 DEF Open
    <2>2. pauses[p].ends > 0
      BY <2>1, TypesOf DEF Inv, Blank, Ids
    <2> QED
      BY <1>4, <2>1, <2>2 DEF Open
  <1>8. \A p : p \in 1 .. count => p \in Ids
    BY TypesOf DEF Inv, Ids, ConstantsAssumption
  <1>9. ASSUME NEW b \in Actors PROVE TimeLeft(b)'
    <2>1. CASE b # a
      <3>1. \A p \in 1 .. count : pauses'[p].ends = pauses[p].ends /\ (Open(p)' => Open(p))
        BY <1>4, <1>7, <1>8
      <3> QED
        BY <1>2, <1>3, <2>1, <3>1, TimeStays, TypesOf DEF Inv
    <2>2. CASE b = a
      <3>1. ASSUME NEW p \in 1 .. count, Open(p)' PROVE pauses'[p].ends > loc[a].now
        <4>1. p \in Ids /\ Open(p) /\ ~ Due(p, loc[a].now)
          BY <1>7, <1>8, <3>1
        <4>2. pauses[p].ends \in Nat /\ loc[a].now \in Nat
          BY <4>1, TypesOf DEF Inv, Rows
        <4> QED
          BY <1>4, <4>1, <4>2 DEF Due
      <3>2. a \in Starters => loc[a].ends > 0
        BY <1>2 DEF Inv, TimeLeft, At
      <3>3. count <= count
        BY TypesOf DEF Inv
      <3> QED
        BY <1>1, <1>2, <1>3, <2>2, <3>1, <3>2, <3>3 DEF TimeLeft, At, Looked
    <2> QED
      BY <2>1, <2>2
  <1>10. Balanced'
    BY <1>1, <1>2, <1>3, BalanceStays DEF audit, At, Actors
  <1> QED
    BY <1>5, <1>6, <1>9, <1>10 DEF Inv
-----------------------------------------------------------------------------
(* StartPause and EndPause *)

\* A row is added behind the others.
LEMMA InsertPauseInv ==
    ASSUME ConstantsAssumption, Inv, NEW c \in Starters, InsertPause(c) PROVE Inv'
  <1>1. c \in Actors /\ count \in Nat /\ count < MaxPauses /\ count' = count + 1
        /\ At(c, "insert") /\ UNCHANGED <<clock, audit>>
    BY TypesOf DEF Inv, InsertPause, Actors
  <1>2. count + 1 \in Ids /\ count' \in 0 .. MaxPauses
    BY <1>1 DEF Ids, ConstantsAssumption
  <1>3. loc[c].ends \in Nat /\ loc[c].ends > 0
    BY <1>1, TypesOf DEF Inv, TimeLeft, At
  <1> DEFINE new == [NoPause EXCEPT !.ends = loc[c].ends]
  <1>4. new \in Rows /\ new.ends = loc[c].ends
    BY <1>3 DEF Rows, NoPause
  <1>5. /\ pauses' \in [Ids -> Rows] /\ pauses'[count + 1] = new
        /\ \A p \in Ids \ {count + 1} : pauses'[p] = pauses[p]
    BY <1>2, <1>4 DEF InsertPause, Inv, TypeOK
  <1>6. loc' \in [Actors -> Locals] /\ loc'[c] = Idle
        /\ \A b \in Actors \ {c} : loc'[b] = loc[b]
    BY <1>1, IdleFacts DEF InsertPause, Leave, Inv, TypeOK
  <1> HIDE DEF new
  <1>7. TypeOK'
    BY <1>1, <1>2, <1>5, <1>6 DEF Inv, TypeOK, audit
  <1>8. Blank'
    BY <1>1, <1>3, <1>4, <1>5 DEF Inv, Blank, Ids
  <1>9. ASSUME NEW b \in Actors PROVE TimeLeft(b)'
    <2>1. CASE b # c
      <3>1. ASSUME NEW p \in 1 .. count
            PROVE  pauses'[p].ends = pauses[p].ends /\ (Open(p)' => Open(p))
        <4>1. p \in Ids /\ p # count + 1
          BY <1>1 DEF Ids, ConstantsAssumption
        <4> QED
          BY <1>5, <4>1 DEF Open
      <3> QED
        BY <1>1, <1>6, <2>1, <3>1, TimeStays
    <2>2. CASE b = c
      BY <1>1, <1>6, <2>2, IdleFacts DEF TimeLeft, At, Looked
    <2> QED
      BY <2>1, <2>2
  <1>10. Balanced'
    <2>1. c \notin Requests
      BY DEF ConstantsAssumption
    <2> QED
      BY <1>1, <1>6, <2>1, BalanceStays DEF audit, Actors
  <1> QED
    BY <1>7, <1>8, <1>9, <1>10 DEF Inv

\* An open row is closed, and the row of an ended window stays as it is.
LEMMA UpdatePauseInv ==
    ASSUME ConstantsAssumption, Inv, NEW c \in Stoppers, UpdatePause(c) PROVE Inv'
  <1> DEFINE l == [loc[c] EXCEPT !.at = "report"]
  <1>1. c \in Actors /\ c \notin Requests /\ c \notin Starters /\ loc[c] \in Locals
    BY TypesOf DEF Inv, Actors, ConstantsAssumption
  <1>2. l \in Locals /\ l.at = "report" /\ l.swept = loc[c].swept
    BY <1>1 DEF Locals
  <1>3. loc' = [loc EXCEPT ![c] = l] /\ UNCHANGED <<clock, count, audit>>
    BY <1>1 DEF UpdatePause, Goto, Inv, TypeOK
  <1>4. loc' \in [Actors -> Locals] /\ loc'[c] = l /\ \A b \in Actors \ {c} : loc'[b] = loc[b]
    BY <1>1, <1>2, <1>3 DEF Inv, TypeOK
  <1> HIDE DEF l
  <1>5. /\ pauses' \in [Ids -> Rows]
        /\ \A p \in Ids : /\ pauses'[p].ends = pauses[p].ends
                          /\ pauses'[p] = pauses[p] \/ Open(p)
    <2>1. CASE ~ Open(loc[c].active)
      BY <2>1 DEF UpdatePause, Inv, TypeOK
    <2>2. CASE Open(loc[c].active)
      <3> DEFINE p == loc[c].active
                 new == [pauses[p] EXCEPT !.ended = clock, !.kind = "resumed_early"]
      <3>1. p \in Ids /\ pauses[p] \in Rows /\ clock \in Nat
        BY <1>1, <2>2, TypesOf DEF Inv, Open, NoId
      <3>2. new \in Rows /\ new.ends = pauses[p].ends /\ new.ended = clock
        BY <3>1 DEF Rows
      <3>3. pauses' = [pauses EXCEPT ![p] = new]
        BY <2>2 DEF UpdatePause
      <3> HIDE DEF new, p
      <3>4. pauses' \in [Ids -> Rows] /\ pauses'[p] = new /\ \A q \in Ids \ {p} : pauses'[q] = pauses[q]
        BY <3>1, <3>2, <3>3 DEF Inv, TypeOK
      <3> QED
        BY <2>2, <3>2, <3>4 DEF p
    <2> QED
      BY <2>1, <2>2
  <1>6. TypeOK'
    BY <1>3, <1>4, <1>5 DEF Inv, TypeOK, audit
  <1>7. Blank'
    <2>1. ASSUME NEW p \in Ids
          PROVE  IF p > count THEN pauses'[p] = NoPause ELSE pauses'[p].ends > 0
      <3>1. p > count => ~ Open(p)
        BY TypesOf DEF Open, Inv, Ids
      <3>2. IF p > count THEN pauses[p] = NoPause ELSE pauses[p].ends > 0
        BY DEF Inv, Blank
      <3> QED
        BY <1>5, <3>1, <3>2
    <2> QED
      BY <1>3, <2>1 DEF Blank
  <1>8. ASSUME NEW p \in 1 .. count
        PROVE  pauses'[p].ends = pauses[p].ends /\ (Open(p)' => Open(p))
    <2>1. p \in Ids
      BY TypesOf DEF Inv, Ids, ConstantsAssumption
    <2>2. pauses'[p].ends = pauses[p].ends
      BY <1>5, <2>1
    <2>3. pauses'[p] = pauses[p] \/ Open(p)
      BY <1>5, <2>1
    <2> QED
      BY <1>3, <2>2, <2>3 DEF Open
  <1>9. ASSUME NEW b \in Actors PROVE TimeLeft(b)'
    <2>1. CASE b # c
      BY <1>3, <1>4, <1>8, <2>1, TimeStays, TypesOf DEF Inv
    <2>2. CASE b = c
      <3>1. loc[c].swept <= count
        BY <1>1 DEF Inv, TimeLeft
      <3> QED
        BY <1>1, <1>2, <1>3, <1>4, <2>2, <3>1 DEF TimeLeft, At, Looked
    <2> QED
      BY <2>1, <2>2
  <1>10. Balanced'
    BY <1>1, <1>3, <1>4, BalanceStays DEF audit, Actors
  <1> QED
    BY <1>6, <1>7, <1>9, <1>10 DEF Inv
-----------------------------------------------------------------------------
(* A request observes the transition *)

\* The counts are numbers.
LEMMA CountsAreFinite ==
    ASSUME ConstantsAssumption
    PROVE  /\ \A p : IsFiniteSet(Opening(p)) /\ IsFiniteSet(Closing(p))
           /\ \A p : Cardinality(Opening(p)) \in Nat /\ Cardinality(Closing(p)) \in Nat
  <1>1. ASSUME NEW p
        PROVE  Opening(p) \in SUBSET Requests /\ Closing(p) \in SUBSET Requests
    BY DEF Opening, Closing, Emitting
  <1> QED
    BY <1>1, FS_Subset, FS_CardinalityType DEF ConstantsAssumption

\* A step of a request that has looked, to another place where it has.
LEMMA LookedMoves ==
    ASSUME ConstantsAssumption, Inv, NEW q \in Requests, Looked(q), NEW l \in Locals,
           l.swept = loc[q].swept, l.now = loc[q].now, l.active = loc[q].active,
           l.at \in {"emit", "evaluate"}, loc' = [loc EXCEPT ![q] = l],
           UNCHANGED <<clock, pauses, count>>, lastSeen' \in {NoId} \cup Ids,
           net' \in [Ids -> Int]
    PROVE  /\ TypeOK' /\ Blank' /\ (\A a \in Actors : TimeLeft(a)')
           /\ loc'[q] = l /\ \A a \in Actors \ {q} : loc'[a] = loc[a]
  <1>1. q \in Actors /\ q \notin Starters
    BY DEF Actors, ConstantsAssumption
  <1>2. loc' \in [Actors -> Locals] /\ loc'[q] = l /\ \A a \in Actors \ {q} : loc'[a] = loc[a]
    BY <1>1 DEF Inv, TypeOK
  <1>3. TypeOK' /\ Blank'
    BY <1>2 DEF Inv, TypeOK, Blank
  <1>4. ASSUME NEW a \in Actors PROVE TimeLeft(a)'
    <2>1. CASE a = q
      <3>1. TimeLeft(q)
        BY <1>1 DEF Inv
      <3> QED
        BY <1>1, <1>2, <2>1, <3>1 DEF TimeLeft, At, Looked
    <2>2. CASE a # q
      BY <1>2, <2>2, TimeStays, TypesOf DEF Inv, Open
    <2> QED
      BY <2>1, <2>2
  <1> QED
    BY <1>2, <1>3, <1>4

\* A request that sees another window than the one before it joins those that emit.
LEMMA SwapInv ==
    ASSUME ConstantsAssumption, Inv, NEW q \in Requests, Swap(q) PROVE Inv'
  <1> DEFINE l == [loc[q] EXCEPT
                     !.at = IF lastSeen = loc[q].active THEN "evaluate" ELSE "emit",
                     !.prev = lastSeen]
  <1>1. q \in Actors /\ loc[q] \in Locals /\ At(q, "observe")
        /\ lastSeen \in {NoId} \cup Ids /\ loc[q].active \in {NoId} \cup Ids
    BY TypesOf DEF Inv, TypeOK, Actors, Swap
  <1>2. l \in Locals /\ l.swept = loc[q].swept /\ l.now = loc[q].now
        /\ l.active = loc[q].active /\ l.prev = lastSeen
        /\ l.at = IF lastSeen = loc[q].active THEN "evaluate" ELSE "emit"
    BY <1>1 DEF Locals
  <1>3. loc' = [loc EXCEPT ![q] = l] /\ UNCHANGED <<clock, pauses, count, net>>
        /\ lastSeen' = loc[q].active
    BY <1>1 DEF Swap, Inv, TypeOK, table
  <1> HIDE DEF l
  <1>4. net \in [Ids -> Int]
    BY DEF Inv, TypeOK
  <1>5. /\ TypeOK' /\ Blank' /\ (\A a \in Actors : TimeLeft(a)')
        /\ loc'[q] = l /\ \A a \in Actors \ {q} : loc'[a] = loc[a]
    <2>1. Looked(q) /\ l.at \in {"emit", "evaluate"}
      BY <1>1, <1>2 DEF Looked, At
    <2> QED
      BY <1>1, <1>2, <1>3, <1>4, <2>1, LookedMoves
  <1>6. Balanced'
    <2>1. CASE lastSeen = loc[q].active
      BY <1>1, <1>2, <1>3, <1>5, <2>1, BalanceStays DEF At, Actors
    <2>2. CASE lastSeen # loc[q].active
      <3>1. ASSUME NEW p
            PROVE  /\ Opening(p)' = IF p = loc[q].active THEN Opening(p) \cup {q} ELSE Opening(p)
                   /\ Closing(p)' = IF p = lastSeen THEN Closing(p) \cup {q} ELSE Closing(p)
        BY <1>1, <1>2, <1>5, <2>2 DEF Opening, Closing, Emitting, At, Actors
      <3>2. \A p : q \notin Opening(p) /\ q \notin Closing(p)
        BY <1>1 DEF Opening, Closing, Emitting, At
      <3>3. ASSUME NEW p \in Ids
            PROVE  net'[p] + Cardinality(Opening(p))' - Cardinality(Closing(p))'
                     = IF p = lastSeen' THEN 1 ELSE 0
        <4>1. net[p] + Cardinality(Opening(p)) - Cardinality(Closing(p))
                = IF p = lastSeen THEN 1 ELSE 0
          BY DEF Inv, Balanced
        <4>2. Cardinality(Opening(p))'
                = IF p = loc[q].active THEN Cardinality(Opening(p)) + 1 ELSE Cardinality(Opening(p))
          BY <3>1, <3>2, CountsAreFinite, FS_AddElement
        <4>3. Cardinality(Closing(p))'
                = IF p = lastSeen THEN Cardinality(Closing(p)) + 1 ELSE Cardinality(Closing(p))
          BY <3>1, <3>2, CountsAreFinite, FS_AddElement
        <4>4. net[p] \in Int /\ net'[p] = net[p]
          BY <1>3, <1>4
        <4> QED
          BY <1>3, <2>2, <4>1, <4>2, <4>3, <4>4, CountsAreFinite
      <3> QED
        BY <3>3 DEF Balanced
    <2> QED
      BY <2>1, <2>2
  <1> QED
    BY <1>5, <1>6 DEF Inv

\* It tells what it saw, and is counted no longer.
LEMMA EmitInv ==
    ASSUME ConstantsAssumption, Inv, NEW q \in Requests, Emit(q) PROVE Inv'
  <1> DEFINE told == IF loc[q].prev = NoId THEN "" ELSE ClosedKind(loc[q].prev)
             l == [loc[q] EXCEPT !.at = "evaluate", !.closed = told]
  <1>1. q \in Actors /\ loc[q] \in Locals /\ At(q, "emit")
        /\ loc[q].prev \in {NoId} \cup Ids
    BY TypesOf DEF Inv, Actors, Emit
  <1>2. told \in {"", "unknown", "expired", "resumed_early"}
    BY <1>1, TypesOf DEF Inv, ClosedKind, Rows
  <1> HIDE DEF told
  <1>3. l \in Locals /\ l.swept = loc[q].swept /\ l.now = loc[q].now
        /\ l.active = loc[q].active /\ l.at = "evaluate"
    BY <1>1, <1>2 DEF Locals
  <1>4. loc' = [loc EXCEPT ![q] = l] /\ UNCHANGED <<clock, pauses, count, lastSeen>>
    BY <1>1 DEF Emit, Inv, TypeOK, table, told
  <1> HIDE DEF l
  <1>5. net \in [Ids -> Int] /\ lastSeen \in {NoId} \cup Ids
    BY DEF Inv, TypeOK
  <1>6. /\ net' \in [Ids -> Int]
        /\ \A p \in Ids : net'[p] = net[p] + ((IF p = loc[q].active THEN 1 ELSE 0)
                                              - (IF p = loc[q].prev THEN 1 ELSE 0))
    <2> DEFINE change(p) == (IF p = loc[q].active THEN 1 ELSE 0)
                              - (IF p = loc[q].prev THEN 1 ELSE 0)
    <2>1. net' = [p \in Ids |-> net[p] + change(p)]
      BY DEF Emit
    <2>2. \A p \in Ids : net[p] \in Int /\ change(p) \in Int
      BY <1>5
    <2> HIDE DEF change
    <2>3. \A p \in Ids : net'[p] = net[p] + change(p) /\ net'[p] \in Int
      BY <2>1, <2>2
    <2>4. net' \in [Ids -> Int]
      BY <2>1, <2>3
    <2> QED
      BY <2>3, <2>4 DEF change
  <1>7. /\ TypeOK' /\ Blank' /\ (\A a \in Actors : TimeLeft(a)')
        /\ loc'[q] = l /\ \A a \in Actors \ {q} : loc'[a] = loc[a]
    BY <1>1, <1>3, <1>4, <1>5, <1>6, LookedMoves DEF Looked, At
  <1>8. ASSUME NEW p
        PROVE  /\ Opening(p)' = IF p = loc[q].active THEN Opening(p) \ {q} ELSE Opening(p)
               /\ Closing(p)' = IF p = loc[q].prev THEN Closing(p) \ {q} ELSE Closing(p)
    BY <1>1, <1>3, <1>7 DEF Opening, Closing, Emitting, At, Actors
  <1>9. q \in Opening(loc[q].active) /\ q \in Closing(loc[q].prev)
    BY <1>1 DEF Opening, Closing, Emitting, At
  <1>10. ASSUME NEW p \in Ids
         PROVE  net'[p] + Cardinality(Opening(p))' - Cardinality(Closing(p))'
                  = IF p = lastSeen' THEN 1 ELSE 0
    <2>1. net[p] + Cardinality(Opening(p)) - Cardinality(Closing(p))
            = IF p = lastSeen THEN 1 ELSE 0
      BY DEF Inv, Balanced
    <2>2. Cardinality(Opening(p))'
            = IF p = loc[q].active THEN Cardinality(Opening(p)) - 1 ELSE Cardinality(Opening(p))
      BY <1>8, <1>9, CountsAreFinite, FS_RemoveElement
    <2>3. Cardinality(Closing(p))'
            = IF p = loc[q].prev THEN Cardinality(Closing(p)) - 1 ELSE Cardinality(Closing(p))
      BY <1>8, <1>9, CountsAreFinite, FS_RemoveElement
    <2>4. net[p] \in Int
      BY <1>5
    <2> QED
      BY <1>4, <1>6, <2>1, <2>2, <2>3, <2>4, CountsAreFinite
  <1> QED
    BY <1>7, <1>10 DEF Inv, Balanced
-----------------------------------------------------------------------------
(* Theorems *)

LEMMA StepInv == ASSUME ConstantsAssumption PROVE Inv /\ [Next]_vars => Inv'
  <1> SUFFICES ASSUME Inv, [Next]_vars PROVE Inv'
    OBVIOUS
  <1>1. CASE Tick
    BY <1>1, TickInv
  <1>2. ASSUME NEW c \in Starters, NEW d \in Durations, StartPause(c, d) PROVE Inv'
    <2>0. c \in Actors /\ d \in Nat \ {0}
      BY DEF Actors, ConstantsAssumption
    <2>1. clock \in Nat /\ d \in Nat /\ d > 0
      BY <2>0, TypesOf DEF Inv
    <2>2. clock + d \in Nat /\ clock + d > 0
      BY <2>1
    <2> QED
      BY <1>2, <2>0, <2>2, BeginInv DEF StartPause
  <1>3. ASSUME NEW c \in Starters, InsertPause(c) PROVE Inv'
    BY <1>3, InsertPauseInv
  <1>4. ASSUME NEW c \in Stoppers, StopPause(c) PROVE Inv'
    BY <1>4, BeginInv DEF StopPause, Actors, ConstantsAssumption
  <1>5. ASSUME NEW c \in Stoppers, UpdatePause(c) PROVE Inv'
    BY <1>5, UpdatePauseInv
  <1>6. ASSUME NEW c \in Stoppers, Report(c) PROVE Inv'
    BY <1>6, LeaveInv DEF Report, Actors, At
  <1>7. ASSUME NEW q \in Requests, Lookup(q) PROVE Inv'
    BY <1>7, BeginInv DEF Lookup, Actors, ConstantsAssumption
  <1>8. ASSUME NEW q \in Requests, Swap(q) PROVE Inv'
    BY <1>8, SwapInv
  <1>9. ASSUME NEW q \in Requests, Emit(q) PROVE Inv'
    BY <1>9, EmitInv
  <1>10. ASSUME NEW q \in Requests, Evaluate(q) PROVE Inv'
    BY <1>10, LeaveInv DEF Evaluate, Actors, At
  <1>11. ASSUME NEW a \in Actors, ExpireDue(a) \/ Select(a) \/ LookupFails(a) PROVE Inv'
    BY <1>11, ExpireDueInv, SelectInv, LookupFailsInv
  <1>12. CASE UNCHANGED vars
    <2>1. UNCHANGED <<clock, pauses, count, loc, lastSeen, net>>
      BY <1>12 DEF vars
    <2>2. TypeOK' /\ Blank'
      BY <2>1 DEF Inv, TypeOK, Blank
    <2>3. \A a \in Actors : TimeLeft(a)'
      BY <2>1, TimeStays, TypesOf DEF Inv, Open
    <2>4. Balanced'
      BY <2>1, BalanceStays
    <2> QED
      BY <2>2, <2>3, <2>4 DEF Inv
  <1> QED
    BY <1>1, <1>2, <1>3, <1>4, <1>5, <1>6, <1>7, <1>8, <1>9, <1>10, <1>11, <1>12 DEF Next

\* Every reachable state satisfies the invariant.
THEOREM Invariance == ASSUME ConstantsAssumption PROVE Spec => []Inv
  <1>1. Init => Inv
    BY InitInv
  <1>2. Inv /\ [Next]_vars => Inv'
    BY StepInv
  <1> QED
    BY <1>1, <1>2, PTL DEF Spec

\* The variables keep their types.
THEOREM TypeCorrect == ASSUME ConstantsAssumption PROVE Spec => []TypeOK
  <1>1. Inv => TypeOK
    BY DEF Inv
  <1> QED
    BY <1>1, Invariance, PTL

\* No request is evaluated under a pause that was in the table when the rows past
\* due were expired, and had run out by then (GetActivePause).
THEOREM BypassesEndOnTime == ASSUME ConstantsAssumption PROVE Spec => []BypassEndsOnTime
  <1>1. Inv => BypassEndsOnTime
    BY DEF Inv, TimeLeft, BypassEndsOnTime, Actors
  <1> QED
    BY <1>1, Invariance, PTL

\* Whatever the order in which requests observe the windows, each grant in the
\* trail has one close, but for the window last seen (observePauseTransition).
THEOREM GrantsArePaired == ASSUME ConstantsAssumption PROVE Spec => []GrantsPairWithCloses
  <1>1. Inv => GrantsPairWithCloses
    <2> SUFFICES ASSUME Inv, \A q \in Requests : ~ At(q, "emit"), NEW p \in Ids
                 PROVE  net[p] = IF p = lastSeen THEN 1 ELSE 0
      BY DEF GrantsPairWithCloses
    <2>1. Opening(p) = {} /\ Closing(p) = {}
      BY DEF Opening, Closing, Emitting
    <2>2. net[p] \in Int
      BY DEF Inv, TypeOK
    <2>3. net[p] + Cardinality(Opening(p)) - Cardinality(Closing(p))
            = IF p = lastSeen THEN 1 ELSE 0
      BY DEF Inv, Balanced
    <2>4. Cardinality(Opening(p)) = 0 /\ Cardinality(Closing(p)) = 0
      BY <2>1, FS_EmptySet
    <2> QED
      BY <2>2, <2>3, <2>4
  <1> QED
    BY <1>1, Invariance, PTL

\* The end of a window is written once (EndPause, GetActivePause).
THEOREM EndsAreFinal == ASSUME ConstantsAssumption PROVE Spec => EndIsFinal
  <1>1. ASSUME Inv, [Next]_vars PROVE [EndStays]_pauses
    <2> SUFFICES ASSUME NEW p \in Ids, pauses[p].ended # 0, Next
                 PROVE  pauses'[p] = pauses[p]
      BY <1>1 DEF EndStays, vars
    <2>1. ASSUME NEW a \in Actors, ExpireDue(a) PROVE pauses'[p] = pauses[p]
      <3>1. ~ Due(p, loc[a].now)
        BY DEF Due, Open
      <3> QED
        BY <2>1, <3>1 DEF ExpireDue
    <2>2. ASSUME NEW c \in Starters, InsertPause(c) PROVE pauses'[p] = pauses[p]
      <3>1. count + 1 \in Ids => pauses[count + 1].ended = 0
        <4>1. count \in Nat
          BY <1>1, TypesOf DEF Inv
        <4>2. count + 1 > count
          BY <4>1
        <4> QED
          BY <1>1, <4>2, IdleFacts DEF Inv, Blank
      <3>2. p # count + 1
        BY <3>1
      <3> QED
        BY <1>1, <2>2, <3>2 DEF InsertPause, Inv, TypeOK
    <2>3. ASSUME NEW c \in Stoppers, UpdatePause(c) PROVE pauses'[p] = pauses[p]
      BY <1>1, <2>3 DEF UpdatePause, Open, Inv, TypeOK
    <2> QED
      BY <2>1, <2>2, <2>3
      DEF Next, Tick, StartPause, StopPause, Lookup, Begin, Report, Swap, Emit, Evaluate,
          Select, LookupFails, table
  <1> QED
    BY <1>1, Invariance, PTL DEF Spec, EndIsFinal

\* While nobody else opens windows, a starter that inserts has seen none open.
Exclusive ==
    /\ \A p, q \in Ids : Open(p) /\ Open(q) => p = q
    /\ \A c \in Starters : At(c, "insert") => \A p \in Ids : ~ Open(p)

\* Nobody opens a window, and nobody else is about to.
LEMMA ExclusiveStays ==
    ASSUME Exclusive, \A p \in Ids : Open(p)' => Open(p),
           \A c \in Starters : At(c, "insert")' => At(c, "insert")
    PROVE  Exclusive'
  BY DEF Exclusive, Ids

\* One window is open at a time when no two starters overlap.
LEMMA ExclusiveStep ==
    ASSUME ConstantsAssumption, OneStarter, Inv, Inv', Exclusive, [Next]_vars
    PROVE  Exclusive'
  <1>0. loc \in [Actors -> Locals] /\ loc' \in [Actors -> Locals] /\ Starters \subseteq Actors
        /\ count \in Nat
    BY TypesOf DEF Inv, TypeOK, Actors
  <1>1. ASSUME NEW c \in Starters, InsertPause(c) PROVE Exclusive'
    <2>1. \A p \in Ids : ~ Open(p)
      BY <1>1 DEF Exclusive, InsertPause
    <2>2. ASSUME NEW p \in Ids, p # count + 1 PROVE ~ Open(p)'
      <3>1. pauses'[p] = pauses[p] /\ count' = count + 1
        BY <1>1, <2>2 DEF InsertPause, Inv, TypeOK
      <3> QED
        BY <1>0, <2>1, <2>2, <3>1 DEF Open, Ids
    <2>3. ASSUME NEW d \in Starters PROVE ~ At(d, "insert")'
      BY <1>0, <1>1, IdleFacts DEF OneStarter, InsertPause, Leave, At
    <2> QED
      BY <2>2, <2>3 DEF Exclusive, Ids
  <1>2. ASSUME NEW a \in Actors, Select(a) PROVE Exclusive'
    <2>1. \A p \in Ids : Open(p)' <=> Open(p)
      BY <1>2 DEF Select, table, Open
    <2>2. Newest \in {NoId} \cup Ids
      BY NewestIsOpen
    <2>3. PICK l \in Locals :
            loc' = [loc EXCEPT ![a] = l] /\ (l.at = "insert" => Newest = NoId)
      BY <1>2, <2>2, ContinueMeans DEF Select
    <2>5. loc'[a] = l /\ \A b \in Actors \ {a} : loc'[b] = loc[b]
      BY <1>0, <2>3
    <2>4. ASSUME NEW c \in Starters, At(c, "insert")', NEW p \in Ids PROVE ~ Open(p)
      <3>1. CASE c = a
        <4>1. Newest = NoId
          BY <2>3, <2>5, <2>4, <3>1 DEF At
        <4> QED
          BY <4>1, NewestIsOpen
      <3>2. CASE c # a
        <4>1. At(c, "insert")
          BY <1>0, <2>5, <2>4, <3>2 DEF At
        <4> QED
          BY <4>1 DEF Exclusive
      <3> QED
        BY <3>1, <3>2
    <2> QED
      BY <2>1, <2>4 DEF Exclusive, Ids
  <1>3. ASSUME NEW a \in Actors, LookupFails(a) PROVE Exclusive'
    <2>1. \A p \in Ids : Open(p)' => Open(p)
      BY <1>3 DEF LookupFails, table, Open
    <2>2. PICK l \in Locals : loc' = [loc EXCEPT ![a] = l] /\ l.at # "insert"
      <3>1. CASE a \in Requests
        <4>1. Continue(a, NoId) /\ a \notin Starters
          BY <1>3, <3>1 DEF LookupFails, ConstantsAssumption
        <4> QED
          BY <4>1, ContinueMeans
      <3>2. CASE a \notin Requests
        BY <1>3, <3>2, IdleFacts DEF LookupFails, Leave
      <3> QED
        BY <3>1, <3>2
    <2> QED
      BY <1>0, <2>1, <2>2, ExclusiveStays DEF At
  <1>4. ASSUME NEW a \in Actors, ExpireDue(a) PROVE Exclusive'
    <2>1. ASSUME NEW p \in Ids, Open(p)' PROVE Open(p)
      BY <1>4, <2>1 DEF ExpireDue, Due, Open
    <2>2. ASSUME NEW c \in Starters, At(c, "insert")' PROVE At(c, "insert")
      <3>1. loc[c] \in Locals
        BY <1>0
      <3>2. loc'[c].at = IF c = a THEN "select" ELSE loc[c].at
        BY <1>0, <1>4, <3>1 DEF ExpireDue, Locals
      <3> QED
        BY <2>2, <3>2 DEF At
    <2> QED
      BY <2>1, <2>2, ExclusiveStays
  <1>5. ASSUME NEW c \in Stoppers, UpdatePause(c) PROVE Exclusive'
    <2>1. ASSUME NEW p \in Ids, Open(p)' PROVE Open(p)
      BY <1>5, <2>1 DEF UpdatePause, Open, Inv, TypeOK
    <2>2. \A d \in Starters : At(d, "insert")' => At(d, "insert")
      BY <1>0, <1>5 DEF UpdatePause, Goto, At
    <2> QED
      BY <2>1, <2>2, ExclusiveStays
  <1>6. ASSUME NEW a \in Actors, NEW ends, Begin(a, ends) PROVE Exclusive'
    <2>1. \A p \in Ids : Open(p)' => Open(p)
      BY <1>6 DEF Begin, table, Open
    <2>2. \A d \in Starters : At(d, "insert")' => At(d, "insert")
      BY <1>0, <1>6 DEF Begin, At, Idle
    <2> QED
      BY <2>1, <2>2, ExclusiveStays
  <1>7. ASSUME NEW a \in Actors, Leave(a), UNCHANGED table PROVE Exclusive'
    <2>1. \A p \in Ids : Open(p)' => Open(p)
      BY <1>7 DEF table, Open
    <2>2. \A d \in Starters : At(d, "insert")' => At(d, "insert")
      BY <1>0, <1>7, IdleFacts DEF Leave, At
    <2> QED
      BY <2>1, <2>2, ExclusiveStays
  <1>8. ASSUME NEW q \in Requests, Swap(q) \/ Emit(q) PROVE Exclusive'
    <2>1. \A p \in Ids : Open(p)' => Open(p)
      BY <1>8 DEF Swap, Emit, table, Open
    <2>2. \A d \in Starters : At(d, "insert")' => At(d, "insert")
      BY <1>0, <1>8 DEF Swap, Emit, At, ConstantsAssumption
    <2> QED
      BY <2>1, <2>2, ExclusiveStays
  <1>9. ASSUME UNCHANGED <<table, loc>> PROVE Exclusive'
    BY <1>9, ExclusiveStays DEF table, Open, At
  <1> QED
    BY <1>1, <1>2, <1>3, <1>4, <1>5, <1>6, <1>7, <1>8, <1>9
    DEF Next, Actors, Tick, StartPause, StopPause, Lookup, Report, Evaluate, vars, table

\* Nested windows are refused (StartPause).
THEOREM OneIsOpen == ASSUME ConstantsAssumption, OneStarter PROVE Spec => []OneOpenPause
  <1>1. Init => Exclusive
    BY IdleFacts DEF Init, Exclusive, At, Open, Actors
  <1>2. Inv /\ Inv' /\ Exclusive /\ [Next]_vars => Exclusive'
    BY ExclusiveStep
  <1>3. Exclusive => OneOpenPause
    BY DEF Exclusive, OneOpenPause
  <1> QED
    BY <1>1, <1>2, <1>3, Invariance, PTL DEF Spec

-----------------------------------------------------------------------------
(* Tasks: the invariant *)

\* The rows that were not inserted are blank.
TaskBlank == \A t \in T!Rowids : t > taskCount => tasks[t] = T!NoRow

\* The task an actor has selected was active then, belongs to the slot it asked
\* for, and, for a request that goes on, had time left when it was compared.
Current(a) ==
    LET t == taskLoc[a].task
    IN  /\ taskLoc[a].began <= taskClock
        /\ t <= taskCount
        /\ a \in TaskRequests /\ ~ T!At(a, "idle") => taskLoc[a].owner = ProxyOwner
        /\ (T!At(a, "expiry") \/ T!At(a, "evaluate")) /\ t # T!NoTask =>
             /\ tasks[t].owner = taskLoc[a].owner
             /\ tasks[t].status # "active" => tasks[t].ended >= taskLoc[a].began
        /\ T!At(a, "evaluate") /\ t # T!NoTask => tasks[t].expires > taskLoc[a].now

TaskInv == T!TypeOK /\ TaskBlank /\ \A a \in T!Actors : Current(a)

\* An actor that holds nothing yet.
LEMMA TaskIdleFacts ==
    ASSUME T!ConstantsAssumption
    PROVE  /\ T!Idle \in T!Locals /\ T!NoRow \in T!Rows
           /\ T!Idle.at = "idle" /\ T!Idle.task = T!NoTask /\ T!Idle.began = 0
           /\ T!NoRow.status = "none"
  BY DEF T!ConstantsAssumption, T!Idle, T!Locals, T!NoTask, T!NoRow, T!Rows

LEMMA TaskInitInv == ASSUME T!ConstantsAssumption PROVE T!Init => TaskInv
  <1> SUFFICES ASSUME T!Init PROVE TaskInv
    OBVIOUS
  <1>1. T!TypeOK
    BY TaskIdleFacts DEF T!ConstantsAssumption, T!Init, T!TypeOK
  <1>2. TaskBlank
    BY DEF T!Init, TaskBlank
  <1>3. ASSUME NEW a \in T!Actors PROVE Current(a)
    <2>1. taskLoc[a] = T!Idle /\ taskCount = 0 /\ taskClock = 1
      BY DEF T!Init
    <2> QED
      BY <2>1, TaskIdleFacts DEF Current, T!At, T!NoTask
  <1> QED
    BY <1>1, <1>2, <1>3 DEF TaskInv

\* What the types say.
LEMMA NumbersOf ==
    ASSUME T!TypeOK
    PROVE  /\ taskClock \in Nat /\ taskCount \in Nat /\ taskCount <= MaxTasks
           /\ \A a \in T!Actors : taskLoc[a].began \in Nat
  <1>1. taskClock \in Nat /\ taskCount \in Nat /\ taskCount <= MaxTasks
    BY DEF T!TypeOK
  <1>2. ASSUME NEW a \in T!Actors PROVE taskLoc[a].began \in Nat
    <2>1. taskLoc[a] \in T!Locals
      BY DEF T!TypeOK
    <2>2. taskLoc[a].began \in 0 .. MaxTaskTime
      BY <2>1 DEF T!Locals
    <2> QED
      BY <2>2
  <1> QED
    BY <1>1, <1>2

LEMMA TaskTypesOf ==
    ASSUME T!TypeOK
    PROVE  /\ \A t \in T!Rowids : tasks[t] \in T!Rows
           /\ \A a \in T!Actors : /\ taskLoc[a] \in T!Locals /\ taskLoc[a].scope \in T!Rows
                                /\ taskLoc[a].task \in {T!NoTask} \cup T!Rowids
                                /\ taskLoc[a].owner \in Owners \cup {""}
  <1>1. \A t \in T!Rowids : tasks[t] \in T!Rows
    BY DEF T!TypeOK
  <1>2. ASSUME NEW a \in T!Actors PROVE taskLoc[a] \in T!Locals
    BY DEF T!TypeOK
  <1>3. ASSUME NEW l \in T!Locals
        PROVE  l.task \in {T!NoTask} \cup T!Rowids /\ l.scope \in T!Rows /\ l.owner \in Owners \cup {""}
    BY DEF T!Locals
  <1> QED
    BY <1>1, <1>2, <1>3

\* Rows may end and be added: what was current when it was looked at still was.
LEMMA CurrentStays ==
    ASSUME T!ConstantsAssumption, TaskInv, NEW a \in T!Actors, taskLoc'[a] = taskLoc[a],
           taskCount' \in Nat, taskCount <= taskCount', taskClock' \in Nat, taskClock <= taskClock',
           \A t \in 1 .. taskCount :
             /\ tasks'[t].owner = tasks[t].owner /\ tasks'[t].expires = tasks[t].expires
             /\ tasks'[t] = tasks[t] \/ tasks'[t].ended = taskClock
    PROVE  Current(a)'
  <1> DEFINE t == taskLoc[a].task
  <1>1. Current(a) /\ t \in {T!NoTask} \cup T!Rowids /\ taskLoc[a].began \in Nat
        /\ taskClock \in Nat /\ taskCount \in Nat
    BY NumbersOf, TaskTypesOf DEF TaskInv
  <1>2. taskLoc[a].began <= taskClock' /\ t <= taskCount'
    BY <1>1 DEF Current, T!Rowids, T!NoTask, T!ConstantsAssumption
  <1>3. CASE t = T!NoTask
    BY <1>1, <1>2, <1>3 DEF Current, T!At
  <1>4. CASE t # T!NoTask
    <2>1. t \in 1 .. taskCount
      BY <1>1, <1>4 DEF Current, T!Rowids
    <2>2. tasks'[t].owner = tasks[t].owner /\ tasks'[t].expires = tasks[t].expires
      BY <2>1
    <2>3. tasks'[t] = tasks[t] \/ tasks'[t].ended = taskClock
      BY <2>1
    <2>4. taskClock >= taskLoc[a].began
      BY <1>1 DEF Current
    <2> QED
      BY <1>1, <1>2, <2>2, <2>3, <2>4 DEF Current, T!At
  <1> QED
    BY <1>3, <1>4

\* One actor moves on and touches nothing but its own locals.
LEMMA TaskOneActorMoves ==
    ASSUME T!ConstantsAssumption, TaskInv, NEW a \in T!Actors, NEW l \in T!Locals,
           taskLoc' = [taskLoc EXCEPT ![a] = l], UNCHANGED <<taskClock, tasks, taskCount>>, Current(a)'
    PROVE  TaskInv'
  <1>1. /\ taskLoc' \in [T!Actors -> T!Locals] /\ taskLoc'[a] = l
        /\ \A b \in T!Actors \ {a} : taskLoc'[b] = taskLoc[b]
    BY DEF TaskInv, T!TypeOK
  <1>2. T!TypeOK' /\ TaskBlank'
    BY <1>1 DEF TaskInv, T!TypeOK, TaskBlank
  <1>3. ASSUME NEW b \in T!Actors PROVE Current(b)'
    <2>1. CASE b = a
      BY <2>1
    <2>2. CASE b # a
      <3>1. taskCount' \in Nat /\ taskCount <= taskCount' /\ taskClock' \in Nat /\ taskClock <= taskClock'
        BY NumbersOf DEF TaskInv
      <3> QED
        BY <2>2, <1>1, <3>1, CurrentStays
    <2> QED
      BY <2>1, <2>2
  <1> QED
    BY <1>2, <1>3 DEF TaskInv

\* An actor that has done what it came for forgets everything.
LEMMA TaskLeaveInv ==
    ASSUME T!ConstantsAssumption, TaskInv, NEW a \in T!Actors, T!Leave(a), UNCHANGED <<taskClock, tasks, taskCount>>
    PROVE  TaskInv'
  <1>1. taskLoc'[a] = T!Idle /\ taskLoc' = [taskLoc EXCEPT ![a] = T!Idle]
    BY DEF T!Leave, TaskInv, T!TypeOK
  <1>2. Current(a)'
    <2>1. 0 <= taskClock /\ 0 <= taskCount
      BY NumbersOf DEF TaskInv
    <2> QED
      BY <1>1, <2>1, TaskIdleFacts DEF Current, T!At, T!NoTask
  <1> QED
    BY <1>1, <1>2, TaskIdleFacts, TaskOneActorMoves
-----------------------------------------------------------------------------
(* AddTask *)

\* A starter's step between its idle state and its insert.
LEMMA StarterMoves ==
    ASSUME T!ConstantsAssumption, TaskInv, NEW c \in Starters, NEW l \in T!Locals,
           taskLoc' = [taskLoc EXCEPT ![c] = l], UNCHANGED <<taskClock, tasks, taskCount>>,
           l.task = T!NoTask \/ l.task = taskLoc[c].task, l.began \in {0, taskLoc[c].began},
           l.at \notin {"expiry", "evaluate"}
    PROVE  TaskInv'
  <1>1. c \in T!Actors /\ c \notin TaskRequests
    BY DEF T!Actors, T!ConstantsAssumption
  <1>2. taskLoc'[c] = l
    BY <1>1 DEF TaskInv, T!TypeOK
  <1>3. Current(c) /\ taskClock \in Nat /\ taskCount \in Nat
    BY <1>1, NumbersOf DEF TaskInv
  <1>4. l.began <= taskClock /\ l.task <= taskCount
    BY <1>3 DEF Current, T!NoTask
  <1>5. Current(c)'
    BY <1>1, <1>2, <1>4 DEF Current, T!At
  <1> QED
    BY <1>1, <1>5, TaskOneActorMoves

LEMMA BuildScopeInv ==
    ASSUME T!ConstantsAssumption, TaskInv, NEW c \in Starters, NEW o \in Owners, NEW d \in TaskDurations,
           T!BuildScope(c, o, d)
    PROVE  TaskInv'
  <1> DEFINE scope == [owner |-> o, started |-> taskClock, expires |-> taskClock + d,
                       status |-> "active", ended |-> 0]
             l == [T!Idle EXCEPT !.at = "check", !.owner = o, !.scope = scope]
  <1>1. taskClock \in Nat /\ d \in Nat
    BY NumbersOf DEF TaskInv, T!ConstantsAssumption
  <1>2. scope \in T!Rows
    <2>1. taskClock + d \in Nat /\ 0 \in Nat
      BY <1>1
    <2> QED
      BY <1>1, <2>1 DEF T!Rows
  <1> HIDE DEF scope
  <1>3. l \in T!Locals /\ l.at = "check" /\ l.task = T!NoTask /\ l.began = 0
    BY <1>2, TaskIdleFacts DEF T!Locals, T!Idle
  <1>4. taskLoc' = [taskLoc EXCEPT ![c] = l] /\ UNCHANGED <<taskClock, tasks, taskCount>>
    BY DEF T!BuildScope, scope
  <1> HIDE DEF l
  <1> QED
    BY <1>3, <1>4, StarterMoves

LEMMA CheckActiveInv ==
    ASSUME T!ConstantsAssumption, TaskInv, NEW c \in Starters, T!CheckActive(c)
    PROVE  TaskInv'
  <1>1. c \in T!Actors /\ taskLoc[c] \in T!Locals /\ taskLoc \in [T!Actors -> T!Locals]
    BY TaskTypesOf DEF TaskInv, T!Actors, T!TypeOK
  <1>2. UNCHANGED <<taskClock, tasks, taskCount>>
    BY DEF T!CheckActive
  <1>3. CASE taskLoc' = [taskLoc EXCEPT ![c].at = "refused", ![c].now = taskClock]
    <2> DEFINE l == [taskLoc[c] EXCEPT !.at = "refused", !.now = taskClock]
    <2>1. taskClock \in 0 .. MaxTaskTime
      BY DEF TaskInv, T!TypeOK
    <2>2. l \in T!Locals /\ l.at = "refused" /\ l.task = taskLoc[c].task /\ l.began = taskLoc[c].began
      BY <1>1, <2>1 DEF T!Locals
    <2>3. taskLoc' = [taskLoc EXCEPT ![c] = l]
      BY <1>1, <1>3
    <2> HIDE DEF l
    <2> QED
      BY <1>2, <2>2, <2>3, StarterMoves
  <1>4. CASE taskLoc' = [taskLoc EXCEPT ![c].at = "insert"]
    <2> DEFINE l == [taskLoc[c] EXCEPT !.at = "insert"]
    <2>2. l \in T!Locals /\ l.at = "insert" /\ l.task = taskLoc[c].task /\ l.began = taskLoc[c].began
      BY <1>1 DEF T!Locals
    <2>3. taskLoc' = [taskLoc EXCEPT ![c] = l]
      BY <1>1, <1>4
    <2> HIDE DEF l
    <2> QED
      BY <1>2, <2>2, <2>3, StarterMoves
  <1> QED
    BY <1>3, <1>4 DEF T!CheckActive

\* A row is added behind the others.
LEMMA InsertTaskInv ==
    ASSUME T!ConstantsAssumption, TaskInv, NEW c \in Starters, T!InsertTask(c)
    PROVE  TaskInv'
  <1>1. c \in T!Actors /\ taskCount \in Nat /\ taskClock \in Nat /\ taskCount < MaxTasks
        /\ taskCount' = taskCount + 1 /\ taskClock' = taskClock
    BY NumbersOf DEF TaskInv, T!InsertTask, T!Actors
  <1>2. taskCount + 1 \in T!Rowids /\ taskCount' \in 0 .. MaxTasks
    BY <1>1 DEF T!Rowids, T!ConstantsAssumption
  <1>3. taskLoc[c].scope \in T!Rows
    BY <1>1, TaskTypesOf DEF TaskInv
  <1>4. /\ tasks' \in [T!Rowids -> T!Rows]
        /\ \A t \in T!Rowids \ {taskCount + 1} : tasks'[t] = tasks[t]
    BY <1>2, <1>3 DEF T!InsertTask, TaskInv, T!TypeOK
  <1>5. taskLoc' \in [T!Actors -> T!Locals] /\ taskLoc'[c] = T!Idle
        /\ \A b \in T!Actors \ {c} : taskLoc'[b] = taskLoc[b]
    BY <1>1, TaskIdleFacts DEF T!InsertTask, T!Leave, TaskInv, T!TypeOK
  <1>6. T!TypeOK'
    BY <1>1, <1>2, <1>4, <1>5 DEF TaskInv, T!TypeOK
  <1>7. TaskBlank'
    BY <1>1, <1>4 DEF TaskInv, TaskBlank, T!Rowids
  <1>8. ASSUME NEW b \in T!Actors PROVE Current(b)'
    <2>1. CASE b # c
      <3>1. ASSUME NEW t \in 1 .. taskCount PROVE tasks'[t] = tasks[t]
        <4>1. t \in T!Rowids /\ t # taskCount + 1
          BY <1>1 DEF T!Rowids, T!ConstantsAssumption
        <4> QED
          BY <1>4, <4>1
      <3>2. taskCount' \in Nat /\ taskCount <= taskCount' /\ taskClock' \in Nat /\ taskClock <= taskClock'
        BY <1>1
      <3> QED
        BY <1>5, <2>1, <3>1, <3>2, CurrentStays
    <2>2. CASE b = c
      <3>1. 0 <= taskClock' /\ 0 <= taskCount'
        BY <1>1
      <3> QED
        BY <1>5, <2>2, <3>1, TaskIdleFacts DEF Current, T!At, T!NoTask
    <2> QED
      BY <2>1, <2>2
  <1> QED
    BY <1>6, <1>7, <1>8 DEF TaskInv
-----------------------------------------------------------------------------
(* GetActiveTask *)

\* Among finitely many rows there is one that no other row is later than.
LEMMA LatestExists ==
    ASSUME T!ConstantsAssumption, T!TypeOK, NEW S, S \subseteq T!Rowids, S # {}
    PROVE  \E t \in S : \A u \in S : T!Later(t, u)
  <1> DEFINE Above(t) == {u \in S : ~ T!Later(t, u)}
             Uppers == {Above(t) : t \in S}
             R == StrictSubsetOrdering(S)
  <1>0. /\ IsFiniteSet(S)
        /\ \A t \in S : t \in Int /\ tasks[t].started \in Int
    <2>1. \A r \in T!Rows : r.started \in Nat
      BY DEF T!Rows
    <2>2. IsFiniteSet(T!Rowids)
      BY FS_Interval DEF T!Rowids, T!ConstantsAssumption
    <2>3. IsFiniteSet(S)
      BY <2>2, FS_Subset
    <2>4. ASSUME NEW t \in S PROVE t \in Int
      BY DEF T!Rowids
    <2>5. ASSUME NEW t \in S PROVE tasks[t].started \in Int
      <3>1. tasks[t] \in T!Rows
        BY TaskTypesOf
      <3>2. tasks[t].started \in Nat
        BY <2>1, <3>1
      <3> QED
        BY <3>2
    <2> QED
      BY <2>3, <2>4, <2>5
  <1>1. Uppers \subseteq SUBSET S /\ Uppers # {}
    OBVIOUS
  <1>2. IsWellFoundedOn(R, SUBSET S)
    BY <1>0, FS_StrictSubsetOrderingWellFounded, FS_FiniteSubsetsOfFinite
  <1>3. PICK U \in Uppers : \A V \in Uppers : ~ (<<V, U>> \in R)
    <2> HIDE DEF Uppers, R
    <2> QED
      BY <1>1, <1>2, WFMin
  <1>4. PICK t \in S : U = Above(t)
    OBVIOUS
  <1>5. ASSUME NEW u \in S, ~ T!Later(t, u) PROVE FALSE
    <2>1. \A w \in S : ~ T!Later(u, w) => ~ T!Later(t, w)
      BY <1>0, <1>5 DEF T!Later
    <2>2. Above(u) \subseteq Above(t)
      BY <2>1
    <2>3. u \in Above(t) /\ u \notin Above(u)
      BY <1>0, <1>5 DEF T!Later
    <2>4. <<Above(u), Above(t)>> \in R
      BY <2>2, <2>3 DEF StrictSubsetOrdering
    <2> QED
      BY <1>3, <1>4, <2>4
  <1> QED
    BY <1>5

\* The lookup selects one of the tasks it asked for, or none.
LEMMA NewestIsOneOf ==
    ASSUME T!ConstantsAssumption, T!TypeOK, NEW S, S \subseteq T!Rowids
    PROVE  T!NewestOf(S) = T!NoTask \/ T!NewestOf(S) \in S
  <1>1. CASE S = {}
    BY <1>1 DEF T!NewestOf
  <1>2. CASE S # {}
    BY <1>2, LatestExists DEF T!NewestOf
  <1> QED
    BY <1>1, <1>2

LEMMA LookupInv ==
    ASSUME T!ConstantsAssumption, TaskInv, NEW a \in T!Actors, NEW o \in Owners, T!Lookup(a, o),
           a \in TaskRequests => o = ProxyOwner
    PROVE  TaskInv'
  <1> DEFINE l == [T!Idle EXCEPT !.at = "select", !.owner = o, !.began = taskClock]
  <1>1. taskClock \in 0 .. MaxTaskTime
    BY DEF TaskInv, T!TypeOK
  <1>2. l \in T!Locals /\ l.at = "select" /\ l.task = 0 /\ l.began = taskClock /\ l.owner = o
    BY <1>1, TaskIdleFacts DEF T!Locals, T!Idle, T!NoTask
  <1>3. taskLoc' = [taskLoc EXCEPT ![a] = l] /\ taskLoc'[a] = l /\ UNCHANGED <<taskClock, tasks, taskCount>>
    BY DEF T!Lookup, TaskInv, T!TypeOK
  <1> HIDE DEF l
  <1>4. taskClock <= taskClock /\ 0 <= taskCount
    BY NumbersOf DEF TaskInv
  <1>5. Current(a)'
    BY <1>2, <1>3, <1>4 DEF Current, T!At
  <1> QED
    BY <1>2, <1>3, <1>5, TaskOneActorMoves

\* Where an answer of GetActiveTask takes its caller.
LEMMA FoundMeans ==
    ASSUME T!ConstantsAssumption, TaskInv, NEW a \in T!Actors, NEW t \in {T!NoTask} \cup T!Rowids, T!Found(a, t)
    PROVE  \E l \in T!Locals :
             /\ taskLoc' = [taskLoc EXCEPT ![a] = l]
             /\ \/ l = T!Idle /\ t = T!NoTask
                \/ /\ l.at = (IF t = T!NoTask THEN "evaluate" ELSE "expiry") /\ l.task = t
                   /\ l.owner = taskLoc[a].owner /\ l.began = taskLoc[a].began
  <1>0. taskLoc \in [T!Actors -> T!Locals]
    BY DEF TaskInv, T!TypeOK
  <1>1. CASE t # T!NoTask
    <2> DEFINE l == [taskLoc[a] EXCEPT !.at = "expiry", !.task = t]
    <2>1. l \in T!Locals /\ l.at = "expiry" /\ l.task = t /\ l.owner = taskLoc[a].owner
          /\ l.began = taskLoc[a].began
      BY <1>0 DEF T!Locals
    <2>2. taskLoc' = [taskLoc EXCEPT ![a] = l]
      BY <1>0, <1>1 DEF T!Found
    <2> QED
      BY <1>1, <2>1, <2>2
  <1>2. CASE t = T!NoTask /\ a \in TaskRequests
    <2> DEFINE l == [taskLoc[a] EXCEPT !.at = "evaluate", !.task = T!NoTask]
    <2>1. l \in T!Locals /\ l.at = "evaluate" /\ l.task = T!NoTask /\ l.owner = taskLoc[a].owner
          /\ l.began = taskLoc[a].began
      BY <1>0 DEF T!Locals
    <2>2. taskLoc' = [taskLoc EXCEPT ![a] = l]
      BY <1>0, <1>2 DEF T!Found
    <2> QED
      BY <1>2, <2>1, <2>2
  <1>3. CASE t = T!NoTask /\ a \notin TaskRequests
    BY <1>3, TaskIdleFacts DEF T!Found, T!Leave
  <1> QED
    BY <1>1, <1>2, <1>3

\* An answer that is right when it is given: a task of the slot, or none.
LEMMA FoundInv ==
    ASSUME T!ConstantsAssumption, TaskInv, NEW a \in T!Actors, ~ T!At(a, "idle"), T!Found(a, T!NoTask),
           UNCHANGED <<taskClock, tasks, taskCount>>
    PROVE  TaskInv'
  <1>1. PICK l \in T!Locals :
          /\ taskLoc' = [taskLoc EXCEPT ![a] = l]
          /\ l = T!Idle \/ (l.at = "evaluate" /\ l.task = T!NoTask /\ l.owner = taskLoc[a].owner
                          /\ l.began = taskLoc[a].began)
    BY FoundMeans
  <1>2. CASE l = T!Idle
    BY <1>1, <1>2, TaskLeaveInv DEF T!Leave
  <1>3. CASE l.at = "evaluate" /\ l.task = T!NoTask /\ l.owner = taskLoc[a].owner
             /\ l.began = taskLoc[a].began
    <2>1. taskLoc'[a] = l
      BY <1>1 DEF TaskInv, T!TypeOK
    <2>2. Current(a) /\ T!NoTask <= taskCount
      BY NumbersOf DEF TaskInv, T!NoTask
    <2>3. Current(a)'
      BY <1>3, <2>1, <2>2 DEF Current, T!At
    <2> QED
      BY <1>1, <2>3, TaskOneActorMoves
  <1> QED
    BY <1>1, <1>2, <1>3

LEMMA SelectTaskInv ==
    ASSUME T!ConstantsAssumption, TaskInv, NEW a \in T!Actors, T!SelectTask(a)
    PROVE  TaskInv'
  <1> DEFINE S == T!Selectable(taskLoc[a].owner)
             t == T!NewestOf(S)
  <1>1. S \subseteq T!Rowids
    BY NumbersOf DEF T!Selectable, T!Rowids, TaskInv, T!ConstantsAssumption
  <1>2. t = T!NoTask \/ t \in S
    BY <1>1, NewestIsOneOf DEF TaskInv
  <1>3. T!Found(a, t) /\ T!At(a, "select") /\ UNCHANGED <<taskClock, tasks, taskCount>>
    BY DEF T!SelectTask
  <1> HIDE DEF t
  <1>4. CASE t = T!NoTask
    BY <1>3, <1>4, FoundInv DEF T!At
  <1>5. CASE t # T!NoTask
    <2>1. /\ t \in T!Rowids /\ t \in 1 .. taskCount
          /\ tasks[t].status = "active" /\ tasks[t].owner = taskLoc[a].owner
      BY <1>1, <1>2, <1>5 DEF T!Selectable, T!Active
    <2>2. PICK l \in T!Locals :
            /\ taskLoc' = [taskLoc EXCEPT ![a] = l]
            /\ l.at = "expiry" /\ l.task = t
            /\ l.owner = taskLoc[a].owner /\ l.began = taskLoc[a].began
      BY <1>3, <1>5, <2>1, FoundMeans
    <2>3. taskLoc'[a] = l
      BY <2>2 DEF TaskInv, T!TypeOK
    <2>4. Current(a) /\ t <= taskCount
      BY <2>1 DEF TaskInv
    <2>5. Current(a)'
      BY <1>3, <2>1, <2>2, <2>3, <2>4 DEF Current, T!At
    <2> QED
      BY <1>3, <2>2, <2>5, TaskOneActorMoves
  <1> QED
    BY <1>4, <1>5

LEMMA CheckExpiryInv ==
    ASSUME T!ConstantsAssumption, TaskInv, NEW a \in T!Actors, T!CheckExpiry(a)
    PROVE  TaskInv'
  <1> DEFINE place == IF T!IsExpired(taskLoc[a].task) THEN "expire"
                      ELSE IF a \in TaskRequests THEN "evaluate" ELSE "end"
             l == [taskLoc[a] EXCEPT !.now = taskClock, !.at = place]
  <1>1. taskLoc \in [T!Actors -> T!Locals] /\ taskLoc[a] \in T!Locals /\ T!At(a, "expiry")
        /\ UNCHANGED <<taskClock, tasks, taskCount>>
    BY DEF TaskInv, T!TypeOK, T!CheckExpiry
  <1>2. taskClock \in 0 .. MaxTaskTime
    BY DEF TaskInv, T!TypeOK
  <1>3. place \in {"expire", "evaluate", "end"}
    OBVIOUS
  <1>4. place = "evaluate" => ~ T!IsExpired(taskLoc[a].task)
    OBVIOUS
  <1>5. taskLoc' = [taskLoc EXCEPT ![a] = l]
    BY <1>1 DEF T!CheckExpiry
  <1> HIDE DEF place
  <1>6. /\ l \in T!Locals /\ l.at = place /\ l.task = taskLoc[a].task /\ l.now = taskClock
        /\ l.owner = taskLoc[a].owner /\ l.began = taskLoc[a].began
    BY <1>1, <1>2, <1>3 DEF T!Locals
  <1>7. taskLoc'[a] = l
    BY <1>1, <1>5
  <1> HIDE DEF l
  <1>8. place = "evaluate" /\ l.task # T!NoTask => tasks[l.task].expires > taskClock
    <2> SUFFICES ASSUME place = "evaluate", l.task # T!NoTask PROVE tasks[l.task].expires > taskClock
      OBVIOUS
    <2>1. tasks[l.task] \in T!Rows /\ taskClock \in Nat
      BY <1>6, TaskTypesOf, NumbersOf DEF TaskInv
    <2>2. tasks[l.task].expires \in Nat
      BY <2>1 DEF T!Rows
    <2> QED
      BY <1>4, <1>6, <2>1, <2>2 DEF T!IsExpired
  <1>9. Current(a)'
    <2>1. Current(a)
      BY DEF TaskInv
    <2> QED
      BY <1>1, <1>3, <1>6, <1>7, <1>8, <2>1 DEF Current, T!At
  <1> QED
    BY <1>1, <1>5, <1>6, <1>9, TaskOneActorMoves
-----------------------------------------------------------------------------
(* EndTask *)

\* What the update leaves alone.
LEMMA EndRowMeans ==
    ASSUME T!ConstantsAssumption, TaskInv, NEW t \in {T!NoTask} \cup T!Rowids,
           NEW s \in {"expired", "completed"}, T!EndRow(t, s) \/ UNCHANGED tasks
    PROVE  /\ tasks' \in [T!Rowids -> T!Rows]
           /\ \A u \in T!Rowids :
                \/ tasks'[u] = tasks[u]
                \/ /\ u \in 1 .. taskCount /\ tasks[u].status = "active"
                   /\ tasks'[u].status = s /\ tasks'[u].ended = taskClock
                   /\ tasks'[u].owner = tasks[u].owner /\ tasks'[u].expires = tasks[u].expires
  <1>1. tasks \in [T!Rowids -> T!Rows] /\ taskClock \in Nat
    BY NumbersOf DEF TaskInv, T!TypeOK
  <1>2. CASE UNCHANGED tasks
    BY <1>1, <1>2
  <1>3. CASE T!EndRow(t, s) /\ ~ T!Active(t)
    BY <1>1, <1>3 DEF T!EndRow
  <1>4. CASE T!EndRow(t, s) /\ T!Active(t)
    <2> DEFINE row == [tasks[t] EXCEPT !.status = s, !.ended = taskClock]
    <2>1. t \in T!Rowids /\ t \in 1 .. taskCount /\ tasks[t].status = "active"
      BY <1>4 DEF T!Active, T!NoTask
    <2>2. tasks' = [tasks EXCEPT ![t] = row]
      BY <1>1, <1>4, <2>1 DEF T!EndRow
    <2>3. /\ row \in T!Rows /\ row.status = s /\ row.ended = taskClock
          /\ row.owner = tasks[t].owner /\ row.expires = tasks[t].expires
      BY <1>1, <2>1 DEF T!Rows
    <2> HIDE DEF row
    <2> QED
      BY <1>1, <2>1, <2>2, <2>3
  <1> QED
    BY <1>2, <1>3, <1>4

\* A task is ended while its caller goes on without one.
LEMMA EndsAndMoves ==
    ASSUME T!ConstantsAssumption, TaskInv, NEW a \in T!Actors, NEW s \in {"expired", "completed"},
           T!EndRow(taskLoc[a].task, s) \/ UNCHANGED tasks, UNCHANGED <<taskClock, taskCount>>,
           NEW l \in T!Locals, taskLoc' = [taskLoc EXCEPT ![a] = l], l.task = T!NoTask,
           l.began \in {0, taskLoc[a].began},
           l.at = "idle" \/ (l.owner = taskLoc[a].owner /\ ~ T!At(a, "idle"))
    PROVE  TaskInv'
  <1>1. taskLoc[a].task \in {T!NoTask} \cup T!Rowids
    BY TaskTypesOf DEF TaskInv
  <1>2. /\ tasks' \in [T!Rowids -> T!Rows]
        /\ \A u \in T!Rowids :
             \/ tasks'[u] = tasks[u]
             \/ /\ u \in 1 .. taskCount /\ tasks'[u].ended = taskClock
                /\ tasks'[u].owner = tasks[u].owner /\ tasks'[u].expires = tasks[u].expires
    BY <1>1, EndRowMeans
  <1>3. /\ taskLoc' \in [T!Actors -> T!Locals] /\ taskLoc'[a] = l
        /\ \A b \in T!Actors \ {a} : taskLoc'[b] = taskLoc[b]
    BY DEF TaskInv, T!TypeOK
  <1>4. taskClock \in Nat /\ taskCount \in Nat /\ taskCount <= MaxTasks
    BY NumbersOf DEF TaskInv
  <1>5. T!TypeOK'
    BY <1>2, <1>3 DEF TaskInv, T!TypeOK
  <1>6. TaskBlank'
    BY <1>2, <1>4 DEF TaskInv, TaskBlank, T!Rowids
  <1>7. ASSUME NEW b \in T!Actors PROVE Current(b)'
    <2>1. CASE b # a
      <3>1. ASSUME NEW t \in 1 .. taskCount
            PROVE  /\ tasks'[t].owner = tasks[t].owner /\ tasks'[t].expires = tasks[t].expires
                   /\ tasks'[t] = tasks[t] \/ tasks'[t].ended = taskClock
        <4>1. t \in T!Rowids
          BY <1>4 DEF T!Rowids, T!ConstantsAssumption
        <4> QED
          BY <1>2, <4>1
      <3>2. taskCount' \in Nat /\ taskCount <= taskCount' /\ taskClock' \in Nat /\ taskClock <= taskClock'
        BY <1>4
      <3> QED
        BY <1>3, <2>1, <3>1, <3>2, CurrentStays
    <2>2. CASE b = a
      <3>1. l.began <= taskClock /\ T!NoTask <= taskCount
        <4>1. Current(a)
          BY DEF TaskInv
        <4> QED
          BY <1>4, <4>1 DEF Current, T!NoTask
      <3>2. Current(a)
        BY DEF TaskInv
      <3> QED
        BY <1>3, <2>2, <3>1, <3>2 DEF Current, T!At
    <2> QED
      BY <2>1, <2>2
  <1> QED
    BY <1>5, <1>6, <1>7 DEF TaskInv

LEMMA AutoExpireInv ==
    ASSUME T!ConstantsAssumption, TaskInv, NEW a \in T!Actors, T!AutoExpire(a)
    PROVE  TaskInv'
  <1>1. /\ T!EndRow(taskLoc[a].task, "expired") \/ UNCHANGED tasks
        /\ T!Found(a, T!NoTask) /\ UNCHANGED <<taskClock, taskCount>> /\ ~ T!At(a, "idle")
    BY DEF T!AutoExpire, T!At
  <1>2. PICK l \in T!Locals :
          /\ taskLoc' = [taskLoc EXCEPT ![a] = l]
          /\ l = T!Idle \/ (l.at = "evaluate" /\ l.task = T!NoTask /\ l.owner = taskLoc[a].owner
                          /\ l.began = taskLoc[a].began)
    BY <1>1, FoundMeans
  <1> QED
    BY <1>1, <1>2, TaskIdleFacts, EndsAndMoves

LEMMA CompleteTaskInv ==
    ASSUME T!ConstantsAssumption, TaskInv, NEW a \in T!Actors, T!CompleteTask(a)
    PROVE  TaskInv'
  BY TaskIdleFacts, EndsAndMoves DEF T!CompleteTask, T!Leave
-----------------------------------------------------------------------------
(* Every step *)

LEMMA TaskTickInv == ASSUME T!ConstantsAssumption, TaskInv, T!Tick PROVE TaskInv'
  <1>1. /\ taskClock' = taskClock + 1 /\ taskClock \in Nat /\ taskCount \in Nat
        /\ UNCHANGED <<tasks, taskCount, taskLoc>>
    BY NumbersOf DEF TaskInv, T!Tick
  <1>2. taskClock' \in 1 .. MaxTaskTime
    BY <1>1 DEF T!Tick, T!ConstantsAssumption
  <1>3. T!TypeOK' /\ TaskBlank'
    BY <1>1, <1>2 DEF TaskInv, T!TypeOK, TaskBlank
  <1>4. ASSUME NEW a \in T!Actors PROVE Current(a)'
    <2>1. taskClock' \in Nat /\ taskClock <= taskClock' /\ taskCount' \in Nat /\ taskCount <= taskCount'
      BY <1>1
    <2> QED
      BY <1>1, <2>1, CurrentStays
  <1> QED
    BY <1>3, <1>4 DEF TaskInv

LEMMA TaskStepInv == ASSUME T!ConstantsAssumption, TaskInv, [T!Next]_T!vars PROVE TaskInv'
  <1>0. /\ Starters \subseteq T!Actors /\ Enders \subseteq T!Actors /\ TaskRequests \subseteq T!Actors
        /\ Enders \cap TaskRequests = {} /\ ProxyOwner \in Owners
    BY DEF T!Actors, T!ConstantsAssumption
  <1>1. CASE T!Tick
    BY <1>1, TaskTickInv
  <1>2. ASSUME NEW c \in Starters,
               \/ \E o \in Owners, d \in TaskDurations : T!BuildScope(c, o, d)
               \/ T!CheckActive(c) \/ T!InsertTask(c) \/ T!Refuse(c)
        PROVE  TaskInv'
    <2>1. CASE T!Refuse(c)
      BY <1>0, <2>1, TaskLeaveInv DEF T!Refuse
    <2> QED
      BY <1>2, <2>1, BuildScopeInv, CheckActiveInv, InsertTaskInv
  <1>3. ASSUME NEW e \in Enders, (\E o \in Owners : T!Lookup(e, o)) \/ T!CompleteTask(e)
        PROVE  TaskInv'
    BY <1>0, <1>3, LookupInv, CompleteTaskInv
  <1>4. ASSUME NEW q \in TaskRequests, T!Lookup(q, ProxyOwner) \/ T!Evaluate(q)
        PROVE  TaskInv'
    <2>1. CASE T!Evaluate(q)
      BY <1>0, <2>1, TaskLeaveInv DEF T!Evaluate
    <2> QED
      BY <1>0, <1>4, <2>1, LookupInv
  <1>5. ASSUME NEW a \in Enders \cup TaskRequests,
               T!SelectTask(a) \/ T!LookupFails(a) \/ T!CheckExpiry(a) \/ T!AutoExpire(a)
        PROVE  TaskInv'
    <2>1. a \in T!Actors
      BY <1>0
    <2>2. CASE T!LookupFails(a)
      BY <2>1, <2>2, FoundInv DEF T!LookupFails, T!At
    <2> QED
      BY <1>5, <2>1, <2>2, SelectTaskInv, CheckExpiryInv, AutoExpireInv
  <1>6. CASE UNCHANGED T!vars
    <2>1. UNCHANGED <<taskClock, tasks, taskCount, taskLoc>>
      BY <1>6 DEF T!vars
    <2> QED
      BY <2>1 DEF TaskInv, T!TypeOK, TaskBlank, Current, T!At
  <1> QED
    BY <1>1, <1>2, <1>3, <1>4, <1>5, <1>6 DEF T!Next
-----------------------------------------------------------------------------
(* The theorems *)

\* The invariant holds in every behavior of the specification.
THEOREM TaskInvariance == ASSUME T!ConstantsAssumption PROVE T!Spec => []TaskInv
  <1>1. T!Init => TaskInv
    BY TaskInitInv
  <1>2. TaskInv /\ [T!Next]_T!vars => TaskInv'
    BY TaskStepInv
  <1> QED
    BY <1>1, <1>2, PTL DEF T!Spec

\* The variables keep their types.
THEOREM TaskTypeCorrect == ASSUME T!ConstantsAssumption PROVE T!Spec => []T!TypeOK
  <1>1. TaskInv => T!TypeOK
    BY DEF TaskInv
  <1> QED
    BY <1>1, TaskInvariance, PTL

\* A request is narrowed only by a task of the proxy's slot that had time left
\* and had not ended when the request came (GetActiveTask).
THEOREM NarrowedByCurrent == ASSUME T!ConstantsAssumption PROVE T!Spec => []T!ScopeIsCurrent
  <1>1. TaskInv => T!ScopeIsCurrent
    BY DEF TaskInv, Current, T!ScopeIsCurrent, T!At, T!Actors
  <1> QED
    BY <1>1, TaskInvariance, PTL

\* A task ends once, whoever meets its end first (EndTask).
THEOREM TaskEndsAreFinal == ASSUME T!ConstantsAssumption PROVE T!Spec => T!EndIsFinal
  <1>1. ASSUME TaskInv, [T!Next]_T!vars PROVE [T!EndStays]_tasks
    <2> SUFFICES ASSUME NEW t \in T!Rowids, tasks[t].status \in {"expired", "completed"}, T!Next
                 PROVE  tasks'[t] = tasks[t]
      BY <1>1 DEF T!EndStays, T!vars
    <2>1. ASSUME NEW c \in Starters, T!InsertTask(c) PROVE tasks'[t] = tasks[t]
      <3>1. t # taskCount + 1
        <4>1. taskCount + 1 > taskCount
          BY <1>1, NumbersOf DEF TaskInv
        <4> QED
          BY <1>1, <4>1, TaskIdleFacts DEF TaskInv, TaskBlank
      <3> QED
        BY <1>1, <2>1, <3>1 DEF T!InsertTask, TaskInv, T!TypeOK
    <2>2. ASSUME NEW a \in T!Actors, NEW s \in {"expired", "completed"},
                 T!EndRow(taskLoc[a].task, s) \/ UNCHANGED tasks
          PROVE  tasks'[t] = tasks[t]
      <3>1. taskLoc[a].task \in {T!NoTask} \cup T!Rowids
        BY <1>1, TaskTypesOf DEF TaskInv
      <3>2. \/ tasks'[t] = tasks[t]
            \/ tasks[t].status = "active"
        BY <1>1, <2>2, <3>1, EndRowMeans
      <3> QED
        BY <3>2
    <2> QED
      BY <2>1, <2>2
      DEF T!Next, T!Actors, T!Tick, T!BuildScope, T!CheckActive, T!Refuse, T!Lookup, T!CompleteTask, T!Evaluate,
          T!SelectTask, T!LookupFails, T!CheckExpiry, T!AutoExpire
  <1> QED
    BY <1>1, TaskInvariance, PTL DEF T!Spec, T!EndIsFinal

\* While no other call of AddTask is under way, a starter that inserts has seen
\* its owner without a task.
TaskExclusive ==
    /\ \A t, u \in T!Rowids :
         T!Active(t) /\ T!Active(u) /\ tasks[t].owner = tasks[u].owner => t = u
    /\ \A c \in Starters :
         T!At(c, "insert") =>
           /\ taskLoc[c].scope.owner = taskLoc[c].owner
           /\ \A t \in T!Rowids : T!Active(t) => tasks[t].owner # taskLoc[c].owner
    /\ \A c \in Starters : T!At(c, "check") => taskLoc[c].scope.owner = taskLoc[c].owner

\* No row becomes active, and no starter comes closer to its insert.
LEMMA TaskExclusiveStays ==
    ASSUME TaskExclusive,
           \A t \in T!Rowids : T!Active(t)' => T!Active(t) /\ tasks'[t].owner = tasks[t].owner,
           \A c \in Starters : taskLoc'[c] = taskLoc[c] \/ taskLoc'[c].at \notin {"check", "insert"}
    PROVE  TaskExclusive'
  <1>1. ASSUME NEW t \in T!Rowids, NEW u \in T!Rowids, T!Active(t)', T!Active(u)',
               tasks'[t].owner = tasks'[u].owner
        PROVE  t = u
    BY <1>1 DEF TaskExclusive
  <1>2. ASSUME NEW c \in Starters, T!At(c, "insert")'
        PROVE  /\ taskLoc'[c].scope.owner = taskLoc'[c].owner
               /\ \A t \in T!Rowids : T!Active(t)' => tasks'[t].owner # taskLoc'[c].owner
    <2>1. taskLoc'[c] = taskLoc[c]
      BY <1>2 DEF T!At
    <2> QED
      BY <1>2, <2>1 DEF TaskExclusive, T!At
  <1>3. ASSUME NEW c \in Starters, T!At(c, "check")'
        PROVE  taskLoc'[c].scope.owner = taskLoc'[c].owner
    <2>1. taskLoc'[c] = taskLoc[c]
      BY <1>3 DEF T!At
    <2> QED
      BY <1>3, <2>1 DEF TaskExclusive, T!At
  <1> QED
    BY <1>1, <1>2, <1>3 DEF TaskExclusive, T!Rowids

\* An actor that starts nothing moves, and at most ends a row.
LEMMA OthersKeepExclusive ==
    ASSUME T!ConstantsAssumption, TaskInv, TaskExclusive, NEW a \in T!Actors \ Starters, NEW l,
           taskLoc' = [taskLoc EXCEPT ![a] = l], UNCHANGED taskCount,
           NEW s \in {"expired", "completed"}, T!EndRow(taskLoc[a].task, s) \/ UNCHANGED tasks
    PROVE  TaskExclusive'
  <1>1. taskLoc[a].task \in {T!NoTask} \cup T!Rowids
    BY TaskTypesOf DEF TaskInv
  <1>2. ASSUME NEW t \in T!Rowids, T!Active(t)'
        PROVE  T!Active(t) /\ tasks'[t].owner = tasks[t].owner
    <2>1. tasks'[t] = tasks[t] \/ tasks'[t].status = s
      BY <1>1, EndRowMeans
    <2>2. tasks'[t] = tasks[t]
      BY <1>2, <2>1 DEF T!Active
    <2> QED
      BY <1>2, <2>2 DEF T!Active
  <1>3. \A c \in Starters : taskLoc'[c] = taskLoc[c]
    BY DEF TaskInv, T!TypeOK, T!Actors
  <1> QED
    BY <1>2, <1>3, TaskExclusiveStays

\* One task of an owner is active at a time when no two starters overlap.
LEMMA TaskExclusiveStep ==
    ASSUME T!ConstantsAssumption, T!OneStarter, TaskInv, TaskExclusive, [T!Next]_T!vars
    PROVE  TaskExclusive'
  <1>0. taskLoc \in [T!Actors -> T!Locals] /\ Starters \subseteq T!Actors /\ taskCount \in Nat
        /\ Enders \subseteq T!Actors \ Starters /\ TaskRequests \subseteq T!Actors \ Starters
    BY NumbersOf DEF TaskInv, T!TypeOK, T!Actors, T!ConstantsAssumption
  <1>1. ASSUME NEW c \in Starters, NEW o \in Owners, NEW d \in TaskDurations, T!BuildScope(c, o, d)
        PROVE  TaskExclusive'
    <2>1. \A t \in T!Rowids : (T!Active(t)' <=> T!Active(t)) /\ tasks'[t] = tasks[t]
      BY <1>1 DEF T!BuildScope, T!Active
    <2>2. /\ taskLoc'[c].at = "check" /\ taskLoc'[c].owner = o /\ taskLoc'[c].scope.owner = o
          /\ \A b \in Starters : b = c
      BY <1>0, <1>1 DEF T!BuildScope, T!OneStarter, T!Idle
    <2> QED
      BY <2>1, <2>2 DEF TaskExclusive, T!At, T!Rowids
  <1>2. ASSUME NEW c \in Starters, T!CheckActive(c) PROVE TaskExclusive'
    <2>1. \A t \in T!Rowids : (T!Active(t)' <=> T!Active(t)) /\ tasks'[t] = tasks[t]
      BY <1>2 DEF T!CheckActive, T!Active
    <2>2. /\ taskLoc[c] \in T!Locals /\ taskLoc[c].scope.owner = taskLoc[c].owner
          /\ \A b \in Starters : b = c
      BY <1>0, <1>2 DEF TaskExclusive, T!OneStarter, T!CheckActive
    <2>3. CASE \E t \in T!Rowids : T!Active(t) /\ tasks[t].owner = taskLoc[c].owner
      <3>1. taskLoc' = [taskLoc EXCEPT ![c].at = "refused", ![c].now = taskClock]
        BY <1>2, <2>3 DEF T!CheckActive
      <3>2. taskLoc' = [taskLoc EXCEPT ![c] = [taskLoc[c] EXCEPT !.at = "refused", !.now = taskClock]]
        BY <1>0, <3>1
      <3>3. taskLoc'[c] = [taskLoc[c] EXCEPT !.at = "refused", !.now = taskClock]
        BY <1>0, <3>2
      <3>4. taskLoc'[c].at = "refused"
        BY <2>2, <3>3 DEF T!Locals
      <3> QED
        BY <2>1, <2>2, <3>4 DEF TaskExclusive, T!At, T!Rowids
    <2>4. CASE ~ \E t \in T!Rowids : T!Active(t) /\ tasks[t].owner = taskLoc[c].owner
      <3>1. taskLoc' = [taskLoc EXCEPT ![c].at = "insert"]
        BY <1>2, <2>4 DEF T!CheckActive
      <3>2. taskLoc'[c] = [taskLoc[c] EXCEPT !.at = "insert"]
        BY <1>0, <3>1
      <3>3. /\ taskLoc'[c].at = "insert" /\ taskLoc'[c].owner = taskLoc[c].owner
            /\ taskLoc'[c].scope = taskLoc[c].scope
        BY <2>2, <3>2 DEF T!Locals
      <3> QED
        BY <2>1, <2>2, <2>4, <3>3 DEF TaskExclusive, T!At, T!Rowids
    <2> QED
      BY <2>3, <2>4
  <1>3. ASSUME NEW c \in Starters, T!InsertTask(c) PROVE TaskExclusive'
    <2>1. /\ tasks' = [tasks EXCEPT ![taskCount + 1] = taskLoc[c].scope] /\ taskCount' = taskCount + 1
          /\ T!At(c, "insert") /\ tasks \in [T!Rowids -> T!Rows]
      BY <1>3 DEF T!InsertTask, TaskInv, T!TypeOK
    <2>2. /\ taskLoc[c].scope.owner = taskLoc[c].owner
          /\ \A t \in T!Rowids : T!Active(t) => tasks[t].owner # taskLoc[c].owner
      BY <2>1 DEF TaskExclusive
    <2>3. ASSUME NEW t \in T!Rowids, T!Active(t)', t # taskCount + 1
          PROVE  T!Active(t) /\ tasks'[t] = tasks[t]
      BY <1>0, <2>1, <2>3 DEF T!Active, T!Rowids
    <2>4. taskCount + 1 \in T!Rowids => tasks'[taskCount + 1] = taskLoc[c].scope
      BY <2>1
    <2>5. ASSUME NEW b \in Starters PROVE taskLoc'[b].at = "idle"
      BY <1>0, <1>3, TaskIdleFacts DEF T!InsertTask, T!Leave, T!OneStarter
    <2>6. ASSUME NEW t \in T!Rowids, NEW u \in T!Rowids, T!Active(t)', T!Active(u)',
                 tasks'[t].owner = tasks'[u].owner
          PROVE  t = u
      <3>1. CASE t = taskCount + 1 /\ u # taskCount + 1
        BY <2>2, <2>3, <2>4, <2>6, <3>1
      <3>2. CASE u = taskCount + 1 /\ t # taskCount + 1
        BY <2>2, <2>3, <2>4, <2>6, <3>2
      <3>3. CASE t # taskCount + 1 /\ u # taskCount + 1
        BY <2>3, <2>6, <3>3 DEF TaskExclusive
      <3> QED
        BY <3>1, <3>2, <3>3
    <2> QED
      BY <2>5, <2>6 DEF TaskExclusive, T!At, T!Rowids
  <1>4. ASSUME NEW c \in Starters, T!Refuse(c) PROVE TaskExclusive'
    <2>1. \A t \in T!Rowids : T!Active(t)' => T!Active(t) /\ tasks'[t].owner = tasks[t].owner
      BY <1>4 DEF T!Refuse, T!Active
    <2>2. \A b \in Starters : taskLoc'[b] = taskLoc[b] \/ taskLoc'[b].at \notin {"check", "insert"}
      BY <1>0, <1>4, TaskIdleFacts DEF T!Refuse, T!Leave
    <2> QED
      BY <2>1, <2>2, TaskExclusiveStays
  <1>5. ASSUME NEW a \in T!Actors \ Starters,
               \/ \E o \in Owners : T!Lookup(a, o)
               \/ T!CompleteTask(a) \/ T!Evaluate(a) \/ T!SelectTask(a) \/ T!LookupFails(a)
               \/ T!CheckExpiry(a) \/ T!AutoExpire(a)
        PROVE  TaskExclusive'
    <2>1. CASE (\E o \in Owners : T!Lookup(a, o)) \/ T!CheckExpiry(a)
      <3>1. UNCHANGED <<tasks, taskCount>> /\ \E l : taskLoc' = [taskLoc EXCEPT ![a] = l]
        BY <1>0, <2>1 DEF T!Lookup, T!CheckExpiry
      <3> QED
        BY <3>1, OthersKeepExclusive
    <2>2. CASE T!CompleteTask(a) \/ T!Evaluate(a)
      BY <2>2, OthersKeepExclusive DEF T!CompleteTask, T!Evaluate, T!Leave
    <2>3. CASE T!SelectTask(a)
      <3>1. T!NewestOf(T!Selectable(taskLoc[a].owner)) \in {T!NoTask} \cup T!Rowids
        <4>1. T!Selectable(taskLoc[a].owner) \subseteq T!Rowids
          BY NumbersOf DEF T!Selectable, T!Rowids, TaskInv, T!ConstantsAssumption
        <4> QED
          BY <4>1, NewestIsOneOf DEF TaskInv
      <3>2. \E l \in T!Locals : taskLoc' = [taskLoc EXCEPT ![a] = l]
        BY <2>3, <3>1, FoundMeans DEF T!SelectTask
      <3>3. UNCHANGED <<tasks, taskCount>>
        BY <2>3 DEF T!SelectTask
      <3> QED
        BY <3>2, <3>3, OthersKeepExclusive
    <2>4. CASE T!LookupFails(a) \/ T!AutoExpire(a)
      <3>1. \E l \in T!Locals : taskLoc' = [taskLoc EXCEPT ![a] = l]
        BY <2>4, FoundMeans DEF T!LookupFails, T!AutoExpire
      <3>2. UNCHANGED taskCount /\ (T!EndRow(taskLoc[a].task, "expired") \/ UNCHANGED tasks)
        BY <2>4 DEF T!LookupFails, T!AutoExpire
      <3> QED
        BY <3>1, <3>2, OthersKeepExclusive
    <2> QED
      BY <1>5, <2>1, <2>2, <2>3, <2>4
  <1>6. ASSUME UNCHANGED <<tasks, taskCount, taskLoc>> PROVE TaskExclusive'
    BY <1>6 DEF TaskExclusive, T!Active, T!At, T!Rowids
  <1>7. ASSUME T!Tick PROVE TaskExclusive'
    BY <1>6, <1>7 DEF T!Tick
  <1>8. ASSUME UNCHANGED T!vars PROVE TaskExclusive'
    BY <1>6, <1>8 DEF T!vars
  <1>9. ASSUME NEW e \in Enders, (\E o \in Owners : T!Lookup(e, o)) \/ T!CompleteTask(e)
        PROVE  TaskExclusive'
    BY <1>0, <1>5, <1>9
  <1>10. ASSUME NEW q \in TaskRequests, T!Lookup(q, ProxyOwner) \/ T!Evaluate(q)
         PROVE  TaskExclusive'
    <2>1. q \in T!Actors \ Starters /\ ProxyOwner \in Owners
      BY <1>0 DEF T!ConstantsAssumption
    <2> QED
      BY <1>5, <1>10, <2>1
  <1>11. ASSUME NEW a \in Enders \cup TaskRequests,
                T!SelectTask(a) \/ T!LookupFails(a) \/ T!CheckExpiry(a) \/ T!AutoExpire(a)
         PROVE  TaskExclusive'
    <2>1. a \in T!Actors \ Starters
      BY <1>0
    <2> QED
      BY <1>5, <1>11, <2>1
  <1> QED
    BY <1>1, <1>2, <1>3, <1>4, <1>7, <1>8, <1>9, <1>10, <1>11 DEF T!Next

\* An owner has one active task at a time (AddTask), as long as the check and
\* the insert of two calls do not interleave.
THEOREM OneIsActive == ASSUME T!ConstantsAssumption, T!OneStarter PROVE T!Spec => []T!OneActivePerOwner
  <1>1. T!Init => TaskExclusive
    BY TaskIdleFacts DEF T!Init, TaskExclusive, T!At, T!Active, T!Actors
  <1>2. TaskInv /\ TaskExclusive /\ [T!Next]_T!vars => TaskExclusive'
    BY TaskExclusiveStep
  <1>3. TaskExclusive => T!OneActivePerOwner
    BY DEF TaskExclusive, T!OneActivePerOwner
  <1> QED
    BY <1>1, <1>2, <1>3, TaskInvariance, PTL DEF T!Spec

-----------------------------------------------------------------------------
(* Both kinds of windows *)

\* A behaviour of one kind of windows leaves the other as it began.
LEMMA EachKind == WindowsSpec => Spec /\ T!Spec
  <1>1. WindowsInit => Init /\ T!Init
    BY DEF WindowsInit
  <1>2. [WindowsNext]_<<kind, vars, taskVars>> => [Next]_vars
    BY DEF WindowsNext
  <1>3. [WindowsNext]_<<kind, vars, taskVars>> => [T!Next]_(T!vars)
    BY DEF WindowsNext, taskVars, T!vars
  <1> QED
    BY <1>1, <1>2, <1>3, PTL DEF WindowsSpec, Spec, T!Spec

\* One window of each kind is current at a time, and no request is evaluated under one
\* that had run out when it looked: pauses (StartPause, GetActivePause) and tasks
\* (AddTask, GetActiveTask), as long as no two calls that open one overlap.
THEOREM OneIsCurrent ==
    ASSUME OneStarter, T!OneStarter
    PROVE  WindowsSpec => []OneCurrentWindow
  <1>1. ConstantsAssumption /\ T!ConstantsAssumption
    BY MCWindowsAssumption
  <1>2. T!Spec => []T!ScopeIsCurrent
    BY <1>1, NarrowedByCurrent
  <1>3. T!Spec => []T!OneActivePerOwner
    BY <1>1, OneIsActive
  <1>4. Spec => []OneOpenPause /\ []BypassEndsOnTime
    BY <1>1, OneIsOpen, BypassesEndOnTime
  <1>5. OneOpenPause /\ BypassEndsOnTime /\ T!OneActivePerOwner /\ T!ScopeIsCurrent
          => OneCurrentWindow
    BY DEF OneCurrentWindow
  <1> QED
    BY <1>2, <1>3, <1>4, <1>5, EachKind, PTL
=============================================================================
