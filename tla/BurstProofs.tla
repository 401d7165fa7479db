----------------------------- MODULE BurstProofs -----------------------------
(***************************************************************************)
(* Proofs about the burst detector and the bulk answer, for any number of  *)
(* requests, answerers, restarts and any clock.                            *)
(*                                                                         *)
(* A request is fed once, so a burst can count it twice only through the   *)
(* window: while the detector is armed its window holds nothing a burst    *)
(* has counted, because the end of a cool-down empties it.  Stamps are     *)
(* never ahead of the clock, so a feed that finds the silence over finds   *)
(* the clock past it, whatever the order in which the stamps arrive.  An   *)
(* answerer's snapshot is covered by its rules and the shapes it has left. *)
(***************************************************************************)
EXTENDS Burst, FiniteSetTheorems, SequenceTheorems, FunctionTheorems, WellFoundedInduction, TLAPS

Bursts == 1 .. Len(bursts)

\* A request feeds the detector once, at a time that is not ahead of the clock.
Stamped == \A r \in Requests : req[r].at = "feed" => req[r].now \in 1 .. clock

IsFed(r) == r \in Requests /\ req[r].at = "done"

\* The window holds requests that were fed, each once, and so did every burst.
FedOnce ==
    /\ \A i \in 1 .. Len(window) : IsFed(window[i])
    /\ \A i, j \in 1 .. Len(window) : window[i] = window[j] => i = j
    /\ \A b \in Bursts : \A r \in bursts[b].by : IsFed(r)

\* An armed detector has none in its window that a burst has counted.
ArmedIsFresh ==
    coolUntil = 0 => \A i \in 1 .. Len(window), b \in Bursts : window[i] \notin bursts[b].by

\* The silence after a burst of this run of the proxy lasts, or it is over.
Cooling ==
    \A b \in Bursts :
        /\ bursts[b].run <= restarts
        /\ bursts[b].run = restarts => \/ coolUntil >= bursts[b].trip + Cooldown
                                       \/ clock >= bursts[b].trip + Cooldown

Detects == Stamped /\ FedOnce /\ ArmedIsFresh /\ Cooling /\ BurstsAreApart

\* A request that has a prompt has been denied, and a denied one has its shape.
PromptedIsDenied ==
    \A r \in Requests : /\ prompts[r].status # "none" => req[r].at # "idle"
                        /\ req[r].at # "idle" => req[r].shape \in Shapes

HasRule(r, b) == \E rule \in rules : rule.shape = req[r].shape /\ rule.burst = b

\* What a bulk answer saw pending has its rule, or will before anything is answered.
Answers(o) ==
    /\ job[o].at # "idle" => job[o].decision \in Decisions
    /\ job[o].at \in {"snapshot", "install"} => job[o].decision \in TtlDecisions
    /\ job[o].at = "flip" => job[o].decision \notin TtlDecisions
    /\ \A r \in job[o].seen : req[r].at # "idle"
    /\ job[o].at = "install" =>
         \A r \in job[o].seen :
           req[r].shape \notin Blank => req[r].shape \in job[o].shapes \/ HasRule(r, job[o].burst)
    /\ job[o].at = "resolve" /\ job[o].decision \in TtlDecisions =>
         \A r \in job[o].seen : req[r].shape \notin Blank => HasRule(r, job[o].burst)

AnswersHold == PromptedIsDenied /\ \A o \in Answerers : Answers(o)

Inv == TypeOK /\ Detects /\ AnswersHold
-----------------------------------------------------------------------------
(* Numbers and sequences *)

\* Of some numbers up to n there is a greatest one, and a least.
LEMMA GreatestExists ==
    ASSUME NEW n \in Nat, NEW S \in SUBSET (0 .. n), S # {}
    PROVE  Max(S) \in S /\ \A y \in S : Max(S) >= y
<1> DEFINE Above(x) == {y \in S : y > x}
           Uppers == {Above(x) : x \in S}
           R == StrictSubsetOrdering(S)
<1>1. IsFiniteSet(S) /\ S \subseteq Int
  <2>1. IsFiniteSet(0 .. n) /\ S \subseteq 0 .. n
    BY FS_Interval, 0 \in Int, n \in Int
  <2>2. IsFiniteSet(S)
    BY <2>1, FS_Subset
  <2>3. S \subseteq Int
    OBVIOUS
  <2> QED
    BY <2>2, <2>3
<1>2. Uppers \subseteq SUBSET S /\ Uppers # {}
  OBVIOUS
<1>3. IsWellFoundedOn(R, SUBSET S)
  BY <1>1, FS_StrictSubsetOrderingWellFounded, FS_FiniteSubsetsOfFinite
<1>4. PICK U \in Uppers : \A V \in Uppers : ~ (<<V, U>> \in R)
  <2> HIDE DEF Uppers, R
  <2> QED
    BY <1>2, <1>3, WFMin
<1>5. PICK x \in S : U = Above(x)
  BY <1>4
<1>6. \A z \in S : x >= z
  <2> SUFFICES ASSUME NEW z \in S, z > x
               PROVE  FALSE
    BY <1>1
  <2>1. Above(z) \subseteq Above(x) /\ z \in Above(x) /\ z \notin Above(z)
    <3>1. \A y \in S : y > z => y > x
      BY <1>1
    <3>2. ~ (z > z)
      BY <1>1
    <3> QED
      BY <3>1, <3>2
  <2>2. <<Above(z), Above(x)>> \in R
    BY <2>1 DEF StrictSubsetOrdering
  <2> QED
    BY <1>4, <1>5, <2>2
<1> QED
  BY <1>6 DEF Max

\* The same of a least one.
LEMMA LeastExists ==
    ASSUME NEW n \in Nat, NEW S \in SUBSET (0 .. n), S # {}
    PROVE  Min(S) \in S /\ \A y \in S : Min(S) <= y
<1> DEFINE T == {n - y : y \in S}
<1>1. T \in SUBSET (0 .. n) /\ T # {}
  OBVIOUS
<1>2. Max(T) \in T /\ \A y \in S : Max(T) >= n - y
  BY <1>1, GreatestExists
<1>3. PICK x \in S : Max(T) = n - x
  BY <1>2
<1> HIDE DEF T
<1>4. \A y \in S : x <= y
  <2> TAKE y \in S
  <2>1. n - x >= n - y
    BY <1>2, <1>3
  <2> QED
    BY <2>1
<1> QED
  BY <1>4 DEF Min

\* What is pruned from a window is taken from its head.
LEMMA PrunedIsPart ==
    ASSUME NEW w \in Seq(Requests), NEW now
    PROVE  /\ Pruned(w, now) \in Seq(Requests)
           /\ \E k \in Nat : \A i \in 1 .. Len(Pruned(w, now)) :
                               i + k \in 1 .. Len(w) /\ Pruned(w, now)[i] = w[i + k]
<1> DEFINE kept == {i \in 1 .. Len(w) : ~ (req[w[i]].now + Window < now)}
<1>0. Len(w) \in Nat /\ \A i \in 1 .. Len(w) : w[i] \in Requests
  BY LenProperties, ElementOfSeq
<1>1. Pruned(w, now) = IF kept = {} THEN <<>> ELSE SubSeq(w, Min(kept), Len(w))
  BY DEF Pruned
<1>2. CASE kept = {}
  BY <1>1, <1>2, EmptySeq
<1>3. CASE kept # {}
  <2>1. kept \in SUBSET (0 .. Len(w))
    BY <1>0
  <2>2. Min(kept) \in 1 .. Len(w)
    BY <1>0, <1>3, <2>1, LeastExists
  <2> DEFINE m == Min(kept)
             p == SubSeq(w, m, Len(w))
  <2> HIDE DEF kept
  <2>3. /\ p \in Seq(Requests) /\ Len(p) = Len(w) - m + 1
        /\ \A i \in 1 .. Len(w) - m + 1 : p[i] = w[m + i - 1]
    BY <1>0, <2>2, SubSeqProperties
  <2>4. m - 1 \in Nat /\ \A i \in 1 .. Len(p) : i + (m - 1) \in 1 .. Len(w) /\ p[i] = w[i + (m - 1)]
    BY <1>0, <2>2, <2>3
  <2> QED
    BY <1>1, <1>3, <2>3, <2>4
<1> QED
  BY <1>2, <1>3

\* As many different entries as there are, so many elements.
LEMMA DistinctEntries ==
    ASSUME NEW w \in Seq(Requests), \A i, j \in 1 .. Len(w) : w[i] = w[j] => i = j
    PROVE  Cardinality({w[i] : i \in 1 .. Len(w)}) = Len(w)
<1> DEFINE T == {w[i] : i \in 1 .. Len(w)}
<1>1. Len(w) \in Nat /\ w \in [1 .. Len(w) -> Requests]
  BY LenProperties
<1>2. IsFiniteSet(1 .. Len(w)) /\ Cardinality(1 .. Len(w)) = Len(w)
  BY <1>1, FS_Interval
<1>3. w \in Surjection(1 .. Len(w), T) /\ w \in Injection(1 .. Len(w), T)
  BY <1>1 DEF Surjection, Injection, IsInjective
<1>4. Cardinality(T) = Cardinality(1 .. Len(w))
  BY <1>2, <1>3, FS_Surjection
<1> QED
  BY <1>2, <1>4
-----------------------------------------------------------------------------
(* The types *)

ReqTypes == [at : {"idle", "insert", "stamp", "feed", "done"}, shape : Shapes \cup {""},
             now : 0 .. MaxTime]
BurstTypes == [at : 1 .. MaxTime, by : SUBSET Requests, kind : Decisions \cup {Unresolved},
               resolved : 0 .. MaxTime, trip : 1 .. MaxTime, run : 0 .. MaxRestarts]
JobTypes == [at : {"idle", "snapshot", "install", "flip", "resolve"}, decision : Decisions \cup {""},
             burst : Nat, now : 0 .. MaxTime, shapes : SUBSET Shapes, seen : SUBSET Requests]
PromptTypes == [status : {"none", "pending", "answered"}, target : Decisions \cup {"", "single"}]
RuleTypes == [shape : Shapes, expires : Nat, burst : Nat]

\* TypeOK with its record types named.
LEMMA TypesUnfold ==
    TypeOK <=> /\ clock \in 1 .. MaxTime /\ req \in [Requests -> ReqTypes]
               /\ prompts \in [Requests -> PromptTypes] /\ window \in Seq(Requests)
               /\ coolUntil \in 0 .. MaxTime + Cooldown /\ bursts \in Seq(BurstTypes)
               /\ rules \subseteq RuleTypes /\ job \in [Answerers -> JobTypes]
               /\ restarts \in 0 .. MaxRestarts
BY DEF TypeOK, ReqTypes, BurstTypes, JobTypes, PromptTypes, RuleTypes

\* What the constants say of numbers.
LEMMA Numbers ==
    ASSUME ConstantsAssumption
    PROVE  /\ MaxTime \in Nat /\ MaxTime >= 1 /\ MaxRestarts \in Nat
           /\ Threshold \in Nat /\ Cooldown \in Nat \ {0} /\ Window \in Nat
           /\ \A d \in TtlDecisions : Ttl[d] \in Nat
BY DEF ConstantsAssumption

\* One request moves on.
LEMMA RequestMoves ==
    ASSUME TypeOK, NEW r \in Requests, NEW q \in ReqTypes, req' = [req EXCEPT ![r] = q]
    PROVE  req' \in [Requests -> ReqTypes] /\ req'[r] = q /\ \A p \in Requests \ {r} : req'[p] = req[p]
BY TypesUnfold

\* One answerer moves on.
LEMMA JobMoves ==
    ASSUME TypeOK, NEW o \in Answerers, NEW j \in JobTypes, job' = [job EXCEPT ![o] = j]
    PROVE  job' \in [Answerers -> JobTypes] /\ job'[o] = j /\ \A p \in Answerers \ {o} : job'[p] = job[p]
BY TypesUnfold

\* What an answerer holds between two answers.
LEMMA IdleIsJob ==
    ASSUME ConstantsAssumption
    PROVE  Idle \in JobTypes /\ Idle.at = "idle" /\ Idle.seen = {}
<1>1. 0 \in 0 .. MaxTime
  BY Numbers
<1> QED
  BY <1>1 DEF Idle, JobTypes

\* The entry of the burst table that a feed may add.
Recorded(r, w) == [at |-> clock, by |-> {w[i] : i \in 1 .. Len(w)}, kind |-> Unresolved,
                   resolved |-> 0, trip |-> req[r].now, run |-> restarts]

\* The entry is one of the table's, with a stamp that is not ahead of its clock.
LEMMA RecordedType ==
    ASSUME ConstantsAssumption, TypeOK, Stamped, NEW r \in Requests, req[r].at = "feed",
           NEW w \in Seq(Requests)
    PROVE  Recorded(r, w) \in BurstTypes
<1>1. /\ clock \in 1 .. MaxTime /\ restarts \in 0 .. MaxRestarts /\ MaxTime \in Nat
      /\ req[r].now \in 1 .. clock
  BY Numbers, TypesUnfold DEF Stamped
<1>2. req[r].now \in 1 .. MaxTime /\ 0 \in 0 .. MaxTime
  BY <1>1
<1>3. {w[i] : i \in 1 .. Len(w)} \in SUBSET Requests
  BY ElementOfSeq
<1> QED
  BY <1>1, <1>2, <1>3 DEF Recorded, BurstTypes

\* What a feed leaves of the window, and what it may record.
LEMMA FeedStep ==
    ASSUME ConstantsAssumption, TypeOK, Stamped, NEW r \in Requests, Feed(r)
    PROVE  /\ req[r].at = "feed" /\ req[r].now \in 1 .. clock
           /\ req' \in [Requests -> ReqTypes] /\ req'[r] = [req[r] EXCEPT !.at = "done"]
           /\ \A p \in Requests \ {r} : req'[p] = req[p]
           /\ \/ /\ coolUntil # 0 /\ window' = Pruned(window, req[r].now)
                 /\ UNCHANGED <<coolUntil, bursts>>
              \/ /\ window' = Pruned(Append(ReArmed, r), req[r].now)
                 /\ coolUntil # 0 => req[r].now >= coolUntil
                 /\ \/ coolUntil' = 0 /\ UNCHANGED bursts
                    \/ /\ Len(window') >= Threshold /\ coolUntil' = req[r].now + Cooldown
                       /\ bursts' = Append(bursts, Recorded(r, window')) \/ UNCHANGED bursts
           /\ UNCHANGED <<clock, prompts, rules, job, restarts>>
<1>1. /\ req[r].at = "feed" /\ req[r] \in ReqTypes /\ req[r].now \in 1 .. clock
      /\ req' = [req EXCEPT ![r] = [req[r] EXCEPT !.at = "done"]]
      /\ UNCHANGED <<clock, prompts, rules, job, restarts>>
  BY TypesUnfold DEF Feed, Stamped
<1>2. [req[r] EXCEPT !.at = "done"] \in ReqTypes
  BY <1>1 DEF ReqTypes
<1>3. /\ req' \in [Requests -> ReqTypes] /\ req'[r] = [req[r] EXCEPT !.at = "done"]
      /\ \A p \in Requests \ {r} : req'[p] = req[p]
  BY <1>1, <1>2, RequestMoves
<1>4. coolUntil \in Nat /\ req[r].now \in Nat /\ Threshold \in Nat
  BY <1>1, Numbers, TypesUnfold
<1> DEFINE w == Pruned(Append(ReArmed, r), req[r].now)
<1>5. CASE Silenced(req[r].now)
  BY <1>1, <1>3, <1>5 DEF Feed, Silenced
<1>6. CASE ~ Silenced(req[r].now)
  <2>1. /\ window' = w
        /\ IF Len(w) < Threshold
           THEN coolUntil' = 0 /\ UNCHANGED bursts
           ELSE /\ coolUntil' = CoolsFrom(req[r].now)
                /\ RecordBurst(r, w) \/ UNCHANGED bursts
    BY <1>6 DEF Feed
  <2>2. w \in Seq(Requests)
    <3>1. ReArmed \in Seq(Requests)
      BY TypesUnfold, EmptySeq DEF ReArmed
    <3> QED
      BY <3>1, AppendProperties, PrunedIsPart
  <2>3. Len(w) \in Nat
    BY <2>2, LenProperties
  <2>4. coolUntil # 0 => req[r].now >= coolUntil
    BY <1>4, <1>6 DEF Silenced
  <2> HIDE DEF w
  <2>5. Len(w) < Threshold \/ Len(w) >= Threshold
    BY <2>3, <1>4
  <2>6. RecordBurst(r, w) => bursts' = Append(bursts, Recorded(r, w))
    BY DEF RecordBurst, Recorded
  <2>7. window' = Pruned(Append(ReArmed, r), req[r].now)
    BY <2>1 DEF w
  <2> QED
    BY <1>1, <1>3, <2>1, <2>4, <2>5, <2>6, <2>7 DEF CoolsFrom
<1> QED
  BY <1>5, <1>6

\* Whichever window a feed leaves, it is a window, of entries that were in it and
\* the one fed; where a cool-down ran out, of that one alone.
LEMMA FedWindow ==
    ASSUME ConstantsAssumption, TypeOK, FedOnce, NEW r \in Requests, req[r].at = "feed", NEW v,
           v = Pruned(window, req[r].now) \/ v = Pruned(Append(ReArmed, r), req[r].now)
    PROVE  /\ v \in Seq(Requests) /\ Len(v) \in Nat
           /\ \A i \in 1 .. Len(v) : v[i] = r \/ \E k \in 1 .. Len(window) : v[i] = window[k]
           /\ \A i, j \in 1 .. Len(v) : v[i] = v[j] => i = j
           /\ v = Pruned(Append(ReArmed, r), req[r].now) /\ coolUntil # 0 =>
                 \A i \in 1 .. Len(v) : v[i] = r
<1>1. window \in Seq(Requests) /\ Len(window) \in Nat
  BY TypesUnfold, LenProperties
<1>2. \A k \in 1 .. Len(window) : window[k] # r
  BY DEF FedOnce, IsFed
<1>3. ASSUME v = Pruned(window, req[r].now)
      PROVE  /\ v \in Seq(Requests) /\ Len(v) \in Nat
             /\ \A i \in 1 .. Len(v) : \E k \in 1 .. Len(window) : v[i] = window[k]
             /\ \A i, j \in 1 .. Len(v) : v[i] = v[j] => i = j
  <2>1. v \in Seq(Requests) /\ Len(v) \in Nat
    BY <1>1, <1>3, PrunedIsPart, LenProperties
  <2>2. PICK k \in Nat : \A i \in 1 .. Len(v) : i + k \in 1 .. Len(window) /\ v[i] = window[i + k]
    <3>1. \E k \in Nat : \A i \in 1 .. Len(Pruned(window, req[r].now)) :
             i + k \in 1 .. Len(window) /\ Pruned(window, req[r].now)[i] = window[i + k]
      BY <1>1, PrunedIsPart, Zenon
    <3> QED
      BY <1>3, <3>1
  <2>3. \A i, j \in 1 .. Len(v) : v[i] = v[j] => i = j
    <3> TAKE i, j \in 1 .. Len(v)
    <3>1. v[i] = v[j] => i + k = j + k
      BY <2>2 DEF FedOnce
    <3> QED
      BY <2>1, <3>1
  <2> QED
    BY <2>1, <2>2, <2>3
<1>4. ASSUME v = Pruned(Append(ReArmed, r), req[r].now)
      PROVE  /\ v \in Seq(Requests) /\ Len(v) \in Nat
             /\ \A i \in 1 .. Len(v) : v[i] = r \/ \E k \in 1 .. Len(window) : v[i] = window[k]
             /\ \A i, j \in 1 .. Len(v) : v[i] = v[j] => i = j
             /\ coolUntil # 0 => \A i \in 1 .. Len(v) : v[i] = r
  <2> DEFINE w == Append(ReArmed, r)
  <2>1. ReArmed \in Seq(Requests) /\ Len(ReArmed) \in Nat
    BY <1>1, EmptySeq DEF ReArmed
  <2>2. /\ w \in Seq(Requests) /\ Len(w) = Len(ReArmed) + 1 /\ w[Len(ReArmed) + 1] = r
        /\ \A i \in 1 .. Len(ReArmed) : w[i] = ReArmed[i]
    BY <2>1, AppendProperties
  <2>3. \A i \in 1 .. Len(w) : w[i] = r \/ (i \in 1 .. Len(window) /\ w[i] = window[i])
    BY <2>1, <2>2, EmptySeq DEF ReArmed
  <2>4. \A i, j \in 1 .. Len(w) : w[i] = w[j] => i = j
    <3>1. \A i \in 1 .. Len(w) : i = Len(ReArmed) + 1 \/ i \in 1 .. Len(ReArmed)
      BY <2>1, <2>2
    <3>2. \A i \in 1 .. Len(ReArmed) : i \in 1 .. Len(window) /\ w[i] = window[i] /\ w[i] # r
      BY <2>1, <2>2, <1>2, EmptySeq DEF ReArmed
    <3> QED
      BY <3>1, <3>2, <2>2 DEF FedOnce
  <2>5. coolUntil # 0 => \A i \in 1 .. Len(w) : w[i] = r
    BY <2>2, EmptySeq DEF ReArmed
  <2>6. v = Pruned(w, req[r].now) /\ w \in Seq(Requests)
    BY <1>4, <2>2
  <2> HIDE DEF w
  <2>7. v \in Seq(Requests) /\ Len(v) \in Nat
    BY <2>6, PrunedIsPart, LenProperties
  <2>8. PICK k \in Nat : \A i \in 1 .. Len(v) : i + k \in 1 .. Len(w) /\ v[i] = w[i + k]
    <3>1. \E k \in Nat : \A i \in 1 .. Len(Pruned(w, req[r].now)) :
             i + k \in 1 .. Len(w) /\ Pruned(w, req[r].now)[i] = w[i + k]
      BY <2>6, PrunedIsPart, Zenon
    <3> QED
      BY <2>6, <3>1
  <2>9. \A i, j \in 1 .. Len(v) : v[i] = v[j] => i = j
    <3> TAKE i, j \in 1 .. Len(v)
    <3>1. v[i] = v[j] => i + k = j + k
      BY <2>4, <2>8
    <3> QED
      BY <3>1, <2>7
  <2>10. \A i \in 1 .. Len(v) : v[i] = r \/ \E m \in 1 .. Len(window) : v[i] = window[m]
    BY <2>3, <2>8
  <2>11. coolUntil # 0 => \A i \in 1 .. Len(v) : v[i] = r
    BY <2>5, <2>8
  <2> QED
    BY <2>7, <2>9, <2>10, <2>11
<1> QED
  BY <1>3, <1>4
-----------------------------------------------------------------------------
(* Every step keeps the types *)

\* The primed half of TypesUnfold.
LEMMA TypesFold ==
    ASSUME clock' \in 1 .. MaxTime, req' \in [Requests -> ReqTypes],
           prompts' \in [Requests -> PromptTypes], window' \in Seq(Requests),
           coolUntil' \in 0 .. MaxTime + Cooldown, bursts' \in Seq(BurstTypes),
           rules' \subseteq RuleTypes, job' \in [Answerers -> JobTypes], restarts' \in 0 .. MaxRestarts
    PROVE  TypeOK'
BY DEF TypeOK, ReqTypes, BurstTypes, JobTypes, PromptTypes, RuleTypes

\* What a request does keeps the types.
LEMMA RequestsKeepTypes ==
    ASSUME ConstantsAssumption, TypeOK, Stamped, FedOnce, NEW r \in Requests,
           \/ \E s \in Shapes : Deny(r, s)
           \/ InsertPrompt(r) \/ Stamp(r) \/ Feed(r) \/ AnswerOne(r)
    PROVE  TypeOK'
<1> USE TypesUnfold
<1>0. req[r] \in ReqTypes /\ prompts[r] \in PromptTypes /\ clock \in 0 .. MaxTime
  BY Numbers
<1>1. ASSUME NEW s \in Shapes, Deny(r, s)
      PROVE  TypeOK'
  <2>1. [req[r] EXCEPT !.at = "insert", !.shape = s] \in ReqTypes
    BY <1>0 DEF ReqTypes
  <2>2. req' = [req EXCEPT ![r] = [req[r] EXCEPT !.at = "insert", !.shape = s]]
    BY <1>1 DEF Deny
  <2> QED
    BY <1>1, <2>1, <2>2, TypesFold DEF Deny, store, detector
<1>2. CASE InsertPrompt(r)
  <2>1. /\ [req[r] EXCEPT !.at = "stamp"] \in ReqTypes /\ [req[r] EXCEPT !.at = "done"] \in ReqTypes
        /\ [prompts[r] EXCEPT !.status = "pending"] \in PromptTypes
    BY <1>0 DEF ReqTypes, PromptTypes
  <2>2. req' \in [Requests -> ReqTypes] /\ prompts' \in [Requests -> PromptTypes]
    BY <1>2, <2>1 DEF InsertPrompt
  <2> QED
    BY <1>2, <2>2, TypesFold DEF InsertPrompt, detector
<1>3. CASE Stamp(r)
  <2>1. [req[r] EXCEPT !.at = "feed", !.now = clock] \in ReqTypes
    BY <1>0 DEF ReqTypes
  <2>2. req' = [req EXCEPT ![r] = [req[r] EXCEPT !.at = "feed", !.now = clock]]
    BY <1>3 DEF Stamp
  <2> QED
    BY <1>3, <2>1, <2>2, TypesFold DEF Stamp, store, detector
<1>4. CASE Feed(r)
  <2>1. window' \in Seq(Requests)
    BY <1>4, FeedStep, FedWindow
  <2>2. bursts' \in Seq(BurstTypes)
    <3>1. Recorded(r, window') \in BurstTypes
      BY <1>4, <2>1, FeedStep, RecordedType
    <3>2. bursts' = bursts \/ bursts' = Append(bursts, Recorded(r, window'))
      BY <1>4, FeedStep
    <3>3. bursts \in Seq(BurstTypes)
      OBVIOUS
    <3> HIDE TypesUnfold
    <3> QED
      BY <3>1, <3>2, <3>3, AppendProperties
  <2>3. coolUntil' \in 0 .. MaxTime + Cooldown
    <3>1. /\ req[r].now \in 1 .. clock /\ clock \in 1 .. MaxTime /\ MaxTime \in Nat /\ Cooldown \in Nat
          /\ coolUntil' = coolUntil \/ coolUntil' = 0 \/ coolUntil' = req[r].now + Cooldown
      BY <1>4, FeedStep, Numbers
    <3> QED
      BY <3>1
  <2> QED
    BY <1>4, <2>1, <2>2, <2>3, FeedStep, TypesFold
<1>5. CASE AnswerOne(r)
  <2>1. [status |-> "answered", target |-> "single"] \in PromptTypes
    BY DEF PromptTypes
  <2> QED
    BY <1>5, <2>1, TypesFold DEF AnswerOne, detector
<1> QED
  BY <1>1, <1>2, <1>3, <1>4, <1>5

\* What an answerer is in the middle of once it has a burst to answer.
Begun(d, b) == [Idle EXCEPT !.at = IF d \in TtlDecisions THEN "snapshot" ELSE "flip",
                            !.decision = d, !.burst = b, !.now = clock]

\* BeginBulk takes a burst that is there.
LEMMA BeginStep ==
    ASSUME ConstantsAssumption, TypeOK, NEW o \in Answerers, NEW d \in Decisions, BeginBulk(o, d)
    PROVE  \E b \in Bursts : Begun(d, b) \in JobTypes /\ job' = [job EXCEPT ![o] = Begun(d, b)]
<1> DEFINE open == {i \in 1 .. Len(bursts) : Open(i)}
<1>1. Len(bursts) \in Nat /\ open \in SUBSET (0 .. Len(bursts)) /\ open # {}
  BY TypesUnfold, LenProperties DEF BeginBulk
<1>2. Max(open) \in open
  BY <1>1, GreatestExists
<1> DEFINE b == Max(open)
<1>3. b \in Bursts /\ b \in Nat
  BY <1>1, <1>2 DEF Bursts
<1>4. job' = [job EXCEPT ![o] = Begun(d, b)]
  BY DEF BeginBulk, Begun
<1>5. clock \in 0 .. MaxTime /\ Idle \in JobTypes
  BY TypesUnfold, Numbers, IdleIsJob
<1> HIDE DEF b
<1>6. Begun(d, b) \in JobTypes
  BY <1>3, <1>5 DEF JobTypes, Idle, Begun
<1> QED
  BY <1>3, <1>4, <1>6

\* A burst that is resolved keeps what the detector recorded of it.
LEMMA ResolvedBursts ==
    ASSUME ConstantsAssumption, TypeOK, NEW o \in Answerers, ResolveBurst(o), job[o].decision \in Decisions
    PROVE  /\ bursts' \in Seq(BurstTypes) /\ Len(bursts') = Len(bursts)
           /\ \A b \in Bursts : /\ bursts'[b].by = bursts[b].by /\ bursts'[b].at = bursts[b].at
                                /\ bursts'[b].trip = bursts[b].trip /\ bursts'[b].run = bursts[b].run
<1>1. bursts \in Seq(BurstTypes) /\ Len(bursts) \in Nat /\ clock \in 0 .. MaxTime
  BY TypesUnfold, LenProperties, Numbers
<1>2. CASE Open(job[o].burst)
  <2> DEFINE i == job[o].burst
             b == [bursts[i] EXCEPT !.kind = job[o].decision, !.resolved = clock]
  <2>1. i \in 1 .. Len(bursts)
    BY <1>2 DEF Open
  <2>2. bursts' = [bursts EXCEPT ![i] = b] /\ bursts[i] \in BurstTypes
    BY <1>1, <1>2, <2>1, ElementOfSeq DEF ResolveBurst
  <2>3. b \in BurstTypes /\ b.by = bursts[i].by /\ b.at = bursts[i].at
        /\ b.trip = bursts[i].trip /\ b.run = bursts[i].run
    BY <1>1, <2>2 DEF BurstTypes
  <2> HIDE DEF b, i
  <2>4. /\ bursts' \in Seq(BurstTypes) /\ Len(bursts') = Len(bursts)
        /\ \A k \in 1 .. Len(bursts) : bursts'[k] = IF k = i THEN b ELSE bursts[k]
    BY <1>1, <2>1, <2>2, <2>3, ExceptSeq
  <2> QED
    BY <2>3, <2>4 DEF Bursts
<1>3. CASE ~ Open(job[o].burst)
  BY <1>1, <1>3 DEF ResolveBurst
<1> QED
  BY <1>2, <1>3

\* What an answerer does keeps the types.
LEMMA AnswerersKeepTypes ==
    ASSUME ConstantsAssumption, TypeOK, PromptedIsDenied, NEW o \in Answerers,
           Answers(o),
           \/ \E d \in Decisions : BeginBulk(o, d)
           \/ Snapshot(o) \/ InstallRule(o) \/ FlipPending(o) \/ ResolveBurst(o) \/ AnswererStops(o)
    PROVE  TypeOK'
<1> USE TypesUnfold
<1>0. job[o] \in JobTypes /\ Idle \in JobTypes /\ clock \in 0 .. MaxTime
  BY Numbers, IdleIsJob
<1>1. ASSUME NEW d \in Decisions, BeginBulk(o, d)
      PROVE  TypeOK'
  <2>1. job' \in [Answerers -> JobTypes]
    BY <1>1, BeginStep
  <2> QED
    BY <1>1, <2>1, TypesFold DEF BeginBulk, store, detector
<1>2. CASE Snapshot(o)
  <2> DEFINE ss == {req[r].shape : r \in Pending} \ Blank
  <2>1. Pending \in SUBSET Requests /\ ss \in SUBSET Shapes
    BY DEF Pending, PromptedIsDenied
  <2>2. job' = [job EXCEPT ![o] = [job[o] EXCEPT !.at = "install", !.seen = Pending, !.shapes = ss]]
    BY <1>2 DEF Snapshot
  <2> HIDE DEF ss
  <2>3. [job[o] EXCEPT !.at = "install", !.seen = Pending, !.shapes = ss] \in JobTypes
    BY <1>0, <2>1 DEF JobTypes
  <2> QED
    BY <1>2, <2>2, <2>3, TypesFold DEF Snapshot, store, detector
<1>3. CASE InstallRule(o)
  <2>1. PICK s \in job[o].shapes :
          IF s \in Malformed
          THEN job' = [job EXCEPT ![o] = Idle] /\ UNCHANGED rules
          ELSE /\ rules' = rules \cup {[shape |-> s, burst |-> job[o].burst,
                                        expires |-> job[o].now + Ttl[job[o].decision]]}
               /\ job' = [job EXCEPT ![o].shapes = @ \ {s}]
    BY <1>3 DEF InstallRule
  <2>2. /\ s \in Shapes /\ job[o].burst \in Nat /\ job[o].now \in 0 .. MaxTime
        /\ [job[o] EXCEPT !.shapes = @ \ {s}] \in JobTypes
    BY <1>0, <2>1 DEF JobTypes
  <2>5. job[o].now \in Nat /\ Ttl[job[o].decision] \in Nat
    BY <1>3, <2>2, Numbers DEF InstallRule, Answers
  <2>3. [shape |-> s, burst |-> job[o].burst, expires |-> job[o].now + Ttl[job[o].decision]]
          \in RuleTypes
    BY <2>2, <2>5 DEF RuleTypes
  <2>4. rules' \subseteq RuleTypes /\ job' \in [Answerers -> JobTypes]
    BY <1>0, <2>1, <2>2, <2>3
  <2> QED
    BY <1>3, <2>4, TypesFold DEF InstallRule, detector
<1>4. CASE FlipPending(o)
  <2>1. [status |-> "answered", target |-> job[o].decision] \in PromptTypes
    BY <1>0 DEF PromptTypes, JobTypes
  <2>2. prompts' \in [Requests -> PromptTypes]
    BY <1>4, <2>1 DEF FlipPending
  <2>3. [job[o] EXCEPT !.at = "resolve"] \in JobTypes
    BY <1>0 DEF JobTypes
  <2>4. job' \in [Answerers -> JobTypes]
    BY <1>4, <2>3 DEF FlipPending
  <2> QED
    BY <1>4, <2>2, <2>4, TypesFold DEF FlipPending, detector
<1>5. CASE ResolveBurst(o)
  <2>1. job' \in [Answerers -> JobTypes]
    BY <1>0, <1>5 DEF ResolveBurst
  <2>2. bursts' \in Seq(BurstTypes)
    BY <1>5, ResolvedBursts DEF ResolveBurst, Answers
  <2> QED
    BY <1>5, <2>1, <2>2, TypesFold DEF ResolveBurst, detector
<1>6. CASE AnswererStops(o)
  <2>1. job' \in [Answerers -> JobTypes]
    BY <1>0, <1>6 DEF AnswererStops
  <2> QED
    BY <1>6, <2>1, TypesFold DEF AnswererStops, store, detector
<1> QED
  BY <1>1, <1>2, <1>3, <1>4, <1>5, <1>6

\* So do the clock and a restart.
LEMMA ClockKeepsTypes ==
    ASSUME ConstantsAssumption, TypeOK, Tick \/ RestartProxy
    PROVE  TypeOK'
<1> USE TypesUnfold
<1>1. CASE Tick
  <2>1. clock' \in 1 .. MaxTime
    BY <1>1, Numbers DEF Tick
  <2> QED
    BY <1>1, <2>1, TypesFold DEF Tick, store, detector
<1>2. CASE RestartProxy
  <2>1. \A r \in Requests : [req[r] EXCEPT !.at = "done"] \in ReqTypes
    BY DEF ReqTypes
  <2>2. req' \in [Requests -> ReqTypes]
    BY <1>2, <2>1 DEF RestartProxy
  <2>3. restarts' \in 0 .. MaxRestarts /\ coolUntil' \in 0 .. MaxTime + Cooldown
    BY <1>2, Numbers DEF RestartProxy
  <2> QED
    BY <1>2, <2>2, <2>3, EmptySeq, TypesFold DEF RestartProxy, store
<1> QED
  BY <1>1, <1>2
-----------------------------------------------------------------------------
(* Every step keeps what is said of the detector *)

\* The numbers the detector's argument compares.
LEMMA BurstNumbers ==
    ASSUME ConstantsAssumption, TypeOK, NEW b \in Bursts
    PROVE  /\ bursts[b] \in BurstTypes /\ bursts[b].trip \in Nat \ {0} /\ bursts[b].run \in Nat
           /\ clock \in Nat \ {0} /\ coolUntil \in Nat /\ restarts \in Nat
<1>1. bursts[b] \in BurstTypes
  BY TypesUnfold, ElementOfSeq DEF Bursts
<1>2. bursts[b].trip \in 1 .. MaxTime /\ bursts[b].run \in 0 .. MaxRestarts
  BY <1>1 DEF BurstTypes
<1>3. bursts[b].trip \in Nat \ {0} /\ bursts[b].run \in Nat
  BY <1>2, Numbers
<1>4. clock \in 1 .. MaxTime /\ coolUntil \in 0 .. MaxTime + Cooldown /\ restarts \in 0 .. MaxRestarts
  BY TypesUnfold
<1>5. clock \in Nat \ {0} /\ coolUntil \in Nat /\ restarts \in Nat
  BY <1>4, Numbers
<1> QED
  BY <1>1, <1>3, <1>5

\* A step that leaves the detector alone: no request is fed, none forgets that it
\* was, the bursts keep what was recorded of them.
DetectorRests ==
    /\ UNCHANGED <<window, coolUntil, restarts>>
    /\ clock' \in Nat /\ clock' >= clock
    /\ Len(bursts') = Len(bursts)
    /\ \A b \in Bursts : /\ bursts'[b].by = bursts[b].by /\ bursts'[b].at = bursts[b].at
                         /\ bursts'[b].trip = bursts[b].trip /\ bursts'[b].run = bursts[b].run
    /\ \A r \in Requests : IsFed(r) => req'[r].at = "done"
    /\ Stamped'

\* Such a step keeps what is said of the detector.
LEMMA DetectorUndisturbed ==
    ASSUME ConstantsAssumption, TypeOK, Detects, DetectorRests
    PROVE  Detects'
<1>1. Bursts' = Bursts /\ Len(bursts) \in Nat /\ Cooldown \in Nat /\ clock \in Nat
  BY TypesUnfold, LenProperties, Numbers DEF DetectorRests, Bursts
<1>2. /\ \A r \in Requests : IsFed(r) => IsFed(r)'
      /\ \A x : IsFed(x) => IsFed(x)'
  BY DEF DetectorRests, IsFed
<1>3. FedOnce'
  BY <1>1, <1>2 DEF Detects, FedOnce, DetectorRests
<1>4. ArmedIsFresh'
  BY <1>1 DEF Detects, ArmedIsFresh, DetectorRests
<1>5. Cooling'
  <2> SUFFICES ASSUME NEW b \in Bursts
               PROVE  /\ bursts'[b].run <= restarts'
                      /\ bursts'[b].run = restarts' => \/ coolUntil' >= bursts'[b].trip + Cooldown
                                                       \/ clock' >= bursts'[b].trip + Cooldown
    BY <1>1 DEF Cooling
  <2>1. bursts[b].trip \in Nat
    BY BurstNumbers
  <2>2. clock >= bursts[b].trip + Cooldown => clock' >= bursts[b].trip + Cooldown
    BY <1>1, <2>1 DEF DetectorRests
  <2> QED
    BY <2>2 DEF Detects, Cooling, DetectorRests
<1>6. BurstsCountFreshPrompts'
  BY <1>1 DEF Detects, BurstsAreApart, BurstsCountFreshPrompts, DetectorRests, Bursts
<1>7. BurstsAreSpaced'
  BY <1>1 DEF Detects, BurstsAreApart, BurstsAreSpaced, DetectorRests, Bursts
<1> QED
  BY <1>3, <1>4, <1>5, <1>6, <1>7 DEF Detects, BurstsAreApart, DetectorRests

\* Every step but a feed and a restart is of this kind.
LEMMA OthersLetItRest ==
    ASSUME ConstantsAssumption, TypeOK, Detects, \A o \in Answerers : Answers(o),
           \/ Tick
           \/ \E r \in Requests : \/ \E s \in Shapes : Deny(r, s)
                                  \/ InsertPrompt(r) \/ Stamp(r) \/ AnswerOne(r)
           \/ \E o \in Answerers : \/ \E d \in Decisions : BeginBulk(o, d)
                                   \/ Snapshot(o) \/ InstallRule(o) \/ FlipPending(o)
                                   \/ ResolveBurst(o) \/ AnswererStops(o)
    PROVE  DetectorRests
<1>1. clock \in Nat /\ clock >= 1 /\ req \in [Requests -> ReqTypes] /\ Stamped
  BY TypesUnfold DEF Detects
<1>2. CASE Tick
  <2>1. clock' \in Nat /\ clock' >= clock /\ \A n \in 1 .. clock : n \in 1 .. clock'
    BY <1>1, <1>2 DEF Tick
  <2>2. Stamped'
    BY <1>1, <1>2, <2>1 DEF Tick, Stamped
  <2> QED
    BY <1>2, <2>1, <2>2 DEF Tick, DetectorRests, store, detector, IsFed
<1>3. ASSUME NEW r \in Requests, NEW s \in Shapes, Deny(r, s)
      PROVE  DetectorRests
  <2>1. /\ req'[r].at = "insert" /\ \A p \in Requests \ {r} : req'[p] = req[p]
        /\ req[r].at = "idle"
    BY <1>1, <1>3 DEF Deny
  <2> QED
    BY <1>1, <1>3, <2>1 DEF Deny, DetectorRests, store, detector, IsFed, Stamped
<1>4. ASSUME NEW r \in Requests, InsertPrompt(r)
      PROVE  DetectorRests
  <2>1. /\ \/ req' = [req EXCEPT ![r].at = "stamp"]
           \/ req' = [req EXCEPT ![r].at = "done"]
        /\ req[r].at = "insert"
    BY <1>4 DEF InsertPrompt
  <2>2. /\ req'[r].at \in {"stamp", "done"} /\ \A p \in Requests \ {r} : req'[p] = req[p]
    BY <1>1, <2>1 DEF ReqTypes
  <2> QED
    BY <1>1, <1>4, <2>1, <2>2 DEF InsertPrompt, DetectorRests, detector, IsFed, Stamped
<1>5. ASSUME NEW r \in Requests, Stamp(r)
      PROVE  DetectorRests
  <2>1. /\ req'[r].at = "feed" /\ req'[r].now = clock /\ \A p \in Requests \ {r} : req'[p] = req[p]
        /\ req[r].at = "stamp"
    BY <1>1, <1>5 DEF Stamp, ReqTypes
  <2> QED
    BY <1>1, <1>5, <2>1 DEF Stamp, DetectorRests, store, detector, IsFed, Stamped
<1>6. ASSUME NEW o \in Answerers, ResolveBurst(o)
      PROVE  DetectorRests
  <2>1. job[o].decision \in Decisions
    BY <1>6 DEF ResolveBurst, Answers
  <2>2. UNCHANGED <<clock, req, window, coolUntil, restarts>>
    BY <1>6 DEF ResolveBurst, detector
  <2> QED
    BY <1>1, <1>6, <2>1, <2>2, ResolvedBursts DEF DetectorRests, IsFed, Stamped
<1>7. ASSUME UNCHANGED <<clock, req, window, coolUntil, bursts, restarts>>
      PROVE  DetectorRests
  BY <1>1, <1>7 DEF DetectorRests, IsFed, Stamped
<1> QED
  BY <1>2, <1>3, <1>4, <1>5, <1>6, <1>7
  DEF AnswerOne, BeginBulk, Snapshot, InstallRule, FlipPending, AnswererStops, store, detector

\* A restarted detector has an empty window, and no burst of its own run.
LEMMA RestartKeepsDetects ==
    ASSUME ConstantsAssumption, TypeOK, Detects, RestartProxy
    PROVE  Detects'
<1>0. /\ window' = <<>> /\ coolUntil' = 0 /\ bursts' = bursts /\ clock' = clock
      /\ Bursts' = Bursts /\ restarts' = restarts + 1
      /\ \A r \in Requests : req'[r].at # "feed" /\ (req[r].at = "done" => req'[r].at = "done")
  <2>1. req \in [Requests -> ReqTypes]
    BY TypesUnfold
  <2> QED
    BY <2>1 DEF RestartProxy, store, Bursts, ReqTypes
<1>1. Len(window') = 0 /\ restarts \in Nat
  BY <1>0, TypesUnfold, EmptySeq, Numbers
<1>2. Stamped'
  BY <1>0, <1>1 DEF Stamped
<1>3. FedOnce'
  BY <1>0, <1>1 DEF Detects, FedOnce, IsFed
<1>4. ArmedIsFresh'
  BY <1>0, <1>1 DEF ArmedIsFresh
<1>5. Cooling'
  <2>1. \A b \in Bursts : bursts[b].run \in Nat /\ bursts[b].run <= restarts
    BY BurstNumbers DEF Detects, Cooling
  <2> QED
    BY <1>0, <1>1, <2>1 DEF Cooling
<1>6. BurstsAreApart'
  BY <1>0, <1>1 DEF Detects, BurstsAreApart, BurstsCountFreshPrompts, BurstsAreSpaced
<1> QED
  BY <1>2, <1>3, <1>4, <1>5, <1>6 DEF Detects

\* Where a feed is not silenced, every cool-down of this run of the proxy is over.
LEMMA CoolDownsAreOver ==
    ASSUME ConstantsAssumption, TypeOK, Detects, NEW r \in Requests, req[r].at = "feed",
           coolUntil # 0 => req[r].now >= coolUntil,
           NEW b \in Bursts, bursts[b].run = restarts
    PROVE  clock >= bursts[b].trip + Cooldown
<1>1. /\ req[r].now \in 1 .. clock /\ clock \in Nat /\ coolUntil \in Nat /\ Cooldown \in Nat
      /\ bursts[b].trip \in Nat \ {0}
  BY BurstNumbers, Numbers DEF Detects, Stamped
<1>2. \/ coolUntil >= bursts[b].trip + Cooldown
      \/ clock >= bursts[b].trip + Cooldown
  BY DEF Detects, Cooling
<1> QED
  BY <1>1, <1>2

\* A feed keeps it: what a burst counts is fresh, because the window was emptied
\* when the last cool-down ran out, and it is late enough, because that cool-down did.
LEMMA FeedKeepsDetects ==
    ASSUME ConstantsAssumption, TypeOK, Detects, NEW r \in Requests, Feed(r)
    PROVE  Detects'
<1> DEFINE now == req[r].now
           quiet == /\ coolUntil # 0 /\ window' = Pruned(window, now)
                    /\ UNCHANGED <<coolUntil, bursts>>
           armed == /\ window' = Pruned(Append(ReArmed, r), now)
                    /\ coolUntil # 0 => now >= coolUntil
           IsFedNow(x) == x \in Requests /\ req'[x].at = "done"
           noted == bursts' = Append(bursts, Recorded(r, window'))
<1>1. /\ req[r].at = "feed" /\ now \in 1 .. clock /\ req'[r].at = "done"
      /\ \A p \in Requests \ {r} : req'[p] = req[p]
      /\ \/ quiet
         \/ armed /\ \/ coolUntil' = 0 /\ UNCHANGED bursts
                     \/ /\ Len(window') >= Threshold /\ coolUntil' = now + Cooldown
                        /\ noted \/ UNCHANGED bursts
      /\ UNCHANGED <<clock, restarts>>
  <2>1. Stamped /\ req[r] \in ReqTypes
    BY TypesUnfold DEF Detects
  <2>2. [req[r] EXCEPT !.at = "done"].at = "done"
    BY <2>1 DEF ReqTypes
  <2> QED
    BY <2>1, <2>2, FeedStep
<1>2. /\ window' \in Seq(Requests) /\ Len(window') \in Nat
      /\ \A i \in 1 .. Len(window') : window'[i] = r \/ \E k \in 1 .. Len(window) : window'[i] = window[k]
      /\ \A i, j \in 1 .. Len(window') : window'[i] = window'[j] => i = j
      /\ armed /\ coolUntil # 0 => \A i \in 1 .. Len(window') : window'[i] = r
  <2>1. window' = Pruned(window, now) \/ window' = Pruned(Append(ReArmed, r), now)
    BY <1>1
  <2> QED
    BY <1>1, <2>1, FedWindow DEF Detects
<1>3. /\ Len(bursts) \in Nat /\ clock \in Nat \ {0} /\ coolUntil \in Nat /\ restarts \in Nat
      /\ Cooldown \in Nat \ {0} /\ Threshold \in Nat /\ now \in Nat /\ bursts \in Seq(BurstTypes)
  BY <1>1, TypesUnfold, LenProperties, Numbers
<1> DEFINE new == Recorded(r, window')
           n == Len(bursts) + 1
<1>4. noted => /\ Bursts' = Bursts \cup {n} /\ n \notin Bursts /\ Len(bursts') = n
               /\ \A b \in Bursts : bursts'[b] = bursts[b]
               /\ bursts'[n] = new
  <2>1. new \in BurstTypes
    BY <1>1, <1>2, RecordedType DEF Detects
  <2>2. noted <=> bursts' = Append(bursts, new)
    OBVIOUS
  <2> HIDE DEF new, noted
  <2>3. ASSUME noted
        PROVE  /\ Len(bursts') = n /\ bursts'[n] = new
               /\ \A b \in 1 .. Len(bursts) : bursts'[b] = bursts[b]
    BY <1>3, <2>1, <2>2, <2>3, AppendProperties
  <2>4. 1 .. n = (1 .. Len(bursts)) \cup {n} /\ n \notin 1 .. Len(bursts)
    BY <1>3
  <2> HIDE DEF n
  <2> QED
    BY <2>3, <2>4 DEF Bursts
<1>5. /\ new.by = {window'[i] : i \in 1 .. Len(window')} /\ new.at = clock
      /\ new.trip = now /\ new.run = restarts
  BY DEF Recorded
<1>6. \A x : IsFed(x) => IsFedNow(x) /\ x # r
  BY <1>1 DEF IsFed
<1>7. \A i \in 1 .. Len(window') : IsFedNow(window'[i])
  <2>1. \A k \in 1 .. Len(window) : IsFedNow(window[k])
    <3> HIDE DEF IsFedNow
    <3> QED
      BY <1>6 DEF Detects, FedOnce
  <2>2. IsFedNow(r)
    BY <1>1
  <2> HIDE DEF IsFedNow
  <2> QED
    BY <1>2, <2>1, <2>2
<1> HIDE DEF IsFedNow, new, n, noted, quiet, armed, now
<1>8. \A b \in Bursts : r \notin bursts[b].by
  BY <1>6 DEF Detects, FedOnce
\* What the armed detector has in its window no burst has counted.
<1>9. armed => \A i \in 1 .. Len(window'), b \in Bursts : window'[i] \notin bursts[b].by
  BY <1>2, <1>8 DEF Detects, ArmedIsFresh
<1>10. armed => \A b \in Bursts : bursts[b].run = restarts => clock >= bursts[b].trip + Cooldown
  BY <1>1, CoolDownsAreOver DEF armed, now
<1>11. Stamped'
  BY <1>1 DEF Detects, Stamped
<1>12. FedOnce'
  <2>1. \A b \in Bursts : \A q \in bursts[b].by : IsFedNow(q)
    BY <1>6 DEF Detects, FedOnce
  <2>2. \A b \in Bursts' : \A q \in bursts'[b].by : IsFedNow(q)
    <3>1. CASE noted
      BY <1>4, <1>5, <1>7, <2>1, <3>1
    <3>2. CASE UNCHANGED bursts
      BY <2>1, <3>2 DEF Bursts
    <3> QED
      BY <1>1, <3>1, <3>2 DEF quiet
  <2> QED
    BY <1>2, <1>7, <2>2 DEF FedOnce, IsFed, IsFedNow
<1>13. ArmedIsFresh'
  <2>1. coolUntil' = 0 => armed /\ UNCHANGED bursts
    BY <1>1, <1>3 DEF quiet
  <2> QED
    BY <1>9, <2>1 DEF ArmedIsFresh, Bursts
<1>14. Cooling'
  <2>1. CASE quiet
    BY <1>1, <2>1 DEF quiet, Detects, Cooling, Bursts
  <2>2. CASE armed /\ UNCHANGED bursts
    BY <1>1, <1>10, <2>2 DEF Detects, Cooling, Bursts
  <2>3. CASE armed /\ noted /\ coolUntil' = now + Cooldown
    <3>1. \A b \in Bursts : /\ bursts'[b] = bursts[b]
                            /\ bursts[b].run <= restarts
                            /\ bursts[b].run = restarts => clock >= bursts[b].trip + Cooldown
      BY <1>4, <1>10, <2>3 DEF Detects, Cooling
    <3>2. bursts'[n].run <= restarts /\ coolUntil' >= bursts'[n].trip + Cooldown
      BY <1>3, <1>4, <1>5, <2>3
    <3> QED
      BY <1>1, <1>4, <2>3, <3>1, <3>2 DEF Cooling
  <2> QED
    BY <1>1, <2>1, <2>2, <2>3
<1>15. BurstsCountFreshPrompts'
  <2>1. CASE UNCHANGED bursts
    BY <2>1 DEF Detects, BurstsAreApart, BurstsCountFreshPrompts
  <2>2. CASE armed /\ noted /\ Len(window') >= Threshold
    <3>1. Cardinality(new.by) >= Threshold
      BY <1>2, <1>5, <2>2, DistinctEntries
    <3>2. \A b \in Bursts : new.by \cap bursts[b].by = {}
      BY <1>5, <1>9, <2>2
    <3>3. \A i \in Bursts : /\ Cardinality(bursts[i].by) >= Threshold
                            /\ \A j \in 1 .. i - 1 : bursts[i].by \cap bursts[j].by = {}
      BY DEF Detects, BurstsAreApart, BurstsCountFreshPrompts, Bursts
    <3>4. \A i \in Bursts : \A j \in 1 .. i - 1 : j \in Bursts
      BY <1>3 DEF Bursts
    <3>5. \A j \in 1 .. n - 1 : j \in Bursts
      BY <1>3 DEF Bursts, n
    <3> SUFFICES ASSUME NEW i \in Bursts'
                 PROVE  /\ Cardinality(bursts'[i].by) >= Threshold
                        /\ \A j \in 1 .. i - 1 : bursts'[i].by \cap bursts'[j].by = {}
      BY DEF BurstsCountFreshPrompts, Bursts
    <3>6. CASE i \in Bursts
      BY <1>4, <2>2, <3>3, <3>4, <3>6
    <3>7. CASE i = n
      BY <1>4, <2>2, <3>1, <3>2, <3>5, <3>7
    <3> QED
      BY <1>4, <2>2, <3>6, <3>7
  <2> QED
    BY <1>1, <2>1, <2>2 DEF quiet
<1>16. BurstsAreSpaced'
  <2>1. CASE UNCHANGED bursts
    BY <2>1 DEF Detects, BurstsAreApart, BurstsAreSpaced
  <2>2. CASE armed /\ noted
    <3> SUFFICES ASSUME NEW i \in Bursts', NEW j \in Bursts', i < j, bursts'[i].run = bursts'[j].run
                 PROVE  bursts'[j].at >= bursts'[i].trip + Cooldown
      BY DEF BurstsAreSpaced, Bursts
    <3>1. i \in Bursts
      BY <1>3, <1>4, <2>2 DEF Bursts, n
    <3>2. CASE j \in Bursts
      BY <1>4, <2>2, <3>1, <3>2 DEF Detects, BurstsAreApart, BurstsAreSpaced, Bursts
    <3>3. CASE j = n
      BY <1>4, <1>5, <1>10, <2>2, <3>1, <3>3
    <3> QED
      BY <1>4, <2>2, <3>2, <3>3
  <2> QED
    BY <1>1, <2>1, <2>2 DEF quiet
<1> QED
  BY <1>11, <1>12, <1>13, <1>14, <1>15, <1>16 DEF Detects, BurstsAreApart
-----------------------------------------------------------------------------
(* Every step keeps what is said of the answerers *)

\* A step that only adds rules, and lets requests keep the shape they were denied with.
AnswersRest ==
    /\ rules \subseteq rules'
    /\ \A r \in Requests : req[r].at # "idle" => req'[r].at # "idle" /\ req'[r].shape = req[r].shape

\* Such a step keeps what is said of an answerer it leaves alone.
LEMMA RestingAnswers ==
    ASSUME TypeOK, NEW o \in Answerers, Answers(o), AnswersRest, job'[o] = job[o]
    PROVE  Answers(o)'
<1>1. job[o].seen \subseteq Requests
  BY TypesUnfold DEF JobTypes
<1>2. \A r \in Requests : \A b : req[r].at # "idle" /\ HasRule(r, b) => HasRule(r, b)'
  BY DEF HasRule, AnswersRest
<1> QED
  BY <1>1, <1>2 DEF Answers, AnswersRest

\* What requests, clock and restart do is of this kind.
LEMMA RequestsKeepAnswers ==
    ASSUME ConstantsAssumption, TypeOK, AnswersHold,
           \/ Tick \/ RestartProxy
           \/ \E r \in Requests : \/ \E s \in Shapes : Deny(r, s)
                                  \/ InsertPrompt(r) \/ Stamp(r) \/ Feed(r) \/ AnswerOne(r)
    PROVE  AnswersHold'
<1>0. req \in [Requests -> ReqTypes] /\ prompts \in [Requests -> PromptTypes]
  BY TypesUnfold
<1> DEFINE Goal == /\ AnswersRest /\ UNCHANGED job
                   /\ PromptedIsDenied'
<1>1. ASSUME Tick
      PROVE  Goal
  BY <1>1 DEF Tick, AnswersRest, AnswersHold, PromptedIsDenied, store
<1>2. ASSUME RestartProxy
      PROVE  Goal
  <2>1. \A r \in Requests : /\ req'[r].shape = req[r].shape
                            /\ req'[r].at = "idle" <=> req[r].at = "idle"
    BY <1>0, <1>2 DEF RestartProxy, ReqTypes
  <2> QED
    BY <1>2, <2>1 DEF RestartProxy, AnswersRest, AnswersHold, PromptedIsDenied, store
<1>3. ASSUME NEW r \in Requests, NEW s \in Shapes, Deny(r, s)
      PROVE  Goal
  <2>1. /\ req[r].at = "idle" /\ req'[r].at = "insert" /\ req'[r].shape = s
        /\ \A p \in Requests \ {r} : req'[p] = req[p]
    BY <1>0, <1>3 DEF Deny, ReqTypes
  <2> QED
    BY <1>3, <2>1 DEF Deny, AnswersRest, AnswersHold, PromptedIsDenied, store
<1>4. ASSUME NEW r \in Requests, InsertPrompt(r)
      PROVE  Goal
  <2>1. /\ req[r].at = "insert"
        /\ \/ req' = [req EXCEPT ![r].at = "stamp"]
           \/ req' = [req EXCEPT ![r].at = "done"]
        /\ prompts' = [prompts EXCEPT ![r].status = "pending"] \/ UNCHANGED prompts
        /\ UNCHANGED <<rules, job>>
    BY <1>4 DEF InsertPrompt
  <2>2. /\ req'[r].at # "idle" /\ req'[r].shape = req[r].shape
        /\ \A p \in Requests \ {r} : req'[p] = req[p]
    BY <1>0, <2>1 DEF ReqTypes
  <2>3. \A p \in Requests \ {r} : prompts'[p] = prompts[p]
    BY <1>0, <2>1
  <2> QED
    BY <2>1, <2>2, <2>3 DEF AnswersRest, AnswersHold, PromptedIsDenied
<1>5. ASSUME NEW r \in Requests, Stamp(r)
      PROVE  Goal
  <2>1. /\ req[r].at # "idle" /\ req'[r].at # "idle" /\ req'[r].shape = req[r].shape
        /\ \A p \in Requests \ {r} : req'[p] = req[p]
    BY <1>0, <1>5 DEF Stamp, ReqTypes
  <2> QED
    BY <1>5, <2>1 DEF Stamp, AnswersRest, AnswersHold, PromptedIsDenied, store
<1>6. ASSUME NEW r \in Requests, Feed(r)
      PROVE  Goal
  <2>1. /\ req[r].at # "idle" /\ req'[r].at # "idle" /\ req'[r].shape = req[r].shape
        /\ \A p \in Requests \ {r} : req'[p] = req[p]
    BY <1>0, <1>6 DEF Feed, ReqTypes
  <2>2. UNCHANGED <<prompts, rules, job>>
    BY <1>6 DEF Feed
  <2> QED
    BY <2>1, <2>2 DEF AnswersRest, AnswersHold, PromptedIsDenied
<1>7. ASSUME NEW r \in Requests, AnswerOne(r)
      PROVE  Goal
  <2>1. prompts[r].status # "none" /\ \A p \in Requests \ {r} : prompts'[p] = prompts[p]
    BY <1>0, <1>7 DEF AnswerOne, Pending
  <2> QED
    BY <1>7, <2>1 DEF AnswerOne, AnswersRest, AnswersHold, PromptedIsDenied
<1>8. Goal
  BY <1>1, <1>2, <1>3, <1>4, <1>5, <1>6, <1>7
<1> HIDE DEF Goal
<1>9. \A o \in Answerers : Answers(o)'
  <2> TAKE o \in Answerers
  <2>1. AnswersRest /\ job'[o] = job[o] /\ Answers(o)
    BY <1>8 DEF Goal, AnswersHold
  <2> QED
    BY <2>1, RestingAnswers
<1> QED
  BY <1>8, <1>9 DEF Goal, AnswersHold

\* What an answerer does keeps what is said of it, and of the others.
LEMMA AnswerersKeepAnswers ==
    ASSUME ConstantsAssumption, TypeOK, AnswersHold, NEW o \in Answerers,
           \/ \E d \in Decisions : BeginBulk(o, d)
           \/ Snapshot(o) \/ InstallRule(o) \/ FlipPending(o) \/ ResolveBurst(o) \/ AnswererStops(o)
    PROVE  AnswersHold'
<1>0. /\ job \in [Answerers -> JobTypes] /\ job[o] \in JobTypes /\ job[o].seen \subseteq Requests
      /\ Idle \in JobTypes /\ Idle.at = "idle" /\ Idle.seen = {} /\ Answers(o) /\ PromptedIsDenied
      /\ prompts \in [Requests -> PromptTypes]
  BY TypesUnfold, IdleIsJob DEF JobTypes, AnswersHold
<1> DEFINE Goal == /\ AnswersRest
                   /\ \A p \in Answerers \ {o} : job'[p] = job[p]
                   /\ PromptedIsDenied'
                   /\ Answers(o)'
<1>a. ASSUME job'[o] = Idle
      PROVE  Answers(o)'
  BY <1>0, <1>a DEF Answers
<1>b. ASSUME UNCHANGED <<req, prompts>>, rules \subseteq rules'
      PROVE  AnswersRest /\ PromptedIsDenied'
  BY <1>0, <1>b DEF AnswersRest, PromptedIsDenied
<1>1. ASSUME NEW d \in Decisions, BeginBulk(o, d)
      PROVE  Goal
  <2>1. PICK b \in Bursts : Begun(d, b) \in JobTypes /\ job' = [job EXCEPT ![o] = Begun(d, b)]
    BY <1>1, BeginStep
  <2>2. /\ job'[o].at = IF d \in TtlDecisions THEN "snapshot" ELSE "flip"
        /\ job'[o].decision = d /\ job'[o].seen = {}
        /\ \A p \in Answerers \ {o} : job'[p] = job[p]
    BY <1>0, <2>1 DEF Begun, Idle
  <2>3. Answers(o)'
    BY <2>2 DEF Answers
  <2>4. UNCHANGED <<req, prompts, rules>>
    BY <1>1 DEF BeginBulk, store
  <2> QED
    BY <1>b, <2>2, <2>3, <2>4
<1>2. ASSUME Snapshot(o)
      PROVE  Goal
  <2>1. /\ job'[o].at = "install" /\ job'[o].seen = Pending /\ job'[o].decision = job[o].decision
        /\ job'[o].shapes = {req[r].shape : r \in Pending} \ Blank
        /\ \A p \in Answerers \ {o} : job'[p] = job[p]
    BY <1>0, <1>2 DEF Snapshot, JobTypes
  <2>2. UNCHANGED <<req, prompts, rules>> /\ job[o].at = "snapshot"
    BY <1>2 DEF Snapshot, store
  <2>3. \A r \in Pending : r \in Requests /\ req[r].at # "idle"
    BY <1>0 DEF Pending, PromptedIsDenied
  <2>4. Answers(o)'
    BY <1>0, <2>1, <2>2, <2>3 DEF Answers
  <2> QED
    BY <1>b, <2>1, <2>2, <2>4
<1>3. ASSUME InstallRule(o)
      PROVE  Goal
  <2>1. PICK s \in job[o].shapes :
          IF s \in Malformed
          THEN job' = [job EXCEPT ![o] = Idle] /\ UNCHANGED rules
          ELSE /\ rules' = rules \cup {[shape |-> s, burst |-> job[o].burst,
                                        expires |-> job[o].now + Ttl[job[o].decision]]}
               /\ job' = [job EXCEPT ![o].shapes = @ \ {s}]
    BY <1>3 DEF InstallRule
  <2>2. UNCHANGED <<req, prompts>> /\ job[o].at = "install"
    BY <1>3 DEF InstallRule
  <2>3. CASE s \in Malformed
    BY <1>0, <1>a, <1>b, <2>1, <2>2, <2>3
  <2>4. CASE s \notin Malformed
    <3>0. /\ rules' = rules \cup {[shape |-> s, burst |-> job[o].burst,
                                  expires |-> job[o].now + Ttl[job[o].decision]]}
          /\ job' = [job EXCEPT ![o] = [job[o] EXCEPT !.shapes = @ \ {s}]]
      BY <2>1, <2>4
    <3>1. /\ job'[o].at = "install" /\ job'[o].seen = job[o].seen /\ job'[o].burst = job[o].burst
          /\ job'[o].decision = job[o].decision /\ job'[o].shapes = job[o].shapes \ {s}
          /\ \A p \in Answerers \ {o} : job'[p] = job[p]
      BY <1>0, <2>2, <3>0 DEF JobTypes
    <3>2. /\ rules \subseteq rules'
          /\ \E rule \in rules' : rule.shape = s /\ rule.burst = job[o].burst
      <4> DEFINE new == [shape |-> s, burst |-> job[o].burst,
                         expires |-> job[o].now + Ttl[job[o].decision]]
      <4>1. new.shape = s /\ new.burst = job[o].burst
        OBVIOUS
      <4>2. rules' = rules \cup {new}
        BY <3>0
      <4> HIDE DEF new
      <4> QED
        BY <4>1, <4>2
    <3>3. \A r \in job[o].seen :
             /\ HasRule(r, job[o].burst) => HasRule(r, job[o].burst)'
             /\ req[r].shape = s => HasRule(r, job[o].burst)'
      BY <2>2, <3>1, <3>2 DEF HasRule
    <3>4. \A r \in job[o].seen : req[r].shape \notin Blank =>
             req[r].shape \in job[o].shapes \ {s} \/ HasRule(r, job[o].burst)'
      BY <1>0, <2>2, <3>3 DEF Answers
    <3>5. Answers(o)'
      BY <1>0, <2>2, <3>1, <3>4 DEF Answers, HasRule
    <3> QED
      BY <1>b, <2>2, <3>1, <3>2, <3>5
  <2> QED
    BY <2>3, <2>4
<1>4. ASSUME FlipPending(o)
      PROVE  Goal
  <2>1. /\ job'[o].at = "resolve" /\ job'[o].seen = job[o].seen /\ job'[o].burst = job[o].burst
        /\ job'[o].decision = job[o].decision
        /\ \A p \in Answerers \ {o} : job'[p] = job[p]
    BY <1>0, <1>4 DEF FlipPending, JobTypes
  <2>2. /\ UNCHANGED <<req, rules>>
        /\ job[o].at = "flip" \/ (job[o].at = "install" /\ job[o].shapes = {})
    BY <1>4 DEF FlipPending
  <2>3. Answers(o)'
    BY <1>0, <2>1, <2>2 DEF Answers, HasRule
  <2>4. \A r \in Requests : prompts'[r].status # "none" => prompts[r].status # "none"
    BY <1>4 DEF FlipPending, Pending
  <2> QED
    BY <1>0, <2>1, <2>2, <2>3, <2>4 DEF AnswersRest, PromptedIsDenied
<1>5. ASSUME ResolveBurst(o) \/ AnswererStops(o)
      PROVE  Goal
  <2>1. job' = [job EXCEPT ![o] = Idle] /\ UNCHANGED <<req, prompts, rules>>
    BY <1>5 DEF ResolveBurst, AnswererStops, store
  <2> QED
    BY <1>0, <1>a, <1>b, <2>1
<1>6. Goal
  BY <1>1, <1>2, <1>3, <1>4, <1>5
<1> HIDE DEF Goal
<1>7. \A p \in Answerers : Answers(p)'
  <2> TAKE p \in Answerers
  <2>1. CASE p = o
    BY <1>6, <2>1 DEF Goal
  <2>2. CASE p # o
    <3>1. AnswersRest /\ job'[p] = job[p] /\ Answers(p)
      BY <1>6, <2>2 DEF Goal, AnswersHold
    <3> QED
      BY <3>1, RestingAnswers
  <2> QED
    BY <2>1, <2>2
<1> QED
  BY <1>6, <1>7 DEF Goal, AnswersHold
-----------------------------------------------------------------------------
(* The theorems *)

\* The invariant holds to begin with.
LEMMA InvInit ==
    ASSUME ConstantsAssumption, Init
    PROVE  Inv
<1>1. /\ 1 \in 1 .. MaxTime /\ 0 \in 0 .. MaxTime /\ 0 \in 0 .. MaxRestarts /\ 0 \in 0 .. MaxTime + Cooldown
  BY Numbers
<1>2. Len(<<>>) = 0 /\ <<>> \in Seq(Requests) /\ <<>> \in Seq(BurstTypes)
  BY EmptySeq
<1>3. Fresh \in ReqTypes /\ NoPrompt \in PromptTypes /\ Idle \in JobTypes
  BY <1>1, IdleIsJob DEF Fresh, NoPrompt, ReqTypes, PromptTypes
<1>4. TypeOK
  BY <1>1, <1>2, <1>3, TypesUnfold DEF Init
<1>5. Detects
  <2>1. Bursts = {} /\ window = <<>> /\ Len(window) = 0 /\ Len(bursts) = 0
    BY <1>2 DEF Init, Bursts
  <2>2. Stamped
    BY DEF Init, Stamped, Fresh
  <2>3. FedOnce /\ ArmedIsFresh /\ Cooling
    BY <2>1 DEF FedOnce, ArmedIsFresh, Cooling
  <2>4. BurstsAreApart
    BY <2>1 DEF BurstsAreApart, BurstsCountFreshPrompts, BurstsAreSpaced
  <2> QED
    BY <2>2, <2>3, <2>4 DEF Detects
<1>6. AnswersHold
  BY DEF Init, AnswersHold, PromptedIsDenied, Answers, NoPrompt, Fresh, Idle
<1> QED
  BY <1>4, <1>5, <1>6 DEF Inv

\* Every step keeps the invariant.
LEMMA InvNext ==
    ASSUME ConstantsAssumption, Inv, [Next]_vars
    PROVE  Inv'
<1>1. TypeOK /\ Detects /\ AnswersHold /\ Stamped /\ FedOnce /\ PromptedIsDenied
      /\ \A o \in Answerers : Answers(o)
  BY DEF Inv, Detects, AnswersHold
<1>2. CASE Tick \/ RestartProxy
  <2>1. TypeOK' /\ AnswersHold'
    BY <1>1, <1>2, ClockKeepsTypes, RequestsKeepAnswers
  <2>2. Detects'
    BY <1>1, <1>2, OthersLetItRest, DetectorUndisturbed, RestartKeepsDetects
  <2> QED
    BY <2>1, <2>2 DEF Inv
<1>3. ASSUME NEW r \in Requests,
             \/ \E s \in Shapes : Deny(r, s)
             \/ InsertPrompt(r) \/ Stamp(r) \/ Feed(r) \/ AnswerOne(r)
      PROVE  Inv'
  <2>1. TypeOK' /\ AnswersHold'
    BY <1>1, <1>3, RequestsKeepTypes, RequestsKeepAnswers
  <2>2. CASE Feed(r)
    BY <1>1, <2>1, <2>2, FeedKeepsDetects DEF Inv
  <2>3. CASE ~ Feed(r)
    BY <1>1, <1>3, <2>1, <2>3, OthersLetItRest, DetectorUndisturbed DEF Inv
  <2> QED
    BY <2>2, <2>3
<1>4. ASSUME NEW o \in Answerers,
             \/ \E d \in Decisions : BeginBulk(o, d)
             \/ Snapshot(o) \/ InstallRule(o) \/ FlipPending(o) \/ ResolveBurst(o) \/ AnswererStops(o)
      PROVE  Inv'
  <2>1. TypeOK' /\ AnswersHold'
    BY <1>1, <1>4, AnswerersKeepTypes, AnswerersKeepAnswers
  <2>2. Detects'
    BY <1>1, <1>4, OthersLetItRest, DetectorUndisturbed
  <2> QED
    BY <2>1, <2>2 DEF Inv
<1>5. CASE UNCHANGED vars
  <2>1. TypeOK'
    BY <1>1, <1>5, TypesUnfold, TypesFold DEF vars
  <2>2. DetectorRests
    BY <1>1, <1>5, TypesUnfold DEF vars, DetectorRests, Stamped, IsFed
  <2>3. Detects'
    BY <1>1, <2>2, DetectorUndisturbed
  <2>4. AnswersRest /\ UNCHANGED job /\ PromptedIsDenied'
    BY <1>1, <1>5 DEF vars, AnswersRest, PromptedIsDenied
  <2>5. AnswersHold'
    BY <1>1, <2>4, RestingAnswers DEF AnswersHold
  <2> QED
    BY <2>1, <2>3, <2>5 DEF Inv
<1> QED
  BY <1>2, <1>3, <1>4, <1>5 DEF Next

\* Inv is inductive, so it holds throughout every run.
THEOREM Invariance ==
    ASSUME ConstantsAssumption
    PROVE  Spec => []Inv
<1>1. Init => Inv
  BY InvInit
<1>2. Inv /\ [Next]_vars => Inv'
  BY InvNext
<1> QED
  BY <1>1, <1>2, PTL DEF Spec

\* Every variable keeps its type: the clocks, the detector's window and silence,
\* the rows the two write, and what an answerer is in the middle of.
THEOREM TypeCorrect ==
    ASSUME ConstantsAssumption
    PROVE  Spec => []TypeOK
<1>1. Inv => TypeOK
  BY DEF Inv
<1> QED
  BY <1>1, Invariance, PTL

\* However many requests are denied, in whatever order their stamped prompts
\* reach the detector's mutex and whenever the proxy is restarted, no prompt is
\* counted in two bursts, every burst counts enough of them, and one proxy records
\* two only with a cool-down after the prompt that tripped the first (burst.go:123).
THEOREM NoPromptBurstsTwice ==
    ASSUME ConstantsAssumption
    PROVE  Spec => []BurstsAreApart
<1>1. Inv => BurstsAreApart
  BY DEF Inv, Detects
<1> QED
  BY <1>1, Invariance, PTL

\* Whatever else answers, installs or fails in between, a bulk answer that comes
\* to stamp its burst has a rule of that burst for every prompt it saw pending:
\* a prompt is never answered by an installation that was broken off.
THEOREM SeenPromptsHaveRules ==
    ASSUME ConstantsAssumption
    PROVE  Spec => []SeenIsCovered
<1>1. Inv => SeenIsCovered
  BY DEF Inv, AnswersHold, Answers, SeenIsCovered, HasRule
<1> QED
  BY <1>1, Invariance, PTL
=============================================================================
