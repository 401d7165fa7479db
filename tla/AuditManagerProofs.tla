------------------------- MODULE AuditManagerProofs -------------------------
(***************************************************************************)
(* Proofs about the channels of the audit manager and about the readers of  *)
(* the decisions table, for any queues, routes, sessions, rows and bounds.  *)
(***************************************************************************)
EXTENDS MCAuditManager, FiniteSetTheorems, SequenceTheorems, TLAPS
-----------------------------------------------------------------------------
(* Sequences as sets *)

LEMMA AppendToSet ==
  ASSUME NEW S, NEW s \in Seq(S), NEW e
  PROVE  ToSet(Append(s, e)) = ToSet(s) \cup {e}
  <1>1. /\ DOMAIN Append(s, e) = 1 .. Len(s) + 1 /\ DOMAIN s = 1 .. Len(s) /\ Len(s) \in Nat
        /\ \A i \in 1 .. Len(s) : Append(s, e)[i] = s[i]
        /\ Append(s, e)[Len(s) + 1] = e
    <2> DEFINE T == S \cup {e}
    <2>1. s \in Seq(T) /\ e \in T
      OBVIOUS
    <2> HIDE DEF T
    <2> QED BY <2>1, AppendProperties, LenProperties
  <1>2. ASSUME NEW x \in ToSet(Append(s, e)) PROVE x \in ToSet(s) \cup {e}
    BY <1>1 DEF ToSet
  <1>3. ASSUME NEW x \in ToSet(s) \cup {e} PROVE x \in ToSet(Append(s, e))
    BY <1>1 DEF ToSet
  <1> QED BY <1>2, <1>3

LEMMA HeadToSet ==
  ASSUME NEW S, NEW s \in Seq(S), s # <<>>
  PROVE  ToSet(s) = {Head(s)} \cup ToSet(Tail(s))
  <1>1. /\ DOMAIN s = 1 .. Len(s) /\ Len(s) \in Nat \ {0} /\ Head(s) = s[1]
        /\ DOMAIN Tail(s) = 1 .. Len(s) - 1
        /\ \A i \in 1 .. Len(s) - 1 : Tail(s)[i] = s[i + 1]
    BY HeadTailProperties, EmptySeq, LenProperties
  <1>2. ASSUME NEW x \in ToSet(s) PROVE x \in {Head(s)} \cup ToSet(Tail(s))
    <2>1. PICK i \in 1 .. Len(s) : x = s[i]
      BY <1>1 DEF ToSet
    <2>2. CASE i = 1
      BY <2>1, <2>2, <1>1
    <2>3. CASE i # 1
      <3>1. i - 1 \in 1 .. Len(s) - 1 /\ Tail(s)[i - 1] = x
        BY <2>1, <2>3, <1>1
      <3> QED BY <3>1, <1>1 DEF ToSet
    <2> QED BY <2>2, <2>3
  <1>3. ASSUME NEW x \in {Head(s)} \cup ToSet(Tail(s)) PROVE x \in ToSet(s)
    BY <1>1 DEF ToSet
  <1> QED BY <1>2, <1>3

\* A sequence that increases, with a larger element behind it, and without its head.
Increases(s) == \A i, j \in DOMAIN s : i < j => s[i] < s[j]

LEMMA AppendIncreases ==
  ASSUME NEW s \in Seq(Nat), Increases(s), NEW e \in Nat, \A i \in DOMAIN s : s[i] < e
  PROVE  Increases(Append(s, e))
  <1> DEFINE t == Append(s, e)
             n == Len(s)
  <1>1. /\ DOMAIN t = 1 .. n + 1 /\ DOMAIN s = 1 .. n /\ n \in Nat
        /\ \A i \in 1 .. n : t[i] = s[i]
        /\ t[n + 1] = e
    BY AppendProperties, LenProperties
  <1> HIDE DEF t, n
  <1>2. ASSUME NEW i \in DOMAIN t, NEW j \in DOMAIN t, i < j PROVE t[i] < t[j]
    <2>1. i \in 1 .. n /\ t[i] = s[i]
      BY <1>1, <1>2
    <2>2. CASE j \in 1 .. n
      BY <1>1, <1>2, <2>1, <2>2 DEF Increases
    <2>3. CASE j = n + 1
      BY <1>1, <2>1, <2>3
    <2> QED BY <1>1, <2>2, <2>3
  <1>3. Increases(t)
    BY <1>2 DEF Increases
  <1> QED BY <1>3 DEF t

LEMMA TailIncreases ==
  ASSUME NEW s \in Seq(Nat), s # <<>>, Increases(s)
  PROVE  /\ Increases(Tail(s))
         /\ \A i \in DOMAIN Tail(s) : Head(s) < Tail(s)[i] /\ i + 1 \in DOMAIN s /\ Tail(s)[i] = s[i + 1]
  <1> DEFINE t == Tail(s)
             n == Len(s)
             h == Head(s)
  <1>1. /\ DOMAIN t = 1 .. n - 1 /\ DOMAIN s = 1 .. n /\ n \in Nat \ {0} /\ h = s[1]
        /\ \A i \in 1 .. n - 1 : t[i] = s[i + 1]
    BY HeadTailProperties, EmptySeq, LenProperties
  <1> HIDE DEF t, n, h
  <1>2. \A i \in DOMAIN t : i + 1 \in DOMAIN s /\ 1 \in DOMAIN s /\ 1 < i + 1 /\ t[i] = s[i + 1]
    BY <1>1
  <1>3. ASSUME NEW i \in DOMAIN t, NEW j \in DOMAIN t, i < j PROVE t[i] < t[j]
    <2>1. i + 1 < j + 1
      BY <1>1, <1>3
    <2> QED BY <1>2, <2>1 DEF Increases
  <1>4. Increases(t) /\ \A i \in DOMAIN t : h < t[i]
    BY <1>1, <1>2, <1>3 DEF Increases
  <1> QED BY <1>2, <1>4 DEF t, h

\* What a set that grows by at most one, or not at all, counts.
LEMMA GrowsByOne ==
  ASSUME NEW S, IsFiniteSet(S), NEW n \in Nat, Cardinality(S) <= n, NEW T
  PROVE  /\ T \subseteq S => Cardinality(T) <= n
         /\ \A x : T \subseteq S \cup {x} => Cardinality(T) <= n + 1
  <1>1. T \subseteq S => Cardinality(T) <= n
    BY FS_Subset, FS_CardinalityType
  <1>2. ASSUME NEW x, T \subseteq S \cup {x} PROVE Cardinality(T) <= n + 1
    <2>1. IsFiniteSet(S \cup {x}) /\ Cardinality(S \cup {x}) <= n + 1
      <3>1. Cardinality(S) \in Nat
        BY FS_CardinalityType
      <3>2. IsFiniteSet(S \cup {x})
        BY FS_AddElement
      <3>3. CASE x \in S
        <4>1. S \cup {x} = S
          BY <3>3
        <4> QED BY <3>1, <3>2, <4>1
      <3>4. CASE x \notin S
        <4>1. Cardinality(S \cup {x}) = Cardinality(S) + 1
          BY <3>4, FS_AddElement
        <4> QED BY <3>1, <3>2, <4>1
      <3> QED BY <3>3, <3>4
    <2> QED BY <1>2, <2>1, FS_Subset, FS_CardinalityType
  <1> QED BY <1>1, <1>2

LEMMA SmallestExists ==
  ASSUME NEW S, S \subseteq Nat, S # {}
  PROVE  \E n \in S : \A m \in S : n <= m
  <1> PICK top \in S : TRUE
    OBVIOUS
  <1> DEFINE Below(x) == {y \in S : y < x}
             Lowers == {Below(x) : x \in {z \in S : z <= top}}
             R == StrictSubsetOrdering(0 .. top)
  <1>1. Lowers \subseteq SUBSET (0 .. top) /\ Lowers # {}
    <2>1. ASSUME NEW x \in S, x <= top PROVE Below(x) \in SUBSET (0 .. top)
      <3>1. \A y \in S : y < x => y \in 0 .. top
        BY <2>1
      <3> QED BY <3>1
    <2>2. Below(top) \in Lowers
      OBVIOUS
    <2> QED BY <2>1, <2>2
  <1>2. IsWellFoundedOn(R, SUBSET (0 .. top))
    <2>1. IsFiniteSet(0 .. top)
      BY FS_Interval
    <2> QED BY <2>1, FS_StrictSubsetOrderingWellFounded, FS_FiniteSubsetsOfFinite
  <1>3. PICK U \in Lowers : \A V \in Lowers : ~ (<<V, U>> \in R)
    <2> HIDE DEF Lowers, R
    <2> QED BY <1>1, <1>2, WFMin
  <1>4. PICK x \in S : U = Below(x) /\ x <= top
    OBVIOUS
  <1>5. ASSUME NEW z \in S, z < x PROVE FALSE
    <2>0. z <= top /\ ~(z < z) /\ \A y \in S : y < z => y < x
      BY <1>4, <1>5
    <2>1. /\ Below(z) \subseteq Below(x) /\ z \in Below(x) /\ z \notin Below(z)
          /\ Below(z) \in Lowers
      BY <1>5, <2>0
    <2>2. <<Below(z), Below(x)>> \in R
      BY <1>1, <1>4, <2>1 DEF StrictSubsetOrdering
    <2> QED BY <1>3, <1>4, <2>1, <2>2
  <1> QED BY <1>5
-----------------------------------------------------------------------------
(* The webhook.  An event is behind whatever is ahead of it on its way.       *)

Jobs == [event : Nat, tries : Nat, busy : BOOLEAN]
Counts == [total : Nat, dropped : Nat, row : Nat]

WTypes ==
    /\ total \in Nat /\ wqueue \in Seq(Nat) /\ collector \in Seq(Nat)
    /\ wjob \in Jobs /\ (wjob.busy \/ wjob.event = Marker)
    /\ wcount \in Counts /\ wok \in BOOLEAN
    /\ wgiven \subseteq 1 .. total

\* No event is from the future.
WBounds ==
    /\ \A i \in DOMAIN wqueue : wqueue[i] <= total
    /\ \A i \in DOMAIN collector : collector[i] <= total
    /\ wjob.event <= total

QueueInOrder ==
    \A i, j \in DOMAIN wqueue :
        (i < j /\ Marker \notin {wqueue[i], wqueue[j]}) => wqueue[i] < wqueue[j]

JobIsNext ==
    \A j \in DOMAIN wqueue :
        (Marker \notin {wjob.event, wqueue[j]}) => wjob.event < wqueue[j]

ArrivedIsPast ==
    \A i \in DOMAIN collector :
        /\ \A j \in DOMAIN wqueue :
             (Marker \notin {collector[i], wqueue[j]}) => collector[i] < wqueue[j]
        /\ (Marker \notin {collector[i], wjob.event}) => collector[i] <= wjob.event

GivenUpIsIll == wlast = "exhausted" => ~wok

WInv ==
    /\ WTypes /\ WBounds
    /\ QueueInOrder /\ JobIsNext /\ ArrivedIsPast /\ CollectorInOrder
    /\ WebhookLossIsCounted /\ GivenUpIsIll

\* What no event it is about is lost by, and what moves no event back.
WOrder == QueueInOrder /\ JobIsNext /\ ArrivedIsPast /\ CollectorInOrder

LEMMA WInitInv == Init => WInv
  <1> SUFFICES ASSUME Init PROVE WInv
    OBVIOUS
  <1> USE DEF Init, WInit, Marker, NoJob
  <1>1. DOMAIN wqueue = {} /\ DOMAIN collector = {} /\ wqueue \in Seq(Nat) /\ collector \in Seq(Nat)
    BY EmptySeq
  <1>2. WTypes /\ WBounds
    BY <1>1 DEF WTypes, WBounds, Jobs, Counts
  <1>3. WOrder
    BY <1>1 DEF WOrder, QueueInOrder, JobIsNext, ArrivedIsPast, CollectorInOrder
  <1>4. WebhookLossIsCounted
    BY FS_EmptySet DEF WebhookLossIsCounted, WMissing
  <1> QED BY <1>2, <1>3, <1>4 DEF WInv, WOrder, GivenUpIsIll

\* Appending a marker or an event that is newer than all there are.
LEMMA QueuedKeeps ==
  ASSUME WInv, NEW e \in Nat, e = Marker \/ e = total + 1, total' \in Nat, total <= total',
         e <= total', wqueue' = Append(wqueue, e),
         UNCHANGED <<wjob, wrun, collector>>
  PROVE  WOrder' /\ WBounds' /\ wqueue' \in Seq(Nat) /\ ToSet(wqueue)' = ToSet(wqueue) \cup {e}
  <1> USE DEF WInv, WTypes, WBounds, Jobs
  <1>1. /\ wqueue' \in Seq(Nat) /\ DOMAIN wqueue' = 1 .. Len(wqueue) + 1
        /\ DOMAIN wqueue = 1 .. Len(wqueue) /\ Len(wqueue) \in Nat
        /\ \A i \in 1 .. Len(wqueue) : wqueue'[i] = wqueue[i] /\ wqueue[i] \in Nat
        /\ wqueue'[Len(wqueue) + 1] = e
    BY AppendProperties, LenProperties, ElementOfSeq
  <1>2. DOMAIN collector = 1 .. Len(collector) /\ \A i \in DOMAIN collector : collector[i] \in Nat
    BY LenProperties, ElementOfSeq
  <1>3. WBounds'
    BY <1>1, <1>2
  <1>4. QueueInOrder'
    BY <1>1 DEF QueueInOrder, Marker
  <1>5. JobIsNext'
    BY <1>1 DEF JobIsNext, Marker
  <1>6. ArrivedIsPast'
    BY <1>1, <1>2 DEF ArrivedIsPast, Marker
  <1>7. CollectorInOrder'
    BY DEF CollectorInOrder
  <1>8. ToSet(wqueue)' = ToSet(wqueue) \cup {e}
    <2>1. wqueue' = Append(wqueue, e) /\ wqueue \in Seq(Nat)
      OBVIOUS
    <2>2. ToSet(wqueue') = ToSet(wqueue) \cup {e}
      BY <2>1, AppendToSet
    <2> QED BY <2>2
  <1> QED BY <1>1, <1>3, <1>4, <1>5, <1>6, <1>7, <1>8 DEF WOrder

\* The count of what is lost, when a step loses nothing, or one event that it counts.
LEMMA LossKeeps ==
  ASSUME WInv, wrun' = "up" => wrun = "up", wcount' \in Counts, wgiven' \subseteq 1 .. total', total' \in Nat,
         \/ WMissing' \ wunbuilt' \subseteq WMissing \ wunbuilt /\ wcount'.dropped = wcount.dropped
         \/ \E e : /\ WMissing' \ wunbuilt' \subseteq (WMissing \ wunbuilt) \cup {e}
                   /\ wcount'.dropped = wcount.dropped + 1
  PROVE  WebhookLossIsCounted'
  <1> SUFFICES ASSUME wrun' = "up"
               PROVE  Cardinality(WMissing' \ wunbuilt') <= wcount'.dropped
    BY DEF WebhookLossIsCounted
  <1> DEFINE S == WMissing \ wunbuilt
             T == WMissing' \ wunbuilt'
             n == wcount.dropped
  <1>1. IsFiniteSet(S) /\ Cardinality(S) <= n /\ n \in Nat
    <2>1. S \subseteq 1 .. total
      BY DEF WInv, WTypes, WMissing
    <2>2. IsFiniteSet(1 .. total)
      BY FS_Interval DEF WInv, WTypes
    <2> QED BY <2>1, <2>2, FS_Subset DEF WInv, WTypes, Counts, WebhookLossIsCounted
  <1>2. \/ T \subseteq S /\ wcount'.dropped = n
        \/ \E e : T \subseteq S \cup {e} /\ wcount'.dropped = n + 1
    OBVIOUS
  <1> HIDE DEF S, T, n
  <1>3. Cardinality(T) <= wcount'.dropped
    BY <1>1, <1>2, GrowsByOne
  <1> QED BY <1>3 DEF T

LEMMA PushKeeps ==
  ASSUME WInv, total' = total + 1, WPush(total + 1)
  PROVE  WInv'
  <1> DEFINE e == total + 1
  <1>1. /\ total \in Nat /\ wjob \in Jobs /\ (wjob.busy \/ wjob.event = Marker)
        /\ wcount \in Counts /\ wok \in BOOLEAN /\ wgiven \subseteq 1 .. total
        /\ wqueue \in Seq(Nat) /\ collector \in Seq(Nat) /\ total' \in Nat
    BY DEF WInv, WTypes
  <1>2. /\ wgiven' = wgiven \cup {e} /\ wgiven' \subseteq 1 .. total'
        /\ UNCHANGED <<wjob, wok, wsuccess, wrun, collector, wunbuilt, wlast>>
    BY <1>1 DEF WPush
  <1>3. CASE Len(wqueue) < WDepth
    <2>1. wqueue' = Append(wqueue, e) /\ UNCHANGED wcount
      BY <1>3 DEF WPush
    <2>2. WOrder' /\ WBounds' /\ wqueue' \in Seq(Nat) /\ ToSet(wqueue)' = ToSet(wqueue) \cup {e}
      BY <1>1, <1>2, <2>1, QueuedKeeps
    <2>3. WTypes'
      BY <1>1, <1>2, <2>1, <2>2 DEF WTypes
    <2>4. WMissing' \ wunbuilt' \subseteq WMissing \ wunbuilt
      BY <1>2, <2>2 DEF WMissing
    <2>5. WebhookLossIsCounted'
      BY <1>1, <1>2, <2>1, <2>4, LossKeeps
    <2> QED BY <1>2, <2>2, <2>3, <2>5 DEF WInv, WOrder, GivenUpIsIll
  <1>4. CASE ~(Len(wqueue) < WDepth)
    <2>1. wqueue' = wqueue /\ wcount' = [wcount EXCEPT !.dropped = @ + 1]
      BY <1>4 DEF WPush
    <2>2. wcount' \in Counts /\ wcount'.dropped = wcount.dropped + 1
      BY <1>1, <2>1 DEF Counts
    <2>3. WTypes'
      BY <1>1, <1>2, <2>1, <2>2 DEF WTypes
    <2>4. WOrder'
      BY <1>2, <2>1 DEF WInv, WOrder, QueueInOrder, JobIsNext, ArrivedIsPast, CollectorInOrder
    <2>5. WBounds'
      <3>1. /\ \A i \in DOMAIN wqueue : wqueue[i] \in Nat
            /\ \A i \in DOMAIN collector : collector[i] \in Nat
        BY <1>1, ElementOfSeq, LenProperties
      <3> QED BY <1>1, <1>2, <2>1, <3>1 DEF WInv, WBounds, Jobs
    <2>6. WMissing' \ wunbuilt' \subseteq (WMissing \ wunbuilt) \cup {e}
      BY <1>2, <2>1 DEF WMissing
    <2>7. \E x : /\ WMissing' \ wunbuilt' \subseteq (WMissing \ wunbuilt) \cup {x}
                 /\ wcount'.dropped = wcount.dropped + 1
      BY <2>2, <2>6
    <2>8. WebhookLossIsCounted'
      BY <1>1, <1>2, <2>2, <2>7, LossKeeps
    <2> QED BY <1>2, <2>3, <2>4, <2>5, <2>8 DEF WInv, WOrder, GivenUpIsIll
  <1> QED BY <1>3, <1>4

LEMMA OverflowKeeps ==
  ASSUME WInv, UNCHANGED total, NEW e, WOverflow(e)
  PROVE  WInv'
  <1>1. /\ UNCHANGED <<wjob, wsuccess, wrun, collector, wgiven, wunbuilt, wlast>>
        /\ wok' = FALSE /\ wcount' = [wcount EXCEPT !.row = @ + 1]
        /\ wqueue' = Append(wqueue, Marker) \/ wqueue' = wqueue
    BY DEF WOverflow
  <1>2. /\ total \in Nat /\ wqueue \in Seq(Nat) /\ collector \in Seq(Nat)
        /\ wjob \in Jobs /\ (wjob.busy \/ wjob.event = Marker) /\ wcount \in Counts
        /\ wgiven \subseteq 1 .. total
    BY DEF WInv, WTypes
  <1>3. wcount' \in Counts /\ wcount'.dropped = wcount.dropped
    <2>1. wcount \in [total : Nat, dropped : Nat, row : Nat] /\ wcount' = [wcount EXCEPT !.row = @ + 1]
      BY <1>1, <1>2 DEF Counts
    <2>2. wcount.row + 1 \in Nat
      BY <2>1
    <2> QED BY <2>1, <2>2 DEF Counts
  <1>4. WOrder' /\ WBounds' /\ wqueue' \in Seq(Nat) /\ ToSet(wqueue) \subseteq ToSet(wqueue)'
    <2>1. CASE wqueue' = Append(wqueue, Marker)
      BY <1>1, <1>2, <2>1, QueuedKeeps DEF Marker
    <2>2. CASE wqueue' = wqueue
      BY <1>1, <1>2, <2>2
         DEF WInv, WOrder, WBounds, QueueInOrder, JobIsNext, ArrivedIsPast, CollectorInOrder
    <2> QED BY <1>1, <2>1, <2>2
  <1>5. WTypes'
    BY <1>1, <1>2, <1>3, <1>4 DEF WTypes
  <1>6. WMissing' \ wunbuilt' \subseteq WMissing \ wunbuilt
    BY <1>1, <1>4 DEF WMissing
  <1>7. WebhookLossIsCounted'
    BY <1>1, <1>2, <1>3, <1>6, LossKeeps
  <1> QED BY <1>1, <1>4, <1>5, <1>7 DEF WInv, WOrder, GivenUpIsIll

LEMMA TakeKeeps ==
  ASSUME WInv, UNCHANGED total, WTake
  PROVE  WInv'
  <1>1. /\ total \in Nat /\ wqueue \in Seq(Nat) /\ collector \in Seq(Nat)
        /\ wjob \in Jobs /\ (wjob.busy \/ wjob.event = Marker) /\ wcount \in Counts
        /\ wok \in BOOLEAN /\ wgiven \subseteq 1 .. total
    BY DEF WInv, WTypes
  <1>2. /\ ~wjob.busy /\ wqueue # <<>> /\ wqueue' = Tail(wqueue)
        /\ wjob' = [event |-> Head(wqueue), tries |-> 0, busy |-> TRUE]
        /\ UNCHANGED <<wcount, wok, wsuccess, wrun, collector, wgiven, wunbuilt, wlast>>
    BY DEF WTake
  <1>3. /\ wqueue' \in Seq(Nat) /\ DOMAIN wqueue' = 1 .. Len(wqueue) - 1
        /\ DOMAIN wqueue = 1 .. Len(wqueue) /\ Len(wqueue) \in Nat \ {0}
        /\ \A i \in 1 .. Len(wqueue) - 1 : wqueue'[i] = wqueue[i + 1]
        /\ Head(wqueue) = wqueue[1] /\ Head(wqueue) \in Nat
        /\ \A i \in 1 .. Len(wqueue) : wqueue[i] \in Nat
    BY <1>1, <1>2, HeadTailProperties, EmptySeq, LenProperties, ElementOfSeq
  <1>4. /\ wjob'.event = wqueue[1] /\ wjob'.busy /\ wjob' \in Jobs
        /\ \A i \in DOMAIN wqueue' : i + 1 \in DOMAIN wqueue /\ 1 < i + 1
    BY <1>2, <1>3 DEF Jobs
  <1>5. WTypes' /\ WBounds'
    <2>1. WTypes'
      BY <1>1, <1>2, <1>3, <1>4 DEF WTypes
    <2>2. /\ \A i \in DOMAIN wqueue : wqueue[i] <= total
          /\ \A i \in DOMAIN collector : collector[i] <= total
      BY DEF WInv, WBounds
    <2>3. 1 \in DOMAIN wqueue /\ \A i \in DOMAIN wqueue' : i + 1 \in DOMAIN wqueue /\ wqueue'[i] = wqueue[i + 1]
      BY <1>3, <1>4
    <2> QED BY <1>2, <1>4, <2>1, <2>2, <2>3 DEF WBounds
  <1>6. QueueInOrder'
    <2>1. \A i, j \in DOMAIN wqueue' :
            /\ wqueue'[i] = wqueue[i + 1] /\ wqueue'[j] = wqueue[j + 1]
            /\ i + 1 \in DOMAIN wqueue /\ j + 1 \in DOMAIN wqueue /\ (i < j => i + 1 < j + 1)
      BY <1>3, <1>4
    <2> QED BY <2>1 DEF WInv, QueueInOrder
  <1>7. JobIsNext'
    <2>1. \A i \in DOMAIN wqueue' : wqueue'[i] = wqueue[i + 1] /\ i + 1 \in DOMAIN wqueue /\ 1 < i + 1
      BY <1>3, <1>4
    <2>2. 1 \in DOMAIN wqueue /\ wjob'.event = wqueue[1]
      BY <1>3, <1>4
    <2> QED BY <2>1, <2>2 DEF WInv, QueueInOrder, JobIsNext
  <1>8. ArrivedIsPast' /\ CollectorInOrder'
    <2>1. \A i \in DOMAIN collector : collector[i] \in Nat
      BY <1>1, ElementOfSeq, LenProperties
    <2>2. \A i \in DOMAIN collector, j \in DOMAIN wqueue :
            (Marker \notin {collector[i], wqueue[j]}) => collector[i] < wqueue[j]
      BY DEF WInv, ArrivedIsPast
    <2>3. 1 \in DOMAIN wqueue /\ collector' = collector
      BY <1>2, <1>3
    <2>4. ASSUME NEW i \in DOMAIN collector, Marker \notin {collector[i], wjob'.event}
          PROVE  collector[i] <= wjob'.event
      <3>1. wqueue[1] \in Nat /\ collector[i] \in Nat /\ wjob'.event = wqueue[1]
        BY <1>3, <1>4, <2>1, <2>3
      <3>2. collector[i] < wqueue[1]
        BY <2>2, <2>3, <2>4, <3>1
      <3> QED BY <3>1, <3>2
    <2>5. ASSUME NEW i \in DOMAIN collector, NEW j \in DOMAIN wqueue',
                 Marker \notin {collector[i], wqueue'[j]}
          PROVE  collector[i] < wqueue'[j]
      BY <1>3, <1>4, <2>2, <2>5
    <2>6. CollectorInOrder'
      BY <2>3 DEF WInv, CollectorInOrder
    <2> QED BY <2>3, <2>4, <2>5, <2>6 DEF ArrivedIsPast
  <1>9. WebhookLossIsCounted'
    <2>1. ToSet(wqueue) = {wjob'.event} \cup ToSet(wqueue')
      BY <1>1, <1>2, <1>3, <1>4, HeadToSet
    <2>2. ToSet(wqueue)' = ToSet(wqueue')
      BY DEF ToSet
    <2>3. WMissing' \ wunbuilt' \subseteq WMissing \ wunbuilt
      BY <1>2, <1>4, <2>1, <2>2 DEF WMissing
    <2> QED BY <1>1, <1>2, <2>3, LossKeeps
  <1> QED BY <1>2, <1>5, <1>6, <1>7, <1>8, <1>9 DEF WInv, GivenUpIsIll

\* The collector receives what the worker is sending, and the job ends or goes on.
LEMMA ArrivesKeeps ==
  ASSUME WInv, UNCHANGED <<total, wqueue>>, wjob' \in Jobs,
         wjob'.event \in {wjob.event, Marker},
         collector' \in {collector, Append(collector, wjob.event)}
  PROVE  WOrder' /\ WBounds' /\ collector' \in Seq(Nat)
         /\ ToSet(collector) \subseteq ToSet(collector)'
         /\ (collector' # collector => wjob.event \in ToSet(collector)')
  <1>1. /\ total \in Nat /\ wqueue \in Seq(Nat) /\ collector \in Seq(Nat) /\ wjob.event \in Nat
        /\ wjob'.event \in Nat
    BY DEF WInv, WTypes, Jobs
  <1>2. /\ \A i \in DOMAIN wqueue : wqueue[i] \in Nat
        /\ \A i \in DOMAIN collector : collector[i] \in Nat
    BY <1>1, ElementOfSeq, LenProperties
  <1>3. CASE collector' = collector
    BY <1>1, <1>2, <1>3
       DEF WInv, WOrder, WBounds, QueueInOrder, JobIsNext, ArrivedIsPast, CollectorInOrder, Marker,
           ToSet
  <1>4. CASE collector' = Append(collector, wjob.event)
    <2>1. /\ collector' \in Seq(Nat) /\ DOMAIN collector' = 1 .. Len(collector) + 1
          /\ DOMAIN collector = 1 .. Len(collector) /\ Len(collector) \in Nat
          /\ \A i \in 1 .. Len(collector) : collector'[i] = collector[i] /\ collector[i] \in Nat
          /\ collector'[Len(collector) + 1] = wjob.event
      BY <1>1, <1>2, <1>4, AppendProperties, LenProperties, ElementOfSeq
    <2>2. WBounds'
      <3>1. wjob.event <= total /\ wjob'.event <= total
        BY <1>1 DEF WInv, WBounds, Marker
      <3>2. \A i \in DOMAIN collector' : collector'[i] <= total
        BY <2>1, <3>1 DEF WInv, WBounds
      <3> QED BY <3>1, <3>2 DEF WInv, WBounds
    <2>3. QueueInOrder' /\ JobIsNext'
      BY DEF WInv, QueueInOrder, JobIsNext
    <2>4. ArrivedIsPast'
      <3>1. ASSUME NEW i \in DOMAIN collector'
            PROVE  /\ \A j \in DOMAIN wqueue :
                        (Marker \notin {collector'[i], wqueue[j]}) => collector'[i] < wqueue[j]
                   /\ (Marker \notin {collector'[i], wjob'.event}) => collector'[i] <= wjob'.event
        <4>1. CASE i \in 1 .. Len(collector)
          BY <2>1, <4>1 DEF WInv, ArrivedIsPast
        <4>2. CASE i = Len(collector) + 1
          BY <1>1, <2>1, <4>2 DEF WInv, JobIsNext
        <4> QED BY <2>1, <4>1, <4>2
      <3> QED BY <3>1 DEF ArrivedIsPast
    <2>5. CollectorInOrder'
      <3>1. \A i \in DOMAIN collector :
              (Marker \notin {collector[i], wjob.event}) => collector[i] <= wjob.event
        BY DEF WInv, ArrivedIsPast
      <3> QED BY <2>1, <3>1 DEF WInv, CollectorInOrder
    <2>6. ToSet(collector)' = ToSet(collector) \cup {wjob.event}
      <3>1. ToSet(collector') = ToSet(collector) \cup {wjob.event}
        BY <1>1, <1>4, AppendToSet
      <3> QED BY <3>1
    <2> QED BY <2>1, <2>2, <2>3, <2>4, <2>5, <2>6 DEF WOrder
  <1> QED BY <1>3, <1>4

LEMMA DeliveredKeeps ==
  ASSUME WInv, UNCHANGED total, NEW t, WDelivered(t)
  PROVE  WInv'
  <1>1. /\ total \in Nat /\ wqueue \in Seq(Nat) /\ wjob \in Jobs /\ wcount \in Counts
        /\ wgiven \subseteq 1 .. total
    BY DEF WInv, WTypes
  <1>2. /\ collector' = Append(collector, wjob.event) /\ wjob' = NoJob /\ wok' = TRUE
        /\ wcount' = [total |-> wcount.total + 1, dropped |-> wcount.dropped, row |-> 0]
        /\ wlast' = "delivered"
        /\ UNCHANGED <<wqueue, wfull, wrun, wgiven, wunbuilt>>
    BY DEF WDelivered
  <1>3. wcount' \in Counts /\ wcount'.dropped = wcount.dropped
    BY <1>1, <1>2 DEF Counts
  <1>4. wjob' \in Jobs /\ ~wjob'.busy /\ wjob'.event = Marker
    BY <1>2 DEF NoJob, Jobs, Marker
  <1>5. WOrder' /\ WBounds' /\ collector' \in Seq(Nat)
    BY <1>2, <1>4, ArrivesKeeps
  <1>6. ToSet(collector)' = ToSet(collector) \cup {wjob.event}
    <2>1. collector \in Seq(Nat)
      BY DEF WInv, WTypes
    <2>2. ToSet(collector') = ToSet(collector) \cup {wjob.event}
      BY <1>2, <2>1, AppendToSet
    <2> QED BY <2>2
  <1>7. WTypes'
    BY <1>1, <1>2, <1>3, <1>4, <1>5 DEF WTypes
  <1>8. WMissing' \ wunbuilt' \subseteq WMissing \ wunbuilt
    BY <1>2, <1>4, <1>6 DEF WMissing
  <1>9. WebhookLossIsCounted'
    BY <1>1, <1>2, <1>3, <1>8, LossKeeps
  <1> QED BY <1>2, <1>5, <1>7, <1>9 DEF WInv, WOrder, GivenUpIsIll

LEMMA FailedKeeps ==
  ASSUME WInv, UNCHANGED total, WFailed
  PROVE  WInv'
  <1>1. /\ total \in Nat /\ wqueue \in Seq(Nat) /\ wjob \in Jobs /\ wcount \in Counts
        /\ wgiven \subseteq 1 .. total /\ wok \in BOOLEAN /\ wjob.busy
    BY DEF WInv, WTypes, WFailed
  <1>2. /\ collector' \in {collector, Append(collector, wjob.event)}
        /\ UNCHANGED <<wqueue, wfull, wsuccess, wrun, wgiven, wunbuilt>>
    BY DEF WFailed, WRetry, WExhausted
  <1>3. \/ wjob' = [wjob EXCEPT !.tries = @ + 1] /\ UNCHANGED <<wcount, wok, wlast>>
        \/ wjob' = NoJob /\ wok' = FALSE /\ wcount' =
              [total |-> wcount.total, dropped |-> wcount.dropped + 1, row |-> wcount.row + 1]
    BY DEF WFailed, WRetry, WExhausted
  <1>4. wjob' \in Jobs /\ (wjob'.busy \/ wjob'.event = Marker) /\ wjob'.event \in {wjob.event, Marker}
    <2>1. CASE wjob' = NoJob
      BY <2>1 DEF Jobs, NoJob, Marker
    <2>2. CASE wjob' = [wjob EXCEPT !.tries = @ + 1]
      BY <1>1, <2>2 DEF Jobs
    <2> QED BY <1>3, <2>1, <2>2
  <1>5. /\ WOrder' /\ WBounds' /\ collector' \in Seq(Nat)
        /\ ToSet(collector) \subseteq ToSet(collector)'
    BY <1>2, <1>4, ArrivesKeeps
  <1>6. /\ wcount' \in Counts /\ wok' \in BOOLEAN
        /\ \/ wjob'.busy /\ wjob'.event = wjob.event /\ wcount'.dropped = wcount.dropped
              /\ UNCHANGED <<wok, wlast>>
           \/ wcount'.dropped = wcount.dropped + 1 /\ wok' = FALSE
    <2>1. CASE wjob' = [wjob EXCEPT !.tries = @ + 1] /\ UNCHANGED <<wcount, wok, wlast>>
      BY <1>1, <2>1 DEF Jobs
    <2>2. CASE wok' = FALSE /\ wcount' =
              [total |-> wcount.total, dropped |-> wcount.dropped + 1, row |-> wcount.row + 1]
      <3>1. {wcount.total, wcount.dropped, wcount.row} \subseteq Nat
        BY <1>1 DEF Counts
      <3>2. wcount' \in Counts /\ wcount'.dropped = wcount.dropped + 1
        BY <2>2, <3>1 DEF Counts
      <3> QED BY <2>2, <3>2
    <2> QED BY <1>3, <2>1, <2>2
  <1>7. WTypes'
    BY <1>1, <1>2, <1>4, <1>5, <1>6 DEF WTypes
  <1>8. \/ WMissing' \ wunbuilt' \subseteq WMissing \ wunbuilt /\ wcount'.dropped = wcount.dropped
        \/ \E e : /\ WMissing' \ wunbuilt' \subseteq (WMissing \ wunbuilt) \cup {e}
                  /\ wcount'.dropped = wcount.dropped + 1
    <2>1. WMissing' \ wunbuilt' \subseteq (WMissing \ wunbuilt) \cup {wjob.event}
      BY <1>2, <1>5 DEF WMissing
    <2>2. (wjob'.busy /\ wjob'.event = wjob.event) =>
             WMissing' \ wunbuilt' \subseteq WMissing \ wunbuilt
      BY <1>2, <1>5 DEF WMissing
    <2> QED BY <1>6, <2>1, <2>2
  <1>9. WebhookLossIsCounted'
    BY <1>1, <1>2, <1>6, <1>8, LossKeeps
  <1> QED BY <1>5, <1>6, <1>7, <1>9 DEF WInv, WOrder, GivenUpIsIll

\* The job ends with nothing sent: no request could be built, or the webhook closes.
LEMMA UnsentKeeps ==
  ASSUME WInv, UNCHANGED total, WUnbuildable \/ WAbandon
  PROVE  WInv'
  <1>1. /\ total \in Nat /\ wqueue \in Seq(Nat) /\ collector \in Seq(Nat) /\ wjob \in Jobs
        /\ wcount \in Counts /\ wgiven \subseteq 1 .. total /\ wok \in BOOLEAN
    BY DEF WInv, WTypes
  <1>2. /\ wjob' = NoJob /\ wlast' \in {"unbuildable", "abandoned"}
        /\ UNCHANGED <<wqueue, wcount, wok, collector, wgiven, wrun>>
        /\ wunbuilt' = wunbuilt \cup {wjob.event} \/ wrun' = "closing"
    BY DEF WUnbuildable, WAbandon
  <1>3. wjob' \in Jobs /\ ~wjob'.busy /\ wjob'.event = Marker
    BY <1>2 DEF NoJob, Jobs, Marker
  <1>4. WOrder' /\ WBounds'
    BY <1>2, <1>3, ArrivesKeeps
  <1>5. WTypes'
    BY <1>1, <1>2, <1>3 DEF WTypes
  <1>6. WebhookLossIsCounted'
    <2>1. CASE wrun' = "closing"
      BY <2>1 DEF WebhookLossIsCounted
    <2>2. CASE wunbuilt' = wunbuilt \cup {wjob.event}
      <3>1. WMissing' \ wunbuilt' \subseteq WMissing \ wunbuilt
        BY <1>2, <2>2 DEF WMissing
      <3> QED BY <1>1, <1>2, <3>1, LossKeeps
    <2> QED BY <1>2, <2>1, <2>2
  <1> QED BY <1>2, <1>4, <1>5, <1>6 DEF WInv, WOrder, GivenUpIsIll

\* Nothing of the webhook changes but that it closes, while events go elsewhere.
LEMMA WStillKeeps ==
  ASSUME WInv, total' \in Nat, total <= total', wrun' = wrun \/ wrun' # "up",
         UNCHANGED <<wqueue, wjob, wcount, wok, collector, wgiven, wunbuilt, wlast>>
  PROVE  WInv'
  <1>1. /\ total \in Nat /\ wqueue \in Seq(Nat) /\ collector \in Seq(Nat) /\ wjob \in Jobs
        /\ wgiven \subseteq 1 .. total
    BY DEF WInv, WTypes
  <1>2. /\ \A i \in DOMAIN wqueue : wqueue[i] \in Nat
        /\ \A i \in DOMAIN collector : collector[i] \in Nat
    BY <1>1, ElementOfSeq, LenProperties
  <1>3. WTypes' /\ WBounds'
    BY <1>1, <1>2 DEF WInv, WTypes, WBounds, Jobs
  <1>4. WOrder' /\ GivenUpIsIll'
    BY DEF WInv, WOrder, QueueInOrder, JobIsNext, ArrivedIsPast, CollectorInOrder, GivenUpIsIll
  <1>5. WMissing' = WMissing
    BY DEF WMissing
  <1>6. WebhookLossIsCounted'
    BY <1>5 DEF WInv, WebhookLossIsCounted
  <1> QED BY <1>3, <1>4, <1>6 DEF WInv, WOrder
-----------------------------------------------------------------------------
(* The routes.  What the worker has left to do is the only way in which a     *)
(* destination may be behind.                                                 *)

LEMMA PlaceOf ==
  ASSUME NEW S, NEW d
  PROVE  d \in PlacesIn(S) <=> d[1] \in S /\ d[2] \in DOMAIN Routes[d[1]].dests /\ d = <<d[1], d[2]>>
  BY DEF PlacesIn

\* The loop of SelectRoutes, which leaves at the first route that says stop, comes
\* to the routes that match and have no such route before them.
LEMMA SelectedAsExpected ==
  ASSUME NEW e, NEW d \in Destination
  PROVE  d \in DestinationsOf(e) <=> Expected(d, e)
  <1> DEFINE hits == {i \in DOMAIN Routes : EvaluateMatch(e, Routes[i])}
             stops == {i \in hits : Routes[i].stop}
  <1>1. DOMAIN Routes \subseteq Nat
    BY RoutesAssumption
  <1>2. d[1] \in DOMAIN Routes /\ d[2] \in DOMAIN Routes[d[1]].dests /\ d = <<d[1], d[2]>>
    BY PlaceOf DEF Destination
  <1>3. SelectRoutes(e) = IF stops = {} THEN hits ELSE {i \in hits : i <= Min(stops)}
    BY DEF SelectRoutes, SelectRoutesPastStop
  <1>4. d \in DestinationsOf(e) <=> d[1] \in SelectRoutes(e)
    BY <1>2, PlaceOf DEF DestinationsOf
  <1>5. ASSUME stops # {} PROVE Min(stops) \in stops /\ \A i \in stops : Min(stops) <= i
    <2>1. stops \subseteq Nat
      BY <1>1
    <2>2. \E n \in stops : \A m \in stops : n <= m
      BY <1>5, <2>1, SmallestExists
    <2> QED BY <2>2 DEF Min
  <1>6. CASE stops = {}
    BY <1>2, <1>3, <1>4, <1>6 DEF Expected
  <1>7. CASE stops # {}
    <2> DEFINE m == Min(stops)
    <2>1. /\ m \in hits /\ Routes[m].stop /\ m \in Nat /\ d[1] \in Nat
          /\ \A i \in stops : m <= i /\ i \in Nat
          /\ d \in DestinationsOf(e) <=> d[1] \in hits /\ d[1] <= m
      BY <1>1, <1>2, <1>3, <1>4, <1>5, <1>7
    <2> HIDE DEF m
    <2>2. ASSUME d[1] \in hits, d[1] <= m PROVE Expected(d, e)
      <3>1. ASSUME NEW i \in DOMAIN Routes, i < d[1], EvaluateMatch(e, Routes[i]), Routes[i].stop
            PROVE  FALSE
        <4>1. i \in stops
          BY <3>1
        <4> QED BY <2>1, <2>2, <3>1, <4>1
      <3> QED BY <2>2, <3>1 DEF Expected
    <2>3. ASSUME Expected(d, e) PROVE d[1] \in hits /\ d[1] <= m
      BY <1>2, <2>1, <2>3 DEF Expected
    <2> QED BY <2>1, <2>2, <2>3
  <1> QED BY <1>6, <1>7

RTypes ==
    /\ total \in Nat /\ rqueue \in Seq(Nat) /\ rtaken \subseteq Nat
    /\ rjob \in [event : Nat, left : SUBSET Destination]
    /\ DOMAIN rtried = Destination /\ \A d \in Destination : rtried[d] \in Seq(Nat)

\* Events are taken in the order in which they were pushed.
RLine ==
    /\ \A i \in DOMAIN rqueue : rqueue[i] <= total
    /\ \A i, j \in DOMAIN rqueue : i < j => rqueue[i] < rqueue[j]
    /\ \A e \in rtaken : e <= total /\ \A j \in DOMAIN rqueue : e < rqueue[j]

Due(d) == {e \in rtaken : Expected(d, e)}
Ahead(d) == IF d \in rjob.left THEN {rjob.event} ELSE {}

\* A destination misses at most the event the worker is sending.
RCaught ==
    /\ rjob.left # {} => rjob.event \in rtaken /\ \A e \in rtaken : e <= rjob.event
    /\ \A d \in rjob.left : Expected(d, rjob.event)
    /\ \A d \in Destination : ToSet(rtried[d]) = Due(d) \ Ahead(d)

RTriedInOrder ==
    \A d \in Destination : \A i, j \in DOMAIN rtried[d] : i < j => rtried[d][i] < rtried[d][j]

RInv == RTypes /\ RLine /\ RCaught /\ RTriedInOrder

LEMMA RoutesAreTried == RInv => EveryRouteTried
  BY DEF RInv, RCaught, RTriedInOrder, EveryRouteTried, Due, Ahead

LEMMA RInitInv == Init => RInv
  <1> SUFFICES ASSUME Init PROVE RInv
    OBVIOUS
  <1> USE DEF Init, RInit, Idling
  <1>1. <<>> \in Seq(Nat) /\ DOMAIN <<>> = {} /\ ToSet(<<>>) = {}
    BY EmptySeq DEF ToSet
  <1>2. RTypes /\ RLine
    BY <1>1 DEF RTypes, RLine
  <1>3. RCaught
    BY <1>1 DEF RCaught, Due, Ahead
  <1>4. RTriedInOrder
    BY <1>1 DEF RTriedInOrder
  <1> QED BY <1>2, <1>3, <1>4 DEF RInv

LEMMA RPushKeeps ==
  ASSUME RInv, total' = total + 1, RPush(total + 1)
  PROVE  RInv'
  <1>1. /\ total \in Nat /\ rqueue \in Seq(Nat) /\ rtaken \subseteq Nat
        /\ DOMAIN rqueue = 1 .. Len(rqueue) /\ Len(rqueue) \in Nat
        /\ \A i \in DOMAIN rqueue : rqueue[i] \in Nat
    BY LenProperties, ElementOfSeq DEF RInv, RTypes
  <1>2. UNCHANGED <<rjob, rtried, rtaken>>
    BY DEF RPush
  <1>3. RCaught' /\ RTriedInOrder'
    BY <1>2 DEF RInv, RCaught, Due, Ahead, RTriedInOrder
  <1>4. RLine' /\ rqueue' \in Seq(Nat)
    <2>1. CASE rqueue' = rqueue
      BY <1>1, <1>2, <2>1 DEF RInv, RLine
    <2>2. CASE rqueue' = Append(rqueue, total + 1)
      <3>1. /\ rqueue' \in Seq(Nat) /\ DOMAIN rqueue' = 1 .. Len(rqueue) + 1
            /\ \A i \in 1 .. Len(rqueue) : rqueue'[i] = rqueue[i]
            /\ rqueue'[Len(rqueue) + 1] = total + 1
        BY <1>1, <2>2, AppendProperties, LenProperties
      <3>2. /\ \A i \in DOMAIN rqueue : rqueue[i] <= total
            /\ \A i, j \in DOMAIN rqueue : i < j => rqueue[i] < rqueue[j]
            /\ \A e \in rtaken : e <= total /\ \A j \in DOMAIN rqueue : e < rqueue[j]
        BY DEF RInv, RLine
      <3>3. \A i \in DOMAIN rqueue' : rqueue'[i] <= total'
        BY <1>1, <3>1, <3>2
      <3>4. \A i, j \in DOMAIN rqueue' : i < j => rqueue'[i] < rqueue'[j]
        <4>1. total + 1 \in Nat /\ \A i \in DOMAIN rqueue : rqueue[i] < total + 1
          BY <1>1, <3>2
        <4>2. Increases(Append(rqueue, total + 1))
          BY <1>1, <3>2, <4>1, AppendIncreases DEF Increases
        <4> QED BY <2>2, <4>2 DEF Increases
      <3>5. \A e \in rtaken' : e <= total' /\ \A j \in DOMAIN rqueue' : e < rqueue'[j]
        BY <1>1, <1>2, <3>1, <3>2
      <3> QED BY <3>1, <3>3, <3>4, <3>5 DEF RLine
    <2> QED BY <2>1, <2>2 DEF RPush
  <1>5. RTypes'
    BY <1>1, <1>2, <1>4 DEF RInv, RTypes
  <1> QED BY <1>3, <1>4, <1>5 DEF RInv

LEMMA RTakeKeeps ==
  ASSUME RInv, UNCHANGED total, RTake
  PROVE  RInv'
  <1> DEFINE h == Head(rqueue)
  <1>1. /\ total \in Nat /\ rqueue \in Seq(Nat) /\ rtaken \subseteq Nat
        /\ DOMAIN rtried = Destination /\ \A d \in Destination : rtried[d] \in Seq(Nat)
    BY DEF RInv, RTypes
  <1>2. /\ rjob.left = {} /\ rqueue # <<>> /\ rqueue' = Tail(rqueue)
        /\ rjob' = [event |-> h, left |-> DestinationsOf(h)]
        /\ rtaken' = rtaken \cup {h} /\ UNCHANGED rtried
    BY DEF RTake
  <1>3. /\ rqueue' \in Seq(Nat) /\ DOMAIN rqueue' = 1 .. Len(rqueue) - 1
        /\ DOMAIN rqueue = 1 .. Len(rqueue) /\ Len(rqueue) \in Nat \ {0}
        /\ \A i \in 1 .. Len(rqueue) - 1 : rqueue'[i] = rqueue[i + 1]
        /\ h = rqueue[1] /\ h \in Nat
        /\ \A i \in 1 .. Len(rqueue) : rqueue[i] \in Nat
    BY <1>1, <1>2, HeadTailProperties, EmptySeq, LenProperties, ElementOfSeq
  <1>4. \A d \in Destination : d \in DestinationsOf(h) <=> Expected(d, h)
    BY SelectedAsExpected
  <1>5. DestinationsOf(h) \subseteq Destination
    <2>1. SelectRoutes(h) \subseteq DOMAIN Routes
      BY DEF SelectRoutes, SelectRoutesPastStop
    <2> QED BY <2>1 DEF DestinationsOf, PlacesIn, Destination
  <1>6. RTypes'
    BY <1>1, <1>2, <1>3, <1>5 DEF RTypes
  <1>7. /\ \A e \in rtaken : e < h /\ e \in Nat
        /\ \A i \in DOMAIN rqueue' : i + 1 \in DOMAIN rqueue /\ 1 < i + 1
    <2>1. 1 \in DOMAIN rqueue /\ rtaken \subseteq Nat
      BY <1>1, <1>3
    <2>2. \A e \in rtaken, j \in DOMAIN rqueue : e < rqueue[j]
      BY DEF RInv, RLine
    <2>3. \A e \in rtaken : e < h
      BY <1>3, <2>1, <2>2
    <2>4. \A i \in DOMAIN rqueue' : i + 1 \in DOMAIN rqueue /\ 1 < i + 1
      BY <1>3
    <2> QED BY <2>1, <2>3, <2>4
  <1>8. RLine'
    <2>1. /\ \A i \in DOMAIN rqueue : rqueue[i] <= total
          /\ Increases(rqueue)
          /\ \A e \in rtaken : e <= total /\ \A j \in DOMAIN rqueue : e < rqueue[j]
      BY DEF RInv, RLine, Increases
    <2>2. /\ Increases(rqueue')
          /\ \A i \in DOMAIN rqueue' : h < rqueue'[i] /\ i + 1 \in DOMAIN rqueue /\ rqueue'[i] = rqueue[i + 1]
      BY <1>1, <1>2, <2>1, TailIncreases
    <2>3. \A i \in DOMAIN rqueue' : rqueue'[i] <= total
      BY <2>1, <2>2
    <2>4. \A e \in rtaken' : e <= total /\ \A j \in DOMAIN rqueue' : e < rqueue'[j]
      <3>1. \A e \in rtaken : \A j \in DOMAIN rqueue' : e < rqueue'[j]
        BY <2>1, <2>2
      <3>2. 1 \in DOMAIN rqueue /\ h <= total
        BY <1>3, <2>1
      <3> QED BY <1>2, <2>1, <2>2, <3>1, <3>2
    <2> QED BY <1>2, <2>2, <2>3, <2>4 DEF RLine, Increases
  <1>9. RCaught'
    <2>1. h \notin rtaken
      BY <1>7
    <2>2. rjob'.event = h /\ rjob'.left = DestinationsOf(h)
      BY <1>2
    <2>3. ASSUME NEW d \in Destination PROVE ToSet(rtried'[d]) = Due(d)' \ Ahead(d)'
      <3>1. ToSet(rtried[d]) = Due(d)
        BY <1>2 DEF RInv, RCaught, Ahead
      <3>2. Due(d)' = Due(d) \cup (IF Expected(d, h) THEN {h} ELSE {})
        BY <1>2 DEF Due, Expected, EvaluateMatch
      <3>3. Ahead(d)' = IF Expected(d, h) THEN {h} ELSE {}
        BY <1>4, <2>2 DEF Ahead
      <3>4. h \notin Due(d)
        BY <2>1 DEF Due
      <3> QED BY <1>2, <3>1, <3>2, <3>3, <3>4
    <2>4. \A d \in rjob'.left : Expected(d, rjob'.event)
      BY <1>4, <1>5, <2>2
    <2>5. rjob'.event \in rtaken' /\ \A e \in rtaken' : e <= rjob'.event
      BY <1>2, <1>3, <1>7, <2>2
    <2>6. \A d \in Destination : ToSet(rtried[d])' = ToSet(rtried'[d])
      BY DEF ToSet
    <2> QED BY <2>3, <2>4, <2>5, <2>6 DEF RCaught, Expected, EvaluateMatch
  <1>10. RTriedInOrder'
    BY <1>2 DEF RInv, RTriedInOrder
  <1> QED BY <1>6, <1>8, <1>9, <1>10 DEF RInv

LEMMA RSendKeeps ==
  ASSUME RInv, UNCHANGED total, RSend
  PROVE  RInv'
  <1> DEFINE e == rjob.event
  <1>1. /\ total \in Nat /\ rqueue \in Seq(Nat) /\ rtaken \subseteq Nat /\ e \in Nat
        /\ DOMAIN rtried = Destination /\ \A d \in Destination : rtried[d] \in Seq(Nat)
        /\ rjob.left \subseteq Destination
    BY DEF RInv, RTypes
  <1>2. PICK d \in rjob.left :
          /\ rtried' = [rtried EXCEPT ![d] = Append(@, e)]
          /\ rjob' = [rjob EXCEPT !.left = @ \ {d}]
          /\ UNCHANGED <<rqueue, rtaken>>
    BY DEF RSend, RFailed
  <1>3. /\ rtried'[d] = Append(rtried[d], e) /\ DOMAIN rtried' = Destination
        /\ \A c \in Destination \ {d} : rtried'[c] = rtried[c]
        /\ d \in Destination
    BY <1>1, <1>2
  <1>4. rjob'.event = e /\ rjob'.left = rjob.left \ {d}
    <2>1. rjob' = [rjob EXCEPT !.left = rjob.left \ {d}]
      BY <1>2
    <2>2. "left" \in DOMAIN rjob /\ "event" \in DOMAIN rjob
      BY DEF RInv, RTypes
    <2> QED BY <2>1, <2>2
  <1>5. /\ ToSet(rtried[d]) = Due(d) \ {e} /\ e \in Due(d)
        /\ \A x \in rtaken : x <= e
    <2>1. Ahead(d) = {e} /\ d \in Destination
      BY <1>1, <1>2 DEF Ahead
    <2>2. e \in rtaken /\ Expected(d, e) /\ \A x \in rtaken : x <= e
      BY <1>2 DEF RInv, RCaught
    <2>3. ToSet(rtried[d]) = Due(d) \ {e}
      BY <2>1 DEF RInv, RCaught
    <2> QED BY <2>2, <2>3 DEF Due
  <1>6. /\ rtried'[d] \in Seq(Nat)
        /\ DOMAIN rtried'[d] = 1 .. Len(rtried[d]) + 1 /\ DOMAIN rtried[d] = 1 .. Len(rtried[d])
        /\ Len(rtried[d]) \in Nat
        /\ \A i \in 1 .. Len(rtried[d]) : rtried'[d][i] = rtried[d][i] /\ rtried[d][i] \in Nat
        /\ rtried'[d][Len(rtried[d]) + 1] = e
    BY <1>1, <1>3, AppendProperties, LenProperties, ElementOfSeq
  <1>7. ToSet(rtried'[d]) = ToSet(rtried[d]) \cup {e}
    BY <1>1, <1>3, AppendToSet
  <1>8. RTypes'
    BY <1>1, <1>2, <1>3, <1>4, <1>6 DEF RInv, RTypes
  <1>9. RLine'
    BY <1>2 DEF RInv, RLine
  <1>10. RCaught'
    <2>1. \A c \in Destination : Due(c)' = Due(c)
      BY <1>2 DEF Due, Expected, EvaluateMatch
    <2>2. ASSUME NEW c \in Destination PROVE ToSet(rtried'[c]) = Due(c)' \ Ahead(c)'
      <3>1. CASE c = d
        <4>1. Ahead(c)' = {}
          BY <1>4, <3>1 DEF Ahead
        <4> QED BY <1>5, <1>7, <2>1, <3>1, <4>1
      <3>2. CASE c # d
        <4>1. Ahead(c)' = Ahead(c)
          BY <1>4, <3>2 DEF Ahead
        <4>2. ToSet(rtried[c]) = Due(c) \ Ahead(c)
          BY DEF RInv, RCaught
        <4> QED BY <1>3, <2>1, <3>2, <4>1, <4>2
      <3> QED BY <3>1, <3>2
    <2>3. /\ rjob'.left # {} => rjob'.event \in rtaken' /\ \A x \in rtaken' : x <= rjob'.event
          /\ \A c \in rjob'.left : Expected(c, rjob'.event)
      BY <1>2, <1>4 DEF RInv, RCaught
    <2>4. \A c \in Destination : ToSet(rtried[c])' = ToSet(rtried'[c])
      BY DEF ToSet
    <2> QED BY <2>2, <2>3, <2>4 DEF RCaught, Expected, EvaluateMatch
  <1>11. RTriedInOrder'
    <2>1. \A i \in 1 .. Len(rtried[d]) : rtried[d][i] < e
      <3>1. ASSUME NEW i \in 1 .. Len(rtried[d]) PROVE rtried[d][i] < e
        <4>1. rtried[d][i] \in Due(d) \ {e}
          BY <1>5, <1>6 DEF ToSet
        <4>2. rtried[d][i] \in rtaken /\ rtried[d][i] # e
          BY <4>1 DEF Due
        <4> QED BY <1>1, <1>5, <4>2
      <3> QED BY <3>1
    <2>2. ASSUME NEW i \in DOMAIN rtried'[d], NEW j \in DOMAIN rtried'[d], i < j
          PROVE  rtried'[d][i] < rtried'[d][j]
      <3>1. \A m, n \in DOMAIN rtried[d] : m < n => rtried[d][m] < rtried[d][n]
        BY <1>3 DEF RInv, RTriedInOrder
      <3>2. CASE j = Len(rtried[d]) + 1
        <4>1. i \in 1 .. Len(rtried[d])
          BY <1>6, <2>2, <3>2
        <4> QED BY <1>6, <2>1, <3>2, <4>1
      <3>3. CASE j # Len(rtried[d]) + 1
        <4>1. i \in DOMAIN rtried[d] /\ j \in DOMAIN rtried[d]
          BY <1>6, <2>2, <3>3
        <4> QED BY <1>6, <2>2, <3>1, <4>1
      <3> QED BY <3>2, <3>3
    <2> QED BY <1>3, <2>2 DEF RInv, RTriedInOrder
  <1> QED BY <1>8, <1>9, <1>10, <1>11 DEF RInv

\* The worker goes on, stops, or events go elsewhere.
LEMMA RStillKeeps ==
  ASSUME RInv, total' \in Nat, total <= total', UNCHANGED <<rqueue, rjob, rtried, rtaken>>
  PROVE  RInv'
  <1>1. /\ total \in Nat /\ rqueue \in Seq(Nat) /\ rtaken \subseteq Nat
        /\ \A i \in DOMAIN rqueue : rqueue[i] \in Nat
    BY LenProperties, ElementOfSeq DEF RInv, RTypes
  <1>2. RTypes' /\ RLine'
    BY <1>1 DEF RInv, RTypes, RLine
  <1>3. RCaught' /\ RTriedInOrder'
    BY DEF RInv, RCaught, Due, Ahead, RTriedInOrder
  <1> QED BY <1>2, <1>3 DEF RInv
-----------------------------------------------------------------------------
(* What a step of the manager is for each of the channels.                    *)

WStep ==
    \/ total' = total + 1 /\ (WPush(total + 1) \/ UNCHANGED wvars)
    \/ UNCHANGED total /\ (WNext(now) \/ WClose \/ UNCHANGED wvars)
RStep ==
    \/ total' = total + 1 /\ (RPush(total + 1) \/ UNCHANGED rvars)
    \/ UNCHANGED total /\ (RNext \/ RClose \/ UNCHANGED rvars)
OStep ==
    \/ total' = total + 1 /\ total < MaxEvents /\ UNCHANGED channels
       /\ IF "objects" \in channels THEN OEnter(total + 1) ELSE UNCHANGED ovars
    \/ UNCHANGED <<total, channels>> /\ (ONext(now) \/ OClose \/ UNCHANGED ovars)
LStep ==
    \/ total' = total + 1 /\ total < MaxEvents /\ UNCHANGED channels
       /\ IF "lake" \in channels THEN LEnter(total + 1) ELSE UNCHANGED lvars
    \/ UNCHANGED <<total, channels>> /\ (LNext(now) \/ LClose \/ UNCHANGED lvars)
SStep ==
    \/ total < MaxEvents /\ SEnter(total + 1) /\ total' = total + 1
    \/ total' = total + 1 /\ UNCHANGED svars
    \/ /\ UNCHANGED total
       /\ \/ SNext \/ SStop \/ SRestart \/ UNCHANGED svars
          \/ \E s \in Session : SFindOld(s) \/ SRemove(s)

LEMMA BeginOf ==
  ASSUME NEW c, Begin(c)
  PROVE  /\ WClose \/ UNCHANGED wvars
         /\ RClose \/ UNCHANGED rvars
         /\ OClose \/ UNCHANGED ovars
         /\ LClose \/ UNCHANGED lvars
         /\ SStop \/ UNCHANGED svars
  BY DEF Begin

LEMMA StepOfEach == [Next]_vars => WStep /\ RStep /\ OStep /\ LStep /\ SStep
  <1> SUFFICES ASSUME [Next]_vars PROVE WStep /\ RStep /\ OStep /\ LStep /\ SStep
    OBVIOUS
  <1>1. CASE Emit
    BY <1>1 DEF Emit, WStep, RStep, OStep, LStep, SStep
  <1>2. CASE CloseStep
    <2>1. /\ WClose \/ UNCHANGED wvars
          /\ RClose \/ UNCHANGED rvars
          /\ OClose \/ UNCHANGED ovars
          /\ LClose \/ UNCHANGED lvars
          /\ SStop \/ UNCHANGED svars
      <3>1. (\E c : Begin(c)) \/ UNCHANGED <<wvars, rvars, ovars, lvars, svars>>
        BY <1>2 DEF CloseStep, Close
      <3> QED BY <3>1, BeginOf
    <2>2. UNCHANGED <<total, channels>>
      BY <1>2 DEF CloseStep
    <2> QED BY <2>1, <2>2 DEF WStep, RStep, OStep, LStep, SStep
  <1>3. CASE Crash \/ Tick \/ UNCHANGED vars
    <2>1. UNCHANGED <<total, channels, wvars, rvars, ovars, lvars, svars>>
      BY <1>3 DEF Crash, Tick, vars, mvars
    <2> QED BY <2>1 DEF WStep, RStep, OStep, LStep, SStep
  <1>4. CASE Restart \/ Purge
    BY <1>4 DEF Restart, Purge, mvars, WStep, RStep, OStep, LStep, SStep
  <1>5. CASE Alive /\ (Webhook \/ Router \/ Objects \/ Lake \/ Recorder)
    <2>1. UNCHANGED <<total, channels>>
      BY <1>5 DEF Alive, mvars
    <2>2. CASE Webhook
      BY <2>1, <2>2 DEF Webhook, WStep, RStep, OStep, LStep, SStep
    <2>3. CASE Router
      BY <2>1, <2>3 DEF Router, WStep, RStep, OStep, LStep, SStep
    <2>4. CASE Objects
      BY <2>1, <2>4 DEF Objects, WStep, RStep, OStep, LStep, SStep
    <2>5. CASE Lake
      BY <2>1, <2>5 DEF Lake, WStep, RStep, OStep, LStep, SStep
    <2>6. CASE Recorder
      BY <2>1, <2>6 DEF Recorder, WStep, RStep, OStep, LStep, SStep
    <2> QED BY <1>5, <2>2, <2>3, <2>4, <2>5, <2>6
  <1> QED BY <1>1, <1>2, <1>3, <1>4, <1>5 DEF Next

LEMMA WStepKeeps == WInv /\ WStep => WInv'
  <1> SUFFICES ASSUME WInv, WStep PROVE WInv'
    OBVIOUS
  <1>1. total \in Nat /\ total + 1 \in Nat /\ total <= total + 1 /\ total <= total
    BY DEF WInv, WTypes
  <1>2. CASE total' = total + 1 /\ WPush(total + 1)
    BY <1>2, PushKeeps
  <1>3. CASE UNCHANGED wvars
    <2>1. total' \in Nat /\ total <= total'
      BY <1>1 DEF WStep
    <2> QED BY <1>3, <2>1, WStillKeeps DEF wvars
  <1>4. CASE UNCHANGED total /\ (WClose \/ WStop)
    <2>1. /\ wrun' # "up" /\ total' \in Nat /\ total <= total'
          /\ UNCHANGED <<wqueue, wjob, wcount, wok, collector, wgiven, wunbuilt, wlast>>
      BY <1>1, <1>4 DEF WClose, WStop
    <2> QED BY <2>1, WStillKeeps
  <1>5. CASE UNCHANGED total /\ WNext(now)
    <2>1. CASE \E e \in wfull : WOverflow(e)
      BY <1>5, <2>1, OverflowKeeps
    <2>2. CASE WTake
      BY <1>5, <2>2, TakeKeeps
    <2>3. CASE WUnbuildable \/ WAbandon
      BY <1>5, <2>3, UnsentKeeps
    <2>4. CASE WDelivered(now)
      BY <1>5, <2>4, DeliveredKeeps
    <2>5. CASE WFailed
      BY <1>5, <2>5, FailedKeeps
    <2> QED BY <1>4, <1>5, <2>1, <2>2, <2>3, <2>4, <2>5 DEF WNext
  <1> QED BY <1>2, <1>3, <1>4, <1>5 DEF WStep

LEMMA RStepKeeps == RInv /\ RStep => RInv'
  <1> SUFFICES ASSUME RInv, RStep PROVE RInv'
    OBVIOUS
  <1>1. total \in Nat /\ total + 1 \in Nat /\ total <= total + 1 /\ total <= total
    BY DEF RInv, RTypes
  <1>2. CASE total' = total + 1 /\ RPush(total + 1)
    BY <1>2, RPushKeeps
  <1>3. CASE UNCHANGED total /\ RTake
    BY <1>3, RTakeKeeps
  <1>4. CASE UNCHANGED total /\ RSend
    BY <1>4, RSendKeeps
  <1>5. CASE UNCHANGED rvars \/ (UNCHANGED total /\ (RClose \/ RStop))
    <2>1. total' \in Nat /\ total <= total' /\ UNCHANGED <<rqueue, rjob, rtried, rtaken>>
      BY <1>1, <1>5 DEF RStep, rvars, RClose, RStop
    <2> QED BY <2>1, RStillKeeps
  <1> QED BY <1>2, <1>3, <1>4, <1>5 DEF RStep, RNext

LEMMA WRHolds == WInv /\ RInv => FailuresAreLocal
  BY RoutesAreTried DEF FailuresAreLocal, WInv, GivenUpIsIll, GivingUpIsSeen, WHealthy

\* Whatever fails in the webhook or at a destination of a route costs what it says:
\* the collector has what it has in order, what it misses was counted, an event that
\* was given up shows in the health report, and every destination of every route that
\* an event matches, up to one that says stop, is tried, once, in order.
THEOREM FailuresStayLocal == Spec => []FailuresAreLocal
  <1>1. Init => WInv /\ RInv
    BY WInitInv, RInitInv
  <1>2. WInv /\ RInv /\ [Next]_vars => (WInv /\ RInv)'
    BY StepOfEach, WStepKeeps, RStepKeeps
  <1> QED BY <1>1, <1>2, WRHolds, PTL DEF Spec
-----------------------------------------------------------------------------
(* Object storage.  An event is at one place of its way at a time.            *)

OStored == {e \in Event : ostored[e] # 0}

OPlaces ==
    /\ total \in Nat /\ total <= MaxEvents /\ obuf \in Seq(Nat)
    /\ DOMAIN ostored = Event /\ \A e \in Event : ostored[e] \in {0, 1}
    /\ oin \cup ToSet(obuf) \cup InFlight(oflight) \cup OStored \subseteq 1 .. total

OApart ==
    /\ oin \cap ToSet(obuf) = {} /\ oin \cap InFlight(oflight) = {}
    /\ ToSet(obuf) \cap InFlight(oflight) = {}
    /\ OStored \cap (oin \cup ToSet(obuf) \cup InFlight(oflight)) = {}
    /\ \A f, g \in oflight : f # g => ToSet(f.rows) \cap ToSet(g.rows) = {}

ONoneLost ==
    ostate = "up" /\ ~oerror =>
        1 .. total \subseteq oin \cup ToSet(obuf) \cup InFlight(oflight) \cup OStored

OInv == OPlaces /\ OApart /\ ONoneLost

LEMMA OHolds == OInv => ObjectsHoldOnce(Given \ odrops)
  <1> SUFFICES ASSUME OInv, NEW e \in Given \ odrops
               PROVE  /\ ostored[e] <= 1
                      /\ ostored[e] = 1 => e \notin ToSet(obuf) \cup InFlight(oflight)
                      /\ ostate = "up" /\ ostored[e] = 0 /\ ~oerror =>
                             e \in oin \cup ToSet(obuf) \cup InFlight(oflight)
    BY DEF ObjectsHoldOnce
  <1>1. e \in 1 .. total /\ e \in Event
    BY ManagerAssumption DEF OInv, OPlaces, Given, Event
  <1>2. ostored[e] \in {0, 1} /\ (e \in OStored <=> ostored[e] = 1)
    BY <1>1 DEF OInv, OPlaces, OStored
  <1> QED BY <1>1, <1>2 DEF OInv, OApart, ONoneLost

LEMMA OInitInv == Init => OInv
  <1> SUFFICES ASSUME Init PROVE OInv
    OBVIOUS
  <1> USE DEF Init, BInit
  <1>1. <<>> \in Seq(Nat) /\ ToSet(<<>>) = {}
    BY EmptySeq DEF ToSet
  <1>2. ToSet(obuf) = {} /\ InFlight(oflight) = {} /\ OStored = {} /\ oin = {}
    BY <1>1 DEF InFlight, OStored
  <1>3. OPlaces
    BY <1>1, <1>2, ManagerAssumption DEF OPlaces
  <1> QED BY <1>2, <1>3 DEF OInv, OApart, ONoneLost

\* An event moves to another place, or is lost with an error, or no place matters
\* any more.
LEMMA OMoveKeeps ==
  ASSUME OInv, NEW B, NEW F, B = ToSet(obuf)', F = InFlight(oflight)',
         UNCHANGED <<total, ostored>>, obuf' \in Seq(Nat),
         oin' \cup B \cup F \subseteq oin \cup ToSet(obuf) \cup InFlight(oflight),
         oin' \cap B = {}, oin' \cap F = {}, B \cap F = {},
         \A f, g \in oflight' : f # g => ToSet(f.rows) \cap ToSet(g.rows) = {},
         \/ ostate' # "up" \/ oerror'
         \/ /\ ostate' = ostate /\ oerror' = oerror
            /\ oin \cup ToSet(obuf) \cup InFlight(oflight) \subseteq oin' \cup B \cup F
  PROVE  OInv'
  <1>1. OStored' = OStored
    BY DEF OStored
  <1>2. OPlaces'
    BY <1>1 DEF OInv, OPlaces
  <1>3. OApart'
    <2>1. \A f : ToSet(f.rows)' = ToSet(f'.rows)
      BY DEF ToSet
    <2> QED BY <1>1 DEF OInv, OApart
  <1>4. ONoneLost'
    BY <1>1 DEF OInv, ONoneLost
  <1> QED BY <1>2, <1>3, <1>4 DEF OInv

LEMMA OEnterKeeps ==
  ASSUME OInv, total' = total + 1, total < MaxEvents, OEnter(total + 1)
  PROVE  OInv'
  <1>1. /\ UNCHANGED <<ostate, obuf, oflight, ostored, oerror>>
        /\ oin' = IF ostate = "up" THEN oin \cup {total + 1} ELSE oin
        /\ total \in Nat /\ MaxEvents \in Nat
    BY ManagerAssumption DEF OEnter, OInv, OPlaces
  <1>2. /\ ToSet(obuf)' = ToSet(obuf) /\ InFlight(oflight)' = InFlight(oflight)
        /\ OStored' = OStored
    BY <1>1 DEF ToSet, InFlight, OStored
  <1>3. total + 1 \notin 1 .. total /\ 1 .. total' = (1 .. total) \cup {total + 1}
    BY <1>1
  <1>4. OPlaces'
    BY <1>1, <1>2, <1>3 DEF OInv, OPlaces
  <1>5. OApart'
    <2>1. total + 1 \notin oin \cup ToSet(obuf) \cup InFlight(oflight) \cup OStored
      BY <1>3 DEF OInv, OPlaces
    <2>2. oin' \subseteq oin \cup {total + 1}
      BY <1>1
    <2>3. /\ oin' \cap ToSet(obuf)' = {} /\ oin' \cap InFlight(oflight)' = {}
          /\ ToSet(obuf)' \cap InFlight(oflight)' = {}
          /\ OStored' \cap (oin' \cup ToSet(obuf)' \cup InFlight(oflight)') = {}
      BY <1>2, <2>1, <2>2 DEF OInv, OApart
    <2>4. \A f, g \in oflight' : f # g => ToSet(f.rows) \cap ToSet(g.rows) = {}
      BY <1>1 DEF OInv, OApart
    <2>5. \A f : ToSet(f.rows)' = ToSet(f'.rows)
      BY DEF ToSet
    <2> QED BY <2>3, <2>4, <2>5 DEF OApart
  <1>6. ONoneLost'
    BY <1>1, <1>2, <1>3 DEF OInv, ONoneLost
  <1> QED BY <1>4, <1>5, <1>6 DEF OInv

LEMMA OWriteKeeps ==
  ASSUME OInv, UNCHANGED total, NEW e, NEW t, OWrite(e, t)
  PROVE  OInv'
  <1>1. /\ e \in oin /\ oin' = oin \ {e} /\ UNCHANGED <<ostate, oflight, ostored>>
        /\ \/ oerror' = TRUE /\ obuf' = obuf
           \/ oerror' = oerror /\ obuf' = Append(obuf, e)
        /\ obuf \in Seq(Nat) /\ oin \subseteq Nat
    BY DEF OWrite, OInv, OPlaces
  <1>2. InFlight(oflight)' = InFlight(oflight)
    BY <1>1 DEF InFlight, ToSet
  <1>3. \A f, g \in oflight' : f # g => ToSet(f.rows) \cap ToSet(g.rows) = {}
    BY <1>1 DEF OInv, OApart
  <1>4. CASE oerror' = TRUE /\ obuf' = obuf
    <2>1. ToSet(obuf)' = ToSet(obuf)
      BY <1>4 DEF ToSet
    <2>2. /\ oin' \cup ToSet(obuf)' \cup InFlight(oflight)' \subseteq oin \cup ToSet(obuf) \cup InFlight(oflight)
          /\ oin' \cap ToSet(obuf)' = {} /\ oin' \cap InFlight(oflight)' = {}
          /\ ToSet(obuf)' \cap InFlight(oflight)' = {} /\ obuf' \in Seq(Nat)
      BY <1>1, <1>2, <1>4, <2>1 DEF OInv, OApart
    <2> QED BY <1>1, <1>3, <1>4, <2>2, OMoveKeeps
  <1>5. CASE oerror' = oerror /\ obuf' = Append(obuf, e)
    <2>1. ToSet(obuf)' = ToSet(obuf) \cup {e} /\ obuf' \in Seq(Nat)
      <3>1. ToSet(obuf') = ToSet(obuf) \cup {e}
        BY <1>1, <1>5, AppendToSet
      <3> QED BY <1>1, <1>5, <3>1, AppendProperties DEF ToSet
    <2>2. /\ oin' \cup ToSet(obuf)' \cup InFlight(oflight)' = oin \cup ToSet(obuf) \cup InFlight(oflight)
          /\ oin' \cap ToSet(obuf)' = {} /\ oin' \cap InFlight(oflight)' = {}
          /\ ToSet(obuf)' \cap InFlight(oflight)' = {}
      BY <1>1, <1>2, <2>1 DEF OInv, OApart
    <2> QED BY <1>1, <1>3, <1>5, <2>1, <2>2, OMoveKeeps
  <1> QED BY <1>1, <1>4, <1>5

LEMMA OFlushKeeps ==
  ASSUME OInv, UNCHANGED total, NEW a, OFlush(a)
  PROVE  OInv'
  <1> DEFINE new == [by |-> a, rows |-> obuf]
  <1>1. /\ obuf' = <<>> /\ UNCHANGED <<ostate, oin, ostored, oerror>>
        /\ oflight' = IF obuf = <<>> THEN oflight ELSE oflight \cup {new}
    BY DEF OFlush, OFlushResetting
  <1>2. ToSet(obuf)' = {} /\ obuf' \in Seq(Nat)
    BY <1>1, EmptySeq DEF ToSet
  <1>3. InFlight(oflight)' = InFlight(oflight) \cup ToSet(obuf)
    <2>1. CASE obuf = <<>>
      BY <1>1, <2>1, EmptySeq DEF InFlight, ToSet
    <2>2. CASE obuf # <<>>
      <3>1. oflight' = oflight \cup {new} /\ new.rows = obuf
        BY <1>1, <2>2
      <3> HIDE DEF new
      <3>2. InFlight(oflight') = InFlight(oflight) \cup ToSet(obuf)
        BY <3>1 DEF InFlight
      <3> QED BY <3>2 DEF InFlight, ToSet
    <2> QED BY <2>1, <2>2
  <1>4. \A f, g \in oflight' : f # g => ToSet(f.rows) \cap ToSet(g.rows) = {}
    <2>1. oflight' \subseteq oflight \cup {new} /\ new.rows = obuf
      BY <1>1
    <2>2. \A f \in oflight : ToSet(f.rows) \cap ToSet(obuf) = {}
      BY DEF OInv, OApart, InFlight
    <2> HIDE DEF new
    <2> QED BY <2>1, <2>2 DEF OInv, OApart
  <1>5. /\ oin' \cup ToSet(obuf)' \cup InFlight(oflight)' = oin \cup ToSet(obuf) \cup InFlight(oflight)
        /\ oin' \cap ToSet(obuf)' = {} /\ oin' \cap InFlight(oflight)' = {}
        /\ ToSet(obuf)' \cap InFlight(oflight)' = {}
    BY <1>1, <1>2, <1>3 DEF OInv, OApart
  <1> QED BY <1>1, <1>2, <1>4, <1>5, OMoveKeeps

LEMMA OPutKeeps ==
  ASSUME OInv, UNCHANGED total, NEW f \in oflight, OPut(f)
  PROVE  OInv'
  <1> DEFINE R == ToSet(f.rows)
  <1>1. /\ UNCHANGED <<ostate, oin, obuf>> /\ oflight' = oflight \ {f}
        /\ \/ /\ ostored' = [e \in DOMAIN ostored |-> ostored[e] + IF e \in R THEN 1 ELSE 0]
              /\ UNCHANGED oerror
           \/ oerror' = TRUE /\ UNCHANGED ostored
    BY DEF OPut, ORecordError
  <1>2. ToSet(obuf)' = ToSet(obuf)
    BY <1>1 DEF ToSet
  <1>3. R \subseteq InFlight(oflight)
    BY DEF InFlight
  <1>4. InFlight(oflight') = InFlight(oflight) \ R
    BY <1>1 DEF InFlight, OInv, OApart
  <1>5. InFlight(oflight)' = InFlight(oflight) \ R
    BY <1>4 DEF InFlight, ToSet
  <1>6. \A g, h \in oflight' : g # h => ToSet(g.rows) \cap ToSet(h.rows) = {}
    BY <1>1 DEF OInv, OApart
  <1> HIDE DEF R
  <1>7. CASE oerror' = TRUE /\ UNCHANGED ostored
    <2>1. /\ oin' \cup ToSet(obuf)' \cup InFlight(oflight)' \subseteq oin \cup ToSet(obuf) \cup InFlight(oflight)
          /\ oin' \cap ToSet(obuf)' = {} /\ oin' \cap InFlight(oflight)' = {}
          /\ ToSet(obuf)' \cap InFlight(oflight)' = {} /\ obuf' \in Seq(Nat)
      BY <1>1, <1>2, <1>5 DEF OInv, OApart, OPlaces
    <2> QED BY <1>1, <1>6, <1>7, <2>1, OMoveKeeps
  <1>8. CASE /\ ostored' = [e \in DOMAIN ostored |-> ostored[e] + IF e \in R THEN 1 ELSE 0]
             /\ UNCHANGED oerror
    <2>1. R \subseteq Event /\ OStored \cap R = {}
      <3>1. R \subseteq 1 .. total
        BY <1>3 DEF OInv, OPlaces
      <3> QED BY <1>3, <3>1, ManagerAssumption DEF OInv, OPlaces, OApart, Event
    <2>2. /\ DOMAIN ostored' = Event
          /\ \A e \in Event : ostored'[e] = IF e \in R THEN 1 ELSE ostored[e]
      BY <1>8, <2>1 DEF OInv, OPlaces, OStored
    <2>3. OStored' = OStored \cup R
      BY <2>1, <2>2 DEF OStored
    <2>4. OPlaces'
      BY <1>1, <1>2, <1>3, <1>5, <2>2, <2>3 DEF OInv, OPlaces
    <2>5. OApart'
      <3>1. \A g : ToSet(g.rows)' = ToSet(g'.rows)
        BY DEF ToSet
      <3> QED BY <1>1, <1>2, <1>3, <1>5, <1>6, <2>3 DEF OInv, OApart
    <2>6. ONoneLost'
      BY <1>1, <1>2, <1>5, <1>8, <2>3 DEF OInv, ONoneLost
    <2> QED BY <2>4, <2>5, <2>6 DEF OInv
  <1> QED BY <1>1, <1>7, <1>8

LEMMA OStepKeeps == ("objects" \in channels => OInv) /\ OStep => ("objects" \in channels => OInv)'
  <1> SUFFICES ASSUME "objects" \in channels, OInv, OStep PROVE OInv'
    BY DEF OStep
  <1>1. CASE total' = total + 1 /\ total < MaxEvents /\ OEnter(total + 1)
    BY <1>1, OEnterKeeps
  <1>2. CASE UNCHANGED total /\ (OClose \/ OLastFlush \/ OClosed \/ OOverdue(now) \/ UNCHANGED ovars)
    <2>1. /\ UNCHANGED <<oin, obuf, oflight, ostored, oerror>>
          /\ ostate' = ostate \/ ostate' # "up"
      BY <1>2 DEF OClose, OLastFlush, OClosed, OOverdue, ovars
    <2>2. /\ ToSet(obuf)' = ToSet(obuf) /\ InFlight(oflight)' = InFlight(oflight)
          /\ OStored' = OStored
      BY <2>1 DEF ToSet, InFlight, OStored
    <2> QED BY <1>2, <2>1, <2>2 DEF OInv, OPlaces, OApart, ONoneLost, ToSet
  <1>3. CASE UNCHANGED total /\ \E e \in oin : OWrite(e, now)
    BY <1>3, OWriteKeeps
  <1>4. CASE UNCHANGED total /\ \E a \in ocall : OFlush(a)
    BY <1>4, OFlushKeeps
  <1>5. CASE UNCHANGED total /\ \E f \in oflight : OPut(f)
    BY <1>5, OPutKeeps
  <1> QED BY <1>1, <1>2, <1>3, <1>4, <1>5 DEF OStep, ONext
-----------------------------------------------------------------------------
(* Security Lake.  As long as no two uploads of a class overlap, what is on   *)
(* its way is the beginning of the batch it was copied from.                  *)

LStored == {e \in Event : lstored[e] # 0}
BeginsWith(batch, sent) ==
    Len(sent) <= Len(batch) /\ \A i \in 1 .. Len(sent) : batch[i] = sent[i]

LTypes ==
    /\ total \in Nat /\ total <= MaxEvents /\ lbuf \in [Class -> Seq(Nat)] /\ lin \subseteq 1 .. total
    /\ DOMAIN lstored = Event /\ \A e \in Event : lstored[e] \in Nat
    /\ \A x \in lcall : x.class \in Class
    /\ \A f \in lflight : f.class \in Class /\ f.rows \in Seq(Nat)

LCopied ==
    /\ \A f \in lflight : BeginsWith(lbuf[f.class], f.rows)
    /\ \A f, g \in lflight : f.class = g.class => f = g

LNoneLost ==
    lstate = "up" => 1 .. total \subseteq LStored \cup lin \cup ldrops \cup Rows(lbuf)

LInv == LTypes /\ (~loverlap => LCopied /\ LNoneLost)

LEMMA LHolds == LInv => LakeKeepsUntilStored(Given)
  <1> SUFFICES ASSUME LInv, ~loverlap, lstate = "up", NEW e \in Given, lstored[e] = 0
               PROVE  e \in lin \cup ldrops \cup Rows(lbuf)
    BY DEF LakeKeepsUntilStored
  <1>1. e \in 1 .. total /\ e \notin LStored
    BY DEF Given, LStored
  <1> QED BY <1>1 DEF LInv, LNoneLost

LEMMA LInitInv == Init => LInv
  <1> SUFFICES ASSUME Init PROVE LInv
    OBVIOUS
  <1>1. <<>> \in Seq(Nat)
    BY EmptySeq
  <1> QED BY <1>1, ManagerAssumption DEF Init, BInit, LInv, LTypes, LCopied, LNoneLost

\* Rows of one class come or go.
LEMMA RowsOfOne ==
  ASSUME NEW b \in [Class -> Seq(Nat)], NEW c \in Class, NEW s, NEW T,
         ToSet(b[c]) \subseteq ToSet(s) \cup T
  PROVE  Rows(b) \subseteq Rows([b EXCEPT ![c] = s]) \cup T
  <1> DEFINE n == [b EXCEPT ![c] = s]
  <1>1. n[c] = s /\ \A d \in Class \ {c} : n[d] = b[d]
    OBVIOUS
  <1> HIDE DEF n
  <1>2. ASSUME NEW d \in Class, NEW x \in ToSet(b[d]) PROVE x \in Rows(n) \cup T
    BY <1>1 DEF Rows
  <1>3. Rows(b) \subseteq Rows(n) \cup T
    BY <1>2 DEF Rows
  <1> QED BY <1>3 DEF n

LEMMA TrimKeeps ==
  ASSUME NEW b \in Seq(Nat), NEW s \in Seq(Nat)
  PROVE  /\ LTrim(b, s) \in Seq(Nat)
         /\ BeginsWith(b, s) => ToSet(b) \subseteq ToSet(LTrim(b, s)) \cup ToSet(s)
  <1>1. /\ Len(b) \in Nat /\ Len(s) \in Nat /\ DOMAIN b = 1 .. Len(b) /\ DOMAIN s = 1 .. Len(s)
        /\ <<>> \in Seq(Nat)
    BY LenProperties, EmptySeq
  <1>2. CASE Len(b) <= Len(s)
    <2>1. ASSUME BeginsWith(b, s) PROVE ToSet(b) \subseteq ToSet(s)
      BY <1>1, <1>2, <2>1 DEF BeginsWith, ToSet
    <2> QED BY <1>1, <1>2, <2>1 DEF LTrim
  <1>3. CASE ~(Len(b) <= Len(s))
    <2> DEFINE t == SubSeq(b, Len(s) + 1, Len(b))
    <2>1. LTrim(b, s) = t
      BY <1>3 DEF LTrim
    <2>2. t \in Seq(Nat) /\ Len(t) = Len(b) - Len(s) /\ DOMAIN t = 1 .. Len(b) - Len(s)
          /\ \A i \in 1 .. Len(b) - Len(s) : t[i] = b[i + Len(s)]
      <3>1. Len(s) + 1 \in 1 .. Len(b) + 1 /\ Len(b) \in Len(s) + 1 - 1 .. Len(b)
            /\ Len(b) - (Len(s) + 1) + 1 = Len(b) - Len(s)
        BY <1>1, <1>3
      <3>2. /\ t \in Seq(Nat) /\ Len(t) = Len(b) - (Len(s) + 1) + 1
            /\ \A i \in 1 .. Len(b) - (Len(s) + 1) + 1 : t[i] = b[Len(s) + 1 + i - 1]
        BY <3>1, SubSeqProperties
      <3>3. \A i \in 1 .. Len(b) - Len(s) : Len(s) + 1 + i - 1 = i + Len(s)
        BY <1>1
      <3> QED BY <3>1, <3>2, <3>3, LenProperties
    <2> HIDE DEF t
    <2>3. ASSUME BeginsWith(b, s), NEW i \in 1 .. Len(b) PROVE b[i] \in ToSet(t) \cup ToSet(s)
      <3>1. CASE i <= Len(s)
        BY <1>1, <2>3, <3>1 DEF BeginsWith, ToSet
      <3>2. CASE ~(i <= Len(s))
        <4>1. i - Len(s) \in DOMAIN t /\ t[i - Len(s)] = b[i]
          BY <1>1, <2>2, <3>2
        <4> QED BY <4>1 DEF ToSet
      <3> QED BY <3>1, <3>2
    <2> QED BY <1>1, <2>1, <2>2, <2>3 DEF ToSet
  <1> QED BY <1>2, <1>3

\* The buffers are as they were, and none is copied.
LEMMA LStillKeeps ==
  ASSUME LInv, total' \in Nat, total' <= MaxEvents, total <= total', lin' \subseteq 1 .. total',
         UNCHANGED <<lbuf, lstored, loverlap, ldrops>>, lflight' \subseteq lflight,
         \A x \in lcall' : x.class \in Class,
         lstate' # "up" \/ (lstate' = lstate /\ lin \subseteq lin' /\ 1 .. total' \subseteq lin' \cup 1 .. total)
  PROVE  LInv'
  <1>1. LStored' = LStored /\ Rows(lbuf)' = Rows(lbuf)
    BY DEF LStored, Rows, ToSet
  <1>2. LTypes'
    BY DEF LInv, LTypes
  <1>3. ~loverlap' => LCopied'
    BY DEF LInv, LCopied, BeginsWith
  <1>4. ~loverlap' => LNoneLost'
    BY <1>1 DEF LInv, LNoneLost
  <1> QED BY <1>2, <1>3, <1>4 DEF LInv

LEMMA LWriteKeeps ==
  ASSUME LInv, UNCHANGED total, NEW e, NEW t, LWrite(e, t)
  PROVE  LInv'
  <1> DEFINE c == ClassOf(e)
  <1>1. /\ e \in lin /\ lin' = lin \ {e} /\ UNCHANGED <<lstate, lflight, lstored, loverlap>>
        /\ \/ ldrops' = ldrops \cup {e} /\ UNCHANGED <<lbuf, lcall>>
           \/ /\ lbuf' = [lbuf EXCEPT ![c] = Append(lbuf[c], e)]
              /\ lcall' \subseteq lcall \cup {[by |-> Writer(e), class |-> c]}
              /\ UNCHANGED ldrops
    BY DEF LWrite
  <1>2. /\ total \in Nat /\ MaxEvents \in Nat /\ e \in 1 .. MaxEvents /\ c \in Class
        /\ lbuf \in [Class -> Seq(Nat)]
    BY <1>1, ManagerAssumption DEF LInv, LTypes
  <1>3. LStored' = LStored
    BY <1>1 DEF LStored
  <1>4. CASE ldrops' = ldrops \cup {e} /\ UNCHANGED <<lbuf, lcall>>
    <2>1. Rows(lbuf)' = Rows(lbuf)
      BY <1>4 DEF Rows, ToSet
    <2>2. LTypes'
      BY <1>1, <1>4 DEF LInv, LTypes
    <2>3. ~loverlap' => LCopied'
      BY <1>1, <1>4 DEF LInv, LCopied, BeginsWith
    <2>4. ~loverlap' => LNoneLost'
      BY <1>1, <1>3, <1>4, <2>1 DEF LInv, LNoneLost
    <2> QED BY <2>2, <2>3, <2>4 DEF LInv
  <1>5. CASE /\ lbuf' = [lbuf EXCEPT ![c] = Append(lbuf[c], e)]
             /\ lcall' \subseteq lcall \cup {[by |-> Writer(e), class |-> c]}
             /\ UNCHANGED ldrops
    <2> DEFINE s == Append(lbuf[c], e)
    <2>1. lbuf[c] \in Seq(Nat) /\ e \in Nat
      BY <1>2
    <2>2. /\ s \in Seq(Nat) /\ Len(s) = Len(lbuf[c]) + 1 /\ Len(lbuf[c]) \in Nat
          /\ \A i \in 1 .. Len(lbuf[c]) : s[i] = lbuf[c][i]
          /\ ToSet(s) = ToSet(lbuf[c]) \cup {e}
      BY <2>1, AppendProperties, AppendToSet, LenProperties
    <2> HIDE DEF s
    <2>3. lbuf' = [lbuf EXCEPT ![c] = s]
      BY <1>5 DEF s
    <2>4. lbuf'[c] = s /\ (\A d \in Class \ {c} : lbuf'[d] = lbuf[d]) /\ lbuf' \in [Class -> Seq(Nat)]
      BY <1>2, <2>2, <2>3
    <2> HIDE DEF c
    <2>5. LTypes'
      <3>1. \A x \in lcall' : x.class \in Class
        BY <1>2, <1>5 DEF LInv, LTypes
      <3> QED BY <1>1, <2>4, <3>1 DEF LInv, LTypes
    <2>6. ASSUME ~loverlap' PROVE LCopied'
      <3>1. ASSUME NEW f \in lflight PROVE BeginsWith(lbuf'[f.class], f.rows)
        <4>1. /\ f.class \in Class /\ BeginsWith(lbuf[f.class], f.rows)
              /\ f.rows \in Seq(Nat) /\ Len(f.rows) \in Nat
          BY <1>1, <2>6, LenProperties DEF LInv, LTypes, LCopied
        <4>2. CASE f.class = c
          BY <2>2, <2>4, <4>1, <4>2 DEF BeginsWith
        <4>3. CASE f.class # c
          BY <2>4, <4>1, <4>3
        <4> QED BY <4>2, <4>3
      <3> QED BY <1>1, <2>6, <3>1 DEF LInv, LCopied, BeginsWith
    <2>7. ASSUME ~loverlap' PROVE LNoneLost'
      <3>1. Rows(lbuf) \subseteq Rows(lbuf')
        <4>1. Rows(lbuf) \subseteq Rows([lbuf EXCEPT ![c] = s]) \cup {}
          BY <1>2, <2>2, RowsOfOne
        <4> QED BY <2>3, <4>1
      <3>2. e \in Rows(lbuf')
        BY <1>2, <2>2, <2>4 DEF Rows
      <3>3. Rows(lbuf)' = Rows(lbuf')
        BY DEF Rows, ToSet
      <3> QED BY <1>1, <1>3, <1>5, <2>7, <3>1, <3>2, <3>3 DEF LInv, LNoneLost
    <2> QED BY <2>5, <2>6, <2>7 DEF LInv
  <1> QED BY <1>1, <1>4, <1>5

LEMMA LFlushKeeps ==
  ASSUME LInv, UNCHANGED total, NEW x \in lcall, NEW t, LFlush(x, t)
  PROVE  LInv'
  <1> DEFINE c == x.class
             new == [by |-> x.by, class |-> c, rows |-> lbuf[c], at |-> t]
  <1>1. /\ lcall' = lcall \ {x} /\ UNCHANGED <<lstate, lin, lbuf, lstored, ldrops>>
        /\ \/ UNCHANGED <<lflight, loverlap>>
           \/ /\ lflight' = lflight \cup {new}
              /\ loverlap' = (loverlap \/ \E f \in lflight : f.class = c)
    BY DEF LFlush
  <1>2. total \in Nat /\ total <= MaxEvents /\ total <= total /\ lin \subseteq 1 .. total
    BY DEF LInv, LTypes
  <1>3. CASE UNCHANGED <<lflight, loverlap>>
    BY <1>1, <1>2, <1>3, LStillKeeps DEF LInv, LTypes
  <1>4. CASE /\ lflight' = lflight \cup {new}
             /\ loverlap' = (loverlap \/ \E f \in lflight : f.class = c)
    <2>1. new.class = c /\ new.rows = lbuf[c] /\ c \in Class
      BY DEF LInv, LTypes
    <2> HIDE DEF new, c
    <2>2. lbuf[c] \in Seq(Nat) /\ Len(lbuf[c]) \in Nat
      BY <2>1, LenProperties DEF LInv, LTypes
    <2>3. LTypes'
      BY <1>1, <1>4, <2>1, <2>2 DEF LInv, LTypes
    <2>4. ASSUME ~loverlap' PROVE LCopied'
      <3>1. ~loverlap /\ \A f \in lflight : f.class # c
        BY <1>4, <2>4
      <3>2. BeginsWith(lbuf[c], lbuf[c])
        BY <2>2 DEF BeginsWith
      <3>3. \A f \in lflight' : BeginsWith(lbuf[f.class], f.rows)
        BY <1>4, <2>1, <3>1, <3>2 DEF LInv, LCopied
      <3>4. \A f, g \in lflight' : f.class = g.class => f = g
        BY <1>4, <2>1, <3>1 DEF LInv, LCopied
      <3> QED BY <1>1, <3>3, <3>4 DEF LCopied, BeginsWith
    <2>5. ASSUME ~loverlap' PROVE LNoneLost'
      <3>1. LStored' = LStored /\ Rows(lbuf)' = Rows(lbuf)
        BY <1>1 DEF LStored, Rows, ToSet
      <3> QED BY <1>1, <1>4, <2>5, <3>1 DEF LInv, LNoneLost
    <2> QED BY <2>3, <2>4, <2>5 DEF LInv
  <1> QED BY <1>1, <1>3, <1>4

LEMMA LPutKeeps ==
  ASSUME LInv, UNCHANGED total, NEW f \in lflight, LPut(f)
  PROVE  LInv'
  <1> DEFINE c == f.class
             s == LTrim(lbuf[c], f.rows)
             R == ToSet(f.rows)
  <1>1. /\ lflight' = lflight \ {f} /\ UNCHANGED <<lstate, lin, lcall, ldrops, loverlap>>
        /\ \/ /\ lstored' = [e \in DOMAIN lstored |-> lstored[e] + IF e \in R THEN 1 ELSE 0]
              /\ lbuf' = [lbuf EXCEPT ![c] = s]
           \/ UNCHANGED <<lbuf, lstored>>
    BY DEF LPut, LFailed
  <1>2. /\ total \in Nat /\ total <= MaxEvents /\ total <= total /\ lin \subseteq 1 .. total
        /\ c \in Class /\ f.rows \in Seq(Nat) /\ lbuf \in [Class -> Seq(Nat)] /\ lbuf[c] \in Seq(Nat)
    BY DEF LInv, LTypes
  <1>3. CASE UNCHANGED <<lbuf, lstored>>
    BY <1>1, <1>2, <1>3, LStillKeeps DEF LInv, LTypes
  <1>4. CASE /\ lstored' = [e \in DOMAIN lstored |-> lstored[e] + IF e \in R THEN 1 ELSE 0]
             /\ lbuf' = [lbuf EXCEPT ![c] = s]
    <2>1. s \in Seq(Nat) /\ (BeginsWith(lbuf[c], f.rows) => ToSet(lbuf[c]) \subseteq ToSet(s) \cup R)
      BY <1>2, TrimKeeps
    <2> HIDE DEF s, R
    <2>2. (\A d \in Class \ {c} : lbuf'[d] = lbuf[d]) /\ lbuf' \in [Class -> Seq(Nat)]
      BY <1>2, <1>4, <2>1
    <2>3. /\ DOMAIN lstored' = Event
          /\ \A e \in Event : lstored'[e] \in Nat /\ (lstored[e] # 0 \/ e \in R => lstored'[e] # 0)
      BY <1>4 DEF LInv, LTypes
    <2>4. LTypes'
      BY <1>1, <2>2, <2>3 DEF LInv, LTypes
    <2> HIDE DEF c
    <2>5. ASSUME ~loverlap' PROVE LCopied'
      <3>1. ASSUME NEW g \in lflight' PROVE BeginsWith(lbuf'[g.class], g.rows)
        <4>1. g \in lflight /\ g # f /\ g.class \in Class /\ g.class # c
          BY <1>1, <2>5 DEF LInv, LTypes, LCopied, c
        <4> QED BY <1>1, <2>2, <2>5, <4>1 DEF LInv, LCopied
      <3> QED BY <1>1, <2>5, <3>1 DEF LInv, LCopied, BeginsWith
    <2>6. ASSUME ~loverlap' PROVE LNoneLost'
      <3>1. BeginsWith(lbuf[c], f.rows)
        BY <1>1, <2>6 DEF LInv, LCopied, c
      <3>2. Rows(lbuf) \subseteq Rows(lbuf') \cup R
        BY <1>2, <1>4, <2>1, <3>1, RowsOfOne
      <3>3. Rows(lbuf)' = Rows(lbuf')
        BY DEF Rows, ToSet
      <3>4. LStored \cup (R \cap Event) \subseteq LStored'
        BY <2>3 DEF LStored
      <3>5. 1 .. total \subseteq Event
        BY <1>2, ManagerAssumption DEF Event
      <3> QED BY <1>1, <2>6, <3>2, <3>3, <3>4, <3>5 DEF LInv, LNoneLost
    <2> QED BY <2>4, <2>5, <2>6 DEF LInv
  <1> QED BY <1>1, <1>3, <1>4

LEMMA LStepKeeps == ("lake" \in channels => LInv) /\ LStep => ("lake" \in channels => LInv)'
  <1> SUFFICES ASSUME "lake" \in channels, LInv, LStep PROVE LInv'
    BY DEF LStep
  <1>1. /\ total \in Nat /\ total <= MaxEvents /\ total <= total /\ lin \subseteq 1 .. total
        /\ MaxEvents \in Nat /\ \A x \in lcall : x.class \in Class
    BY ManagerAssumption DEF LInv, LTypes
  <1>2. CASE total' = total + 1 /\ total < MaxEvents /\ LEnter(total + 1)
    <2>1. /\ total' \in Nat /\ total' <= MaxEvents /\ total <= total'
          /\ 1 .. total' = (1 .. total) \cup {total + 1}
      BY <1>1, <1>2
    <2>2. /\ UNCHANGED <<lstate, lcall, lbuf, lflight, lstored, loverlap, ldrops>>
          /\ lin' = IF lstate = "up" THEN lin \cup {total + 1} ELSE lin
      BY <1>2 DEF LEnter
    <2>3. /\ lin' \subseteq 1 .. total'
          /\ lstate' # "up" \/ (lstate' = lstate /\ lin \subseteq lin' /\ 1 .. total' \subseteq lin' \cup 1 .. total)
      BY <1>1, <2>1, <2>2
    <2> QED BY <1>1, <2>1, <2>2, <2>3, LStillKeeps
  <1>3. CASE UNCHANGED total /\ (LClose \/ LLastFlush \/ LClosed \/ LOverdue(now) \/ UNCHANGED lvars)
    <2>1. /\ UNCHANGED <<lin, lbuf, lflight, lstored, ldrops, loverlap>>
          /\ lstate' = lstate \/ lstate' # "up"
      BY <1>3 DEF LClose, LLastFlush, LClosed, LOverdue, LOverdueUncancelled, lvars
    <2>2. \A x \in lcall' : x.class \in Class
      BY <1>1, <1>3 DEF LClose, LLastFlush, LClosed, LOverdue, LOverdueUncancelled, lvars
    <2> QED BY <1>1, <1>3, <2>1, <2>2, LStillKeeps
  <1>4. CASE UNCHANGED total /\ \E e \in lin : LWrite(e, now)
    BY <1>4, LWriteKeeps
  <1>5. CASE UNCHANGED total /\ \E x \in lcall : LFlush(x, now)
    BY <1>5, LFlushKeeps
  <1>6. CASE UNCHANGED total /\ \E f \in lflight : LPut(f)
    BY <1>6, LPutKeeps
  <1> QED BY <1>2, <1>3, <1>4, <1>5, <1>6 DEF LStep, LNext
-----------------------------------------------------------------------------
(* The recorder.  Until a session's recording has been renamed, all that the  *)
(* process recorded of it is in the file that .partial names.                 *)

Ledger == Seq(Nat) \ {<<>>}

\* The rows of a file without the header; no file has none.
KeptIn(files, i) == IF i = None THEN {} ELSE {files[i][j] : j \in 2 .. Len(files[i])}
Removed == {x.removed : x \in spurged}
OfSession == {e \in Nat : SessionOf(e) \in Session}

\* Stop may still rename the session's file.
Renamable(s) == sstop = Running \/ s \in sstop \/ s \in srename

STypes ==
    /\ total \in Nat /\ sin \subseteq OfSession /\ swritten \subseteq OfSession
    /\ sfile \in Seq(Ledger)
    /\ sopen \in [Session -> 0 .. Len(sfile)] /\ spartial \in [Session -> 0 .. Len(sfile)]
    /\ sfinal \in [Session -> 0 .. Len(sfile)] /\ Removed \subseteq 0 .. Len(sfile)
SMarks ==
    /\ sstop = Running \/ sstop \subseteq Session
    /\ srename # {} => sstop # Running /\ srename \cap sstop = {}

SPartialHas ==
    \A s \in Session : Renamable(s) =>
        \A e \in swritten : SessionOf(e) = s => e \in KeptIn(sfile, spartial[s])
SOpenKnown ==
    \A s \in Session :
        \/ sopen[s] \in {None, spartial[s]}
        \/ ~Renamable(s) /\ sopen[s] \in {sfinal[s]} \cup Removed
SListed ==
    \A e \in swritten : \E i \in {sfinal[SessionOf(e)], spartial[SessionOf(e)]} \cup Removed :
        e \in KeptIn(sfile, i)

SInv == STypes /\ SMarks /\ SPartialHas /\ SOpenKnown /\ SListed

LEMMA KeptIsRead ==
  ASSUME sfile \in Seq(Ledger), NEW i \in 1 .. Len(sfile)
  PROVE  ToSet(ReadSessionFile(i)) = KeptIn(sfile, i)
  <1> DEFINE q == sfile[i]
             t == Tail(q)
  <1>1. q \in Seq(Nat) /\ q # <<>>
    BY ElementOfSeq DEF Ledger
  <1>2. /\ DOMAIN t = 1 .. Len(q) - 1 /\ Len(q) \in Nat \ {0}
        /\ \A j \in 1 .. Len(q) - 1 : t[j] = q[j + 1]
    BY <1>1, HeadTailProperties, EmptySeq, LenProperties
  <1>3. i # None /\ ReadSessionFile(i) = t
    BY LenProperties DEF ReadSessionFile, None
  <1>4. KeptIn(sfile, i) = {q[j] : j \in 2 .. Len(q)}
    BY <1>3 DEF KeptIn
  <1> HIDE DEF q, t
  <1>5. ASSUME NEW j \in 2 .. Len(q) PROVE q[j] \in ToSet(t)
    <2>1. j - 1 \in DOMAIN t /\ t[j - 1] = q[j]
      BY <1>2
    <2> QED BY <2>1 DEF ToSet
  <1>6. ASSUME NEW j \in DOMAIN t PROVE t[j] \in {q[k] : k \in 2 .. Len(q)}
    <2>1. j + 1 \in 2 .. Len(q) /\ t[j] = q[j + 1]
      BY <1>2
    <2> QED BY <2>1
  <1> QED BY <1>3, <1>4, <1>5, <1>6 DEF ToSet

LEMMA SHolds == SInv => RunIsRecorded
  <1> SUFFICES ASSUME SInv, NEW e \in swritten
               PROVE  e \in Recorded(SessionOf(e)) \cup Purged
    BY DEF RunIsRecorded
  <1> DEFINE s == SessionOf(e)
  <1>1. PICK i \in {sfinal[s], spartial[s]} \cup Removed : e \in KeptIn(sfile, i)
    BY DEF SInv, SListed
  <1>2. i # None /\ i \in 1 .. Len(sfile) /\ s \in Session
    <2>1. i # None
      BY <1>1 DEF KeptIn
    <2>2. s \in Session /\ i \in 0 .. Len(sfile)
      BY <1>1 DEF SInv, STypes, OfSession
    <2> QED BY <2>1, <2>2 DEF None
  <1>3. e \in ToSet(ReadSessionFile(i))
    BY <1>1, <1>2, KeptIsRead DEF SInv, STypes
  <1>4. CASE i \in Removed
    BY <1>3, <1>4 DEF Purged, RowsOf, Removed
  <1>5. CASE i \in {sfinal[s], spartial[s]}
    BY <1>2, <1>3, <1>5 DEF Recorded, RowsOf, Listing
  <1> QED BY <1>1, <1>4, <1>5

LEMMA SInitInv == Init => SInv
  <1> SUFFICES ASSUME Init PROVE SInv
    OBVIOUS
  <1>1. <<>> \in Seq(Ledger) /\ Len(<<>>) = 0
    BY EmptySeq
  <1>2. STypes
    BY <1>1 DEF Init, SInit, STypes, None, Removed
  <1> QED BY <1>2 DEF Init, SInit, SInv, SMarks, SPartialHas, SOpenKnown, SListed

\* A row more in a file, and one file more.
WithRow(files, i, r) == [files EXCEPT ![i] = Append(@, r)]

LEMMA RowAppended ==
  ASSUME NEW files \in Seq(Ledger), NEW i \in 1 .. Len(files), NEW r \in Nat
  PROVE  /\ WithRow(files, i, r) \in Seq(Ledger) /\ Len(WithRow(files, i, r)) = Len(files)
         /\ r \in KeptIn(WithRow(files, i, r), i)
         /\ \A k \in 0 .. Len(files) : KeptIn(files, k) \subseteq KeptIn(WithRow(files, i, r), k)
  <1> DEFINE g == WithRow(files, i, r)
  <1>1. /\ files[i] \in Ledger /\ Len(files) \in Nat /\ DOMAIN files = 1 .. Len(files)
        /\ i # None /\ \A k \in 1 .. Len(files) : files[k] \in Ledger
    BY LenProperties, ElementOfSeq DEF None
  <1> DEFINE q == Append(files[i], r)
  <1>2. /\ q \in Seq(Nat) /\ Len(q) = Len(files[i]) + 1 /\ Len(files[i]) \in Nat \ {0}
        /\ q[Len(q)] = r /\ \A j \in 1 .. Len(files[i]) : q[j] = files[i][j]
    BY <1>1, AppendProperties, LenProperties, EmptySeq DEF Ledger
  <1> HIDE DEF q
  <1>3. q \in Ledger
    <2>1. Len(q) # 0 /\ Len(<<>>) = 0
      BY <1>2, EmptySeq
    <2> QED BY <1>2, <2>1 DEF Ledger
  <1>4. /\ g[i] = q /\ \A k \in (1 .. Len(files)) \ {i} : g[k] = files[k]
        /\ g \in [1 .. Len(files) -> Ledger]
    BY <1>1, <1>3 DEF q, WithRow
  <1> HIDE DEF g
  <1>5. g \in Seq(Ledger) /\ Len(g) = Len(files)
    BY <1>1, <1>4, SeqDef, LenProperties
  <1>6. r \in KeptIn(g, i)
    <2>1. Len(q) \in 2 .. Len(q)
      BY <1>2
    <2>2. KeptIn(g, i) = {q[j] : j \in 2 .. Len(q)}
      BY <1>1, <1>4 DEF KeptIn
    <2> QED BY <1>2, <2>1, <2>2
  <1>7. ASSUME NEW k \in 0 .. Len(files) PROVE KeptIn(files, k) \subseteq KeptIn(g, k)
    <2>1. CASE k = i
      <3>1. \A j \in 2 .. Len(files[i]) : j \in 2 .. Len(q) /\ q[j] = files[i][j]
        BY <1>2
      <3> QED BY <1>1, <1>4, <2>1, <3>1 DEF KeptIn
    <2>2. CASE k # i
      BY <1>1, <1>4, <2>2 DEF KeptIn, None
    <2> QED BY <2>1, <2>2
  <1> QED BY <1>5, <1>6, <1>7 DEF g

LEMMA FileAdded ==
  ASSUME NEW files \in Seq(Ledger), NEW g, g = Append(files, <<Header>>)
  PROVE  /\ g \in Seq(Ledger) /\ Len(g) = Len(files) + 1
         /\ \A k \in 0 .. Len(files) : KeptIn(files, k) \subseteq KeptIn(g, k)
  <1> DEFINE n == Len(files)
  <1>1. <<Header>> \in Ledger
    BY EmptySeq DEF Ledger, Header
  <1>2. /\ g \in Seq(Ledger) /\ Len(g) = Len(files) + 1 /\ Len(files) \in Nat
        /\ \A k \in 1 .. Len(files) : g[k] = files[k]
    BY <1>1, AppendProperties, LenProperties
  <1> HIDE DEF n
  <1>3. \A k \in 1 .. n : g[k] = files[k]
    BY <1>2 DEF n
  <1>4. ASSUME NEW k \in 0 .. n PROVE KeptIn(files, k) = KeptIn(g, k)
    <2>1. CASE k = 0
      BY <2>1 DEF KeptIn, None
    <2>2. CASE k # 0
      <3>1. k \in 1 .. n
        BY <1>2, <2>2 DEF n
      <3>2. g[k] = files[k]
        BY <1>3, <3>1
      <3> QED BY <3>2 DEF KeptIn
    <2> QED BY <2>1, <2>2
  <1> QED BY <1>2, <1>4 DEF n

LEMMA FileOpened ==
  ASSUME STypes, NEW s \in Session, NEW g, NEW i,
         g = OpenAppending(s).files, i = OpenAppending(s).inode
  PROVE  /\ g \in Seq(Ledger) /\ i \in 1 .. Len(g) /\ Len(sfile) <= Len(g)
         /\ \A k \in 0 .. Len(sfile) : KeptIn(sfile, k) \subseteq KeptIn(g, k)
         /\ spartial[s] # None => i = spartial[s]
  <1>1. sfile \in Seq(Ledger) /\ Len(sfile) \in Nat /\ spartial[s] \in 0 .. Len(sfile)
    BY LenProperties DEF STypes
  <1>2. CASE spartial[s] # None
    <2>1. i = spartial[s] /\ g = WithRow(sfile, i, Header)
      BY <1>2 DEF OpenAppending, WithRow
    <2>2. i \in 1 .. Len(sfile) /\ Header \in Nat
      BY <1>1, <1>2, <2>1 DEF None, Header
    <2>3. /\ g \in Seq(Ledger) /\ Len(g) = Len(sfile)
          /\ \A k \in 0 .. Len(sfile) : KeptIn(sfile, k) \subseteq KeptIn(g, k)
      BY <1>1, <2>1, <2>2, RowAppended
    <2>4. Len(sfile) <= Len(g) /\ i \in 1 .. Len(g)
      BY <1>1, <2>2, <2>3
    <2> QED BY <2>1, <2>3, <2>4
  <1>3. CASE spartial[s] = None
    <2>1. i = Len(sfile) + 1 /\ g = Append(sfile, <<Header>>)
      BY <1>3 DEF OpenAppending
    <2>2. /\ g \in Seq(Ledger) /\ Len(g) = Len(sfile) + 1
          /\ \A k \in 0 .. Len(sfile) : KeptIn(sfile, k) \subseteq KeptIn(g, k)
      BY <1>1, <2>1, FileAdded
    <2> QED BY <1>1, <1>3, <2>1, <2>2
  <1> QED BY <1>2, <1>3

\* The invariant of the next state, in the terms of this one.
LEMMA SPrimed ==
  /\ SPartialHas' <=>
        \A s \in Session : Renamable(s)' =>
            \A e \in swritten' : SessionOf(e) = s => e \in KeptIn(sfile', spartial'[s])
  /\ SListed' <=>
        \A e \in swritten' :
            \E i \in {sfinal'[SessionOf(e)], spartial'[SessionOf(e)]} \cup Removed' :
                e \in KeptIn(sfile', i)
  BY DEF SPartialHas, SListed, KeptIn

\* Files get more rows, and names move without a row being lost.
LEMMA SNamesKeep ==
  ASSUME SInv, sin' \subseteq OfSession, total' \in Nat, SMarks',
         UNCHANGED <<sfile, swritten>>, Removed \subseteq Removed', Removed' \subseteq 0 .. Len(sfile),
         spartial' \in [Session -> 0 .. Len(sfile)], sfinal' \in [Session -> 0 .. Len(sfile)],
         sopen' \in [Session -> 0 .. Len(sfile)],
         \A s \in Session : Renamable(s)' => Renamable(s) /\ spartial'[s] = spartial[s],
         \A s \in Session : Renamable(s) \/ {sfinal[s], spartial[s]} \subseteq
                                              {None, sfinal'[s], spartial'[s]} \cup Removed',
         \A s \in Session : Renamable(s) =>
             spartial[s] \in {None, sfinal'[s], spartial'[s]} \cup Removed',
         \A s \in Session : sopen'[s] = None \/
             (sopen'[s] = sopen[s] /\ (Renamable(s)' \/ sopen[s] \in {sfinal'[s], spartial'[s]} \cup Removed'))
  PROVE  SInv'
  <1>1. STypes'
    BY DEF SInv, STypes
  <1>2. SPartialHas'
    <2>1. ASSUME NEW s \in Session, Renamable(s)', NEW e \in swritten', SessionOf(e) = s
          PROVE  e \in KeptIn(sfile', spartial'[s])
      BY <2>1 DEF SInv, SPartialHas
    <2> QED BY <2>1, SPrimed
  <1>3. SOpenKnown'
    <2>1. ASSUME NEW s \in Session
          PROVE  \/ sopen'[s] \in {None, spartial'[s]}
                 \/ ~Renamable(s)' /\ sopen'[s] \in {sfinal'[s]} \cup Removed'
      <3>1. CASE Renamable(s)'
        <4>1. Renamable(s) /\ spartial'[s] = spartial[s]
          BY <3>1
        <4> QED BY <4>1 DEF SInv, SOpenKnown
      <3>2. CASE ~Renamable(s)'
        BY <3>2
      <3> QED BY <3>1, <3>2
    <2> QED BY <2>1 DEF SOpenKnown
  <1>4. SListed'
    <2>1. ASSUME NEW e \in swritten
          PROVE  \E i \in {sfinal'[SessionOf(e)], spartial'[SessionOf(e)]} \cup Removed' : e \in KeptIn(sfile, i)
      <3> DEFINE s == SessionOf(e)
      <3>1. s \in Session /\ e \notin KeptIn(sfile, None)
        BY DEF SInv, STypes, OfSession, KeptIn
      <3>2. CASE Renamable(s)
        <4>1. e \in KeptIn(sfile, spartial[s])
          BY <3>1, <3>2 DEF SInv, SPartialHas
        <4>2. spartial[s] \in {None, sfinal'[s], spartial'[s]} \cup Removed'
          BY <3>1, <3>2
        <4> HIDE DEF s
        <4>3. spartial[s] # None
          BY <3>1, <4>1
        <4> QED BY <4>1, <4>2, <4>3 DEF s
      <3>3. CASE ~Renamable(s)
        <4>1. PICK i \in {sfinal[s], spartial[s]} \cup Removed : e \in KeptIn(sfile, i)
          BY DEF SInv, SListed
        <4>2. {sfinal[s], spartial[s]} \subseteq {None, sfinal'[s], spartial'[s]} \cup Removed'
          BY <3>1, <3>3
        <4>3. i # None
          BY <3>1, <4>1
        <4> QED BY <4>1, <4>2, <4>3
      <3> QED BY <3>2, <3>3
    <2> QED BY <2>1, SPrimed
  <1> QED BY <1>1, <1>2, <1>3, <1>4 DEF SInv

LEMMA SStillKeeps ==
  ASSUME SInv, total' \in Nat, sin' \subseteq OfSession,
         UNCHANGED <<sopen, spartial, sfinal, sfile, sstop, srename, swritten, spurged>>
  PROVE  SInv'
  <1>1. STypes' /\ SMarks'
    BY DEF SInv, STypes, SMarks, Removed
  <1>2. SPartialHas' /\ SOpenKnown' /\ SListed'
    BY DEF SInv, SPartialHas, SOpenKnown, SListed, Renamable, Removed, KeptIn
  <1> QED BY <1>1, <1>2 DEF SInv

LEMMA SStopKeeps ==
  ASSUME SInv, UNCHANGED total, SStop
  PROVE  SInv'
  <1>1. /\ sstop = Running /\ sstop' = {s \in Session : sopen[s] # None}
        /\ UNCHANGED <<sin, sopen, spartial, sfinal, sfile, srename, swritten, spurged>>
    BY DEF SStop, spurge
  <1>2. SMarks' /\ \A s \in Session : Renamable(s)
    BY <1>1 DEF SInv, SMarks, Renamable
  <1>3. Removed' = Removed
    BY <1>1 DEF Removed
  <1>4. \A s \in Session : sopen[s] \in {None, spartial[s]}
    BY <1>2 DEF SInv, SOpenKnown
  <1>5. STypes
    BY DEF SInv
  <1> QED BY <1>1, <1>2, <1>3, <1>4, <1>5, SNamesKeep DEF STypes

LEMMA SForgetKeeps ==
  ASSUME SInv, UNCHANGED total, NEW t \in Session, SForget(t)
  PROVE  SInv'
  <1>1. /\ sstop # Running /\ t \in sstop /\ srename = {} /\ sstop' = sstop \ {t}
        /\ sopen' = [sopen EXCEPT ![t] = None] /\ srename' \subseteq {t}
        /\ UNCHANGED <<sin, spartial, sfinal, sfile, swritten, spurged>>
    BY DEF SForget, spurge
  <1>2. sstop' \subseteq Session /\ sstop' # Running /\ srename' \cap sstop' = {}
    BY <1>1, RecorderAssumption DEF SInv, SMarks, Running
  <1>3. SMarks'
    BY <1>2 DEF SMarks, Running
  <1>4. \A s \in Session : Renamable(s)' => Renamable(s)
    BY <1>1, <1>2 DEF Renamable, Running
  <1>5. Removed' = Removed
    BY <1>1 DEF Removed
  <1>6. STypes
    BY DEF SInv
  <1>7. /\ sopen' \in [Session -> 0 .. Len(sfile)]
        /\ \A s \in Session : sopen'[s] = None \/ sopen'[s] = sopen[s]
    BY <1>1, <1>6 DEF STypes, None
  <1>8. \A s \in Session : sopen[s] \in {None, spartial[s]} \/ sopen[s] \in {sfinal[s]} \cup Removed
    BY DEF SInv, SOpenKnown
  <1> QED BY <1>1, <1>3, <1>4, <1>5, <1>6, <1>7, <1>8, SNamesKeep DEF STypes

\* What gets the final name is the file that has all rows of this process.
LEMMA SRenameKeeps ==
  ASSUME SInv, UNCHANGED total, NEW t \in Session, SRename(t)
  PROVE  SInv'
  <1>1. /\ t \in srename /\ srename' = {}
        /\ \/ Finalised(spartial, sfinal, {t})
           \/ UNCHANGED <<spartial, sfinal>>
        /\ UNCHANGED <<sin, sopen, sfile, sstop, swritten, spurged>>
    BY DEF SRename, spurge
  <1>2. sstop # Running /\ t \notin sstop /\ Renamable(t)
    BY <1>1 DEF SInv, SMarks, Renamable
  <1>3. SMarks'
    BY <1>1 DEF SInv, SMarks, Running
  <1>4. \A s \in Session : Renamable(s)' => Renamable(s) /\ s # t
    BY <1>1, <1>2 DEF Renamable, Running
  <1>5. Removed' = Removed
    BY <1>1 DEF Removed
  <1>6. STypes
    BY DEF SInv
  <1>7. \A s \in Session : sopen[s] \in {None, spartial[s]} \/ sopen[s] \in {sfinal[s]} \cup Removed
    BY DEF SInv, SOpenKnown
  <1>8. sopen[t] \in {None, spartial[t]}
    BY <1>2 DEF SInv, SOpenKnown
  <1>9. CASE UNCHANGED <<spartial, sfinal>>
    BY <1>1, <1>3, <1>4, <1>5, <1>6, <1>7, <1>9, SNamesKeep DEF STypes
  <1>10. CASE Finalised(spartial, sfinal, {t})
    <2>1. /\ \A s \in Session \ {t} : sfinal'[s] = sfinal[s] /\ spartial'[s] = spartial[s]
          /\ spartial[t] # None => sfinal'[t] = spartial[t]
          /\ spartial' \in [Session -> 0 .. Len(sfile)] /\ sfinal' \in [Session -> 0 .. Len(sfile)]
      BY <1>6, <1>10 DEF Finalised, STypes, None
    <2>2. \A s \in Session : Renamable(s)' => Renamable(s) /\ spartial'[s] = spartial[s]
      BY <1>4, <2>1
    <2>3. \A s \in Session : Renamable(s) \/ {sfinal[s], spartial[s]} \subseteq
                                               {None, sfinal'[s], spartial'[s]} \cup Removed'
      BY <1>2, <2>1
    <2>4. \A s \in Session : spartial[s] \in {None, sfinal'[s], spartial'[s]} \cup Removed'
      BY <2>1
    <2>5. \A s \in Session : sopen'[s] = None \/
             (sopen'[s] = sopen[s] /\ (Renamable(s)' \/ sopen[s] \in {sfinal'[s], spartial'[s]} \cup Removed'))
      BY <1>1, <1>5, <1>7, <1>8, <2>1
    <2> QED BY <1>1, <1>3, <1>5, <1>6, <2>1, <2>2, <2>3, <2>4, <2>5, SNamesKeep DEF STypes
  <1> QED BY <1>1, <1>9, <1>10

\* A recording is removed and known to be.
LEMMA SRemoveKeeps ==
  ASSUME SInv, UNCHANGED total, NEW t \in Session, SRemove(t)
  PROVE  SInv'
  <1>1. /\ spurged' = spurged \cup {[found |-> sold[t], removed |-> sfinal[t]]}
        /\ sfinal' = [sfinal EXCEPT ![t] = None]
        /\ UNCHANGED <<sin, sopen, spartial, sfile, sstop, srename, swritten>>
    BY DEF SRemove
  <1>2. Removed' = Removed \cup {sfinal[t]}
    <2> DEFINE x == [found |-> sold[t], removed |-> sfinal[t]]
    <2>1. x.removed = sfinal[t] /\ spurged' = spurged \cup {x}
      BY <1>1
    <2> HIDE DEF x
    <2> QED BY <2>1 DEF Removed
  <1>3. STypes
    BY DEF SInv
  <1>4. /\ \A s \in Session \ {t} : sfinal'[s] = sfinal[s]
        /\ sfinal' \in [Session -> 0 .. Len(sfile)] /\ sfinal[t] \in 0 .. Len(sfile)
    BY <1>1, <1>3 DEF STypes, None
  <1>5. Removed \subseteq Removed' /\ Removed' \subseteq 0 .. Len(sfile)
    BY <1>2, <1>3, <1>4 DEF STypes
  <1>6. SMarks' /\ \A s \in Session : Renamable(s)' <=> Renamable(s)
    BY <1>1 DEF SInv, SMarks, Renamable
  <1>7. \A s \in Session : sopen[s] \in {None, spartial[s]} \/ sopen[s] \in {sfinal[s]} \cup Removed
    BY DEF SInv, SOpenKnown
  <1>8. \A s \in Session : sfinal[s] \in {sfinal'[s]} \cup Removed'
    BY <1>2, <1>4
  <1>9. \A s \in Session : sopen[s] \in {None, spartial'[s], sfinal'[s]} \cup Removed'
    BY <1>1, <1>5, <1>7, <1>8
  <1>10. \A s \in Session : {sfinal[s], spartial[s]} \subseteq {None, sfinal'[s], spartial'[s]} \cup Removed'
    BY <1>1, <1>8
  <1>11. \A s \in Session : sopen'[s] = None \/
             (sopen'[s] = sopen[s] /\ (Renamable(s)' \/ sopen[s] \in {sfinal'[s], spartial'[s]} \cup Removed'))
    BY <1>1, <1>9
  <1> QED BY <1>1, <1>3, <1>4, <1>5, <1>6, <1>10, <1>11, SNamesKeep DEF STypes

LEMMA SRestartKeeps ==
  ASSUME SInv, UNCHANGED total, SRestart
  PROVE  SInv'
  <1>1. /\ sin' = {} /\ swritten' = {} /\ sopen' = [s \in Session |-> None]
        /\ sstop' = Running /\ srename' = {} /\ UNCHANGED <<sfile, spurged>>
    BY DEF SRestart, spurge
  <1>2. PICK S \in SUBSET {s \in Session : spartial[s] # None} : Finalised(spartial, sfinal, S)
    BY DEF SRestart
  <1>3. STypes
    BY DEF SInv
  <1>4. spartial' \in [Session -> 0 .. Len(sfile)] /\ sfinal' \in [Session -> 0 .. Len(sfile)]
        /\ sopen' \in [Session -> 0 .. Len(sfile)]
    <2>1. 0 \in 0 .. Len(sfile)
      BY <1>3, LenProperties DEF STypes
    <2> QED BY <1>1, <1>2, <1>3, <2>1 DEF Finalised, STypes, None
  <1>5. STypes'
    BY <1>1, <1>3, <1>4 DEF STypes, Removed
  <1>6. SMarks' /\ SOpenKnown'
    BY <1>1 DEF SMarks, SOpenKnown
  <1>7. SPartialHas' /\ SListed'
    BY <1>1 DEF SPartialHas, SListed
  <1> QED BY <1>5, <1>6, <1>7 DEF SInv

\* A row goes to a file that is known by one of its names, or was purged.
LEMMA SWriteKeeps ==
  ASSUME SInv, UNCHANGED total, NEW e, SWrite(e)
  PROVE  SInv'
  <1> DEFINE s == SessionOf(e)
             i == sopen'[s]
  <1>1. /\ e \in sin /\ sin' = sin \ {e} /\ swritten' = swritten \cup {e}
        /\ UNCHANGED <<sfinal, sstop, srename, spurged>>
        /\ e \in Nat /\ s \in Session /\ e \in OfSession
    BY DEF SWrite, spurge, SInv, STypes, OfSession
  <1>2. STypes /\ Len(sfile) \in Nat /\ sfile \in Seq(Ledger)
    BY LenProperties DEF SInv, STypes
  <1>3. /\ sfile' \in Seq(Ledger) /\ Len(sfile) <= Len(sfile')
        /\ \A k \in 0 .. Len(sfile) : KeptIn(sfile, k) \subseteq KeptIn(sfile', k)
        /\ i \in 1 .. Len(sfile') /\ e \in KeptIn(sfile', i)
        /\ \A t \in Session \ {s} : sopen'[t] = sopen[t] /\ spartial'[t] = spartial[t]
        /\ DOMAIN sopen' = Session /\ DOMAIN spartial' = Session
        /\ sopen' = [sopen EXCEPT ![s] = i]
        /\ \/ sopen[s] # None /\ i = sopen[s] /\ spartial' = spartial
           \/ /\ sopen[s] = None /\ spartial'[s] = i /\ spartial' = [spartial EXCEPT ![s] = i]
              /\ spartial[s] # None => spartial'[s] = spartial[s]
    <2>1. CASE sopen[s] # None
      <3>1. /\ sfile' = WithRow(sfile, sopen[s], e) /\ UNCHANGED <<sopen, spartial>>
        BY <2>1 DEF SWrite, WithRow
      <3>2. sopen[s] \in 1 .. Len(sfile)
        BY <1>1, <1>2, <2>1 DEF STypes, None
      <3>3. /\ sfile' \in Seq(Ledger) /\ Len(sfile') = Len(sfile) /\ e \in KeptIn(sfile', sopen[s])
            /\ \A k \in 0 .. Len(sfile) : KeptIn(sfile, k) \subseteq KeptIn(sfile', k)
        BY <1>1, <1>2, <3>1, <3>2, RowAppended
      <3>4. DOMAIN sopen' = Session /\ DOMAIN spartial' = Session /\ sopen' = [sopen EXCEPT ![s] = i]
        BY <1>1, <1>2, <3>1 DEF STypes
      <3> HIDE DEF s
      <3> QED BY <1>2, <2>1, <3>1, <3>2, <3>3, <3>4
    <2>2. CASE sopen[s] = None
      <3> DEFINE n == OpenAppending(s).inode
                 f == OpenAppending(s).files
      <3>1. /\ sfile' = WithRow(f, n, e)
            /\ sopen' = [sopen EXCEPT ![s] = n] /\ spartial' = [spartial EXCEPT ![s] = n]
        BY <2>2 DEF SWrite, WithRow
      <3> HIDE DEF n, f
      <3>2. /\ f \in Seq(Ledger) /\ n \in 1 .. Len(f) /\ Len(sfile) <= Len(f)
            /\ \A k \in 0 .. Len(sfile) : KeptIn(sfile, k) \subseteq KeptIn(f, k)
            /\ spartial[s] # None => n = spartial[s]
        BY <1>1, <1>2, FileOpened DEF n, f
      <3>3. /\ sfile' \in Seq(Ledger) /\ Len(sfile') = Len(f) /\ e \in KeptIn(sfile', n)
            /\ \A k \in 0 .. Len(f) : KeptIn(f, k) \subseteq KeptIn(sfile', k)
        BY <1>1, <3>1, <3>2, RowAppended
      <3>4. \A k \in 0 .. Len(sfile) : KeptIn(sfile, k) \subseteq KeptIn(sfile', k)
        <4>1. Len(f) \in Nat /\ \A k \in 0 .. Len(sfile) : k \in 0 .. Len(f)
          BY <1>2, <3>2, LenProperties
        <4> QED BY <3>2, <3>3, <4>1
      <3>5. /\ sopen'[s] = n /\ spartial'[s] = n
            /\ DOMAIN sopen' = Session /\ DOMAIN spartial' = Session
            /\ \A t \in Session \ {s} : sopen'[t] = sopen[t] /\ spartial'[t] = spartial[t]
        BY <1>1, <1>2, <3>1 DEF STypes
      <3> HIDE DEF s
      <3> QED BY <2>2, <3>1, <3>2, <3>3, <3>4, <3>5
    <2> QED BY <2>1, <2>2
  <1> HIDE DEF s, i
  <1>4. Removed' = Removed /\ Len(sfile') \in Nat
    BY <1>1, <1>3, LenProperties DEF Removed
  <1>5. STypes'
    <2>1. sopen' \in [Session -> 0 .. Len(sfile')]
      BY <1>1, <1>2, <1>3, <1>4 DEF STypes
    <2>2. spartial' \in [Session -> 0 .. Len(sfile')]
      BY <1>1, <1>2, <1>3, <1>4 DEF STypes
    <2>3. sfinal' \in [Session -> 0 .. Len(sfile')] /\ Removed' \subseteq 0 .. Len(sfile')
      <3>1. 0 .. Len(sfile) \subseteq 0 .. Len(sfile')
        BY <1>2, <1>3, <1>4
      <3> QED BY <1>1, <1>2, <1>4, <3>1 DEF STypes
    <2> QED BY <1>1, <1>2, <1>3, <2>1, <2>2, <2>3 DEF STypes
  <1>6. SMarks' /\ \A t \in Session : Renamable(t)' <=> Renamable(t)
    BY <1>1 DEF SInv, SMarks, Renamable
  <1>7. SPartialHas'
    <2>1. ASSUME NEW t \in Session, Renamable(t)', NEW x \in swritten', SessionOf(x) = t
          PROVE  x \in KeptIn(sfile', spartial'[t])
      <3>1. Renamable(t) /\ spartial[t] \in 0 .. Len(sfile)
        BY <1>2, <1>6, <2>1 DEF STypes
      <3>2. CASE x = e
        <4>1. t = s
          BY <2>1, <3>2 DEF s
        <4>2. i = spartial'[s]
          <5>1. sopen[s] # None => sopen[s] = spartial[s]
            BY <3>1, <4>1 DEF SInv, SOpenKnown
          <5> QED BY <1>3, <5>1
        <4> QED BY <1>3, <3>2, <4>1, <4>2
      <3>3. CASE x # e
        <4>1. x \in KeptIn(sfile, spartial[t])
          BY <1>1, <2>1, <3>1, <3>3 DEF SInv, SPartialHas
        <4>2. spartial[t] # None
          BY <4>1 DEF KeptIn
        <4>3. spartial'[t] = spartial[t]
          BY <1>3, <4>2
        <4> QED BY <1>3, <3>1, <4>1, <4>3
      <3> QED BY <3>2, <3>3
    <2> QED BY <2>1, SPrimed
  <1>8. SOpenKnown'
    <2>1. ASSUME NEW t \in Session
          PROVE  \/ sopen'[t] \in {None, spartial'[t]}
                 \/ ~Renamable(t)' /\ sopen'[t] \in {sfinal'[t]} \cup Removed'
      <3>1. \/ sopen[t] \in {None, spartial[t]}
            \/ ~Renamable(t) /\ sopen[t] \in {sfinal[t]} \cup Removed
        BY DEF SInv, SOpenKnown
      <3>2. CASE t # s
        BY <1>1, <1>3, <1>4, <1>6, <3>1, <3>2
      <3>3. CASE t = s
        <4>1. i = sopen'[s]
          BY DEF i
        <4> QED BY <1>1, <1>3, <1>4, <1>6, <3>1, <3>3, <4>1
      <3> QED BY <3>2, <3>3
    <2> QED BY <2>1 DEF SOpenKnown
  <1>9. SListed'
    <2>1. ASSUME NEW x \in swritten'
          PROVE  \E n \in {sfinal'[SessionOf(x)], spartial'[SessionOf(x)]} \cup Removed' : x \in KeptIn(sfile', n)
      <3>1. CASE x = e
        <4>1. i \in {sfinal[s], spartial'[s]} \cup Removed
          BY <1>1, <1>3 DEF SInv, SOpenKnown
        <4> QED BY <1>1, <1>3, <1>4, <3>1, <4>1 DEF s
      <3>2. CASE x # e
        <4> DEFINE t == SessionOf(x)
        <4>1. PICK n \in {sfinal[t], spartial[t]} \cup Removed : x \in KeptIn(sfile, n)
          BY <1>1, <3>2 DEF SInv, SListed
        <4>2. t \in Session /\ n # None /\ n \in 0 .. Len(sfile)
          <5>1. t \in Session
            BY <1>1, <1>2, <3>2 DEF STypes, OfSession
          <5>2. n # None
            BY <4>1 DEF KeptIn
          <5> QED BY <1>2, <4>1, <5>1, <5>2 DEF STypes
        <4>3. n \in {sfinal'[t], spartial'[t]} \cup Removed'
          BY <1>1, <1>3, <1>4, <4>1, <4>2
        <4> QED BY <1>3, <4>1, <4>2, <4>3
      <3> QED BY <3>1, <3>2
    <2> QED BY <2>1, SPrimed
  <1> QED BY <1>5, <1>6, <1>7, <1>8, <1>9 DEF SInv

LEMMA SStepKeeps == SInv /\ SStep => SInv'
  <1> SUFFICES ASSUME SInv, SStep PROVE SInv'
    OBVIOUS
  <1>1. STypes /\ total \in Nat /\ total + 1 \in Nat /\ sin \subseteq OfSession /\ MaxEvents \in Nat
    BY ManagerAssumption DEF SInv, STypes
  <1>2. CASE total < MaxEvents /\ SEnter(total + 1) /\ total' = total + 1
    <2>1. /\ sin' \subseteq sin \cup {total + 1}
          /\ sin' # sin => SessionOf(total + 1) # NoSession
          /\ UNCHANGED <<sopen, spartial, sfinal, sfile, sstop, srename, swritten, spurged>>
      BY <1>2 DEF SEnter, spurge
    <2>2. total + 1 \in 1 .. MaxEvents
      BY <1>1, <1>2
    <2>3. SessionOf(total + 1) \in Session \cup {NoSession}
      BY <2>2, ManagerAssumption
    <2>4. sin' \subseteq OfSession
      BY <1>1, <2>1, <2>3 DEF OfSession
    <2> QED BY <1>1, <1>2, <2>1, <2>4, SStillKeeps
  <1>3. CASE \/ UNCHANGED svars
             \/ UNCHANGED total /\ (SStopped \/ \E s \in Session : SFindOld(s))
             \/ UNCHANGED total /\ (\E e \in sin : SWriteFails(e))
    <2>1. /\ sin' \subseteq sin
          /\ UNCHANGED <<sopen, spartial, sfinal, sfile, sstop, srename, swritten, spurged>>
      BY <1>3 DEF SStopped, SFindOld, SWriteFails, spurge, svars
    <2>2. total' \in Nat
      BY <1>1 DEF SStep
    <2> QED BY <1>1, <2>1, <2>2, SStillKeeps
  <1>4. CASE UNCHANGED total /\ \E e \in sin : SWrite(e)
    BY <1>4, SWriteKeeps
  <1>5. CASE UNCHANGED total /\ \E s \in Session : SForget(s) \/ SRename(s)
    BY <1>5, SForgetKeeps, SRenameKeeps
  <1>6. CASE UNCHANGED total /\ (SStop \/ SRestart)
    BY <1>6, SStopKeeps, SRestartKeeps
  <1>7. CASE UNCHANGED total /\ \E s \in Session : SRemove(s)
    BY <1>7, SRemoveKeeps
  <1> QED BY <1>2, <1>3, <1>4, <1>5, <1>6, <1>7 DEF SStep, SNext

KInv ==
    /\ "objects" \in channels => OInv
    /\ "lake" \in channels => LInv
    /\ SInv

LEMMA KInitInv == Init => KInv
  BY OInitInv, LInitInv, SInitInv DEF KInv

LEMMA KStepKeeps == KInv /\ [Next]_vars => KInv'
  <1> SUFFICES ASSUME KInv, [Next]_vars PROVE KInv'
    OBVIOUS
  <1>1. (("objects" \in channels) => OInv)'
    BY StepOfEach, OStepKeeps DEF KInv
  <1>2. (("lake" \in channels) => LInv)'
    BY StepOfEach, LStepKeeps DEF KInv
  <1>3. SInv'
    BY StepOfEach, SStepKeeps DEF KInv
  <1> QED BY <1>1, <1>2, <1>3 DEF KInv

LEMMA KHolds == KInv => KeptIsThere
  BY OHolds, LHolds, SHolds DEF KInv, KeptIsThere, ObjectsHold, LakeKeeps

\* What a channel counts as kept is where it says.  Object storage has an event once at
\* most, and has it, or still holds it, unless a failure was reported; Security Lake
\* loses no row that it took as long as no two uploads of a class overlap, whatever
\* uploads fail; what the recorder counted is in a file of its session, also when a
\* record meets the close, a rename, a restart or a purge.
THEOREM WhatIsKeptStays == Spec => []KeptIsThere
  BY KInitInv, KStepKeeps, KHolds, PTL DEF Spec
-----------------------------------------------------------------------------
(* The listings of the decisions table.  Each takes the newest rows of those  *)
(* it looks at.                                                               *)

LEMMA RowsAreTyped ==
  ASSUME ReadersTypeOK
  PROVE  /\ Len(rows) \in Nat /\ DOMAIN rows = 1 .. Len(rows) /\ clock \in Nat /\ cursor \in Nat
         /\ \A i \in 1 .. Len(rows) : rows[i].req \in Request /\ At(i) \in Nat /\ At(i) \in 1 .. clock
  <1> DEFINE Row == [req : Request, at : Nat]
  <1>1. rows \in Seq(Row) /\ clock \in Nat /\ cursor \in Nat
    BY DEF ReadersTypeOK
  <1>2. Len(rows) \in Nat /\ DOMAIN rows = 1 .. Len(rows)
    BY <1>1, LenProperties
  <1>3. ASSUME NEW i \in 1 .. Len(rows)
        PROVE  rows[i].req \in Request /\ At(i) \in Nat /\ At(i) \in 1 .. clock
    <2>1. rows[i] \in Row
      <3> HIDE DEF Row
      <3> QED BY <1>1, <1>3, ElementOfSeq
    <2>2. rows[i].at \in 1 .. clock
      <3>1. rows[i] \in ToSet(rows)
        BY <1>2 DEF ToSet
      <3> QED BY <3>1 DEF ReadersTypeOK
    <2> QED BY <2>1, <2>2 DEF At
  <1> QED BY <1>1, <1>2, <1>3

LEMMA RecentIsNewest ==
  ASSUME ReadersTypeOK, NEW n \in Nat
  PROVE  /\ RecentDecisions(n) \subseteq DOMAIN rows /\ RecentDecisions(n) \subseteq RecentDecisions(MaxRows)
         /\ \A i \in RecentDecisions(n), j \in DOMAIN rows : i < j => j \in RecentDecisions(n)
         /\ MaxRows <= n => RecentDecisions(n) = RecentDecisions(MaxRows)
         /\ n # 0 => \A i \in RecentDecisions(n) : Len(rows) < i + n
  <1>1. Len(rows) \in Nat /\ DOMAIN rows = 1 .. Len(rows) /\ MaxRows \in Nat \ {0} /\ DefaultRows \in Nat
    BY LenProperties, ReadersAssumption DEF ReadersTypeOK
  <1> QED BY <1>1 DEF RecentDecisions

LEMMA FirstOfNewest ==
  ASSUME NEW S, NEW U \in SUBSET S, NEW n, \A i \in U, j \in S : i < j => j \in U,
         \A i \in S, j \in S : i < j \/ j < i \/ i = j
  PROVE  FirstOf(U, n) = FirstOf(S, n) \cap U /\ Begins(FirstOf(U, n), FirstOf(S, n))
  <1>1. \A i \in U : {j \in U : i < j} = {j \in S : i < j}
    OBVIOUS
  <1>2. FirstOf(U, n) = FirstOf(S, n) \cap U
    BY <1>1 DEF FirstOf
  <1>3. FirstOf(S, n) \subseteq S
    BY DEF FirstOf
  <1> QED BY <1>2, <1>3 DEF Begins

LEMMA FewAreAll ==
  ASSUME NEW m \in Nat, NEW U \in SUBSET (1 .. m), NEW n \in Nat, \A i \in U : m < i + n
  PROVE  FirstOf(U, n) = U
  <1> SUFFICES ASSUME NEW i \in U PROVE Cardinality({j \in U : i < j}) < n
    BY DEF FirstOf
  <1>0. m \in Nat /\ n \in Nat /\ i \in 1 .. m /\ m < i + n /\ \A j \in U : j \in 1 .. m
    OBVIOUS
  <1>1. {j \in U : i < j} \subseteq i + 1 .. m
    <2>1. ASSUME NEW j \in U, i < j PROVE j \in i + 1 .. m
      <3>1. j \in 1 .. m
        BY <1>0
      <3> QED BY <1>0, <2>1, <3>1
    <2> QED BY <2>1
  <1>2. IsFiniteSet(i + 1 .. m) /\ Cardinality(i + 1 .. m) = IF i + 1 > m THEN 0 ELSE m - (i + 1) + 1
    BY <1>0, FS_Interval
  <1>3. Cardinality(i + 1 .. m) < n
    BY <1>0, <1>2
  <1>4. Cardinality({j \in U : i < j}) <= Cardinality(i + 1 .. m) /\ Cardinality({j \in U : i < j}) \in Nat
    BY <1>1, <1>2, FS_Subset, FS_CardinalityType
  <1> QED BY <1>0, <1>2, <1>3, <1>4

LEMMA FirstOfBegins ==
  ASSUME NEW m \in Nat, NEW S \in SUBSET (1 .. m), NEW n \in Nat
  PROVE  Begins(FirstOf(S, n), S)
  <1> SUFFICES ASSUME NEW i \in FirstOf(S, n), NEW j \in S \ FirstOf(S, n), i < j
               PROVE  FALSE
    BY DEF Begins, FirstOf
  <1> DEFINE A == {k \in S : i < k}
             B == {k \in S : j < k}
  <1>0. i \in S /\ n \in Nat /\ m \in Nat /\ \A k \in S : k \in 1 .. m
    BY DEF FirstOf
  <1>1. B \subseteq A /\ A \subseteq 1 .. m
    <2>1. ASSUME NEW k \in S, j < k PROVE i < k
      <3>1. i \in 1 .. m /\ j \in 1 .. m /\ k \in 1 .. m
        BY <1>0
      <3> QED BY <1>0, <2>1, <3>1
    <2> QED BY <1>0, <2>1
  <1>2. Cardinality(A) < n /\ ~(Cardinality(B) < n)
    BY DEF FirstOf
  <1> HIDE DEF A, B
  <1>3. IsFiniteSet(A)
    <2>1. IsFiniteSet(1 .. m)
      BY <1>0, FS_Interval
    <2> QED BY <1>1, <2>1, FS_Subset
  <1>4. Cardinality(B) <= Cardinality(A) /\ Cardinality(A) \in Nat /\ Cardinality(B) \in Nat
    BY <1>1, <1>3, FS_Subset, FS_CardinalityType
  <1> QED BY <1>0, <1>2, <1>4

\* A filter for the denies of a session finds what `denies recent` looks for.
LEMMA DeniesAreDenies ==
  ASSUME ReadersTypeOK, NEW i \in DOMAIN rows, NEW session
  PROVE  MatchAll(i, DeniesOf(session)) <=> IsDeny(i, session)
  <1>1. rows[i].req \in Request
    BY RowsAreTyped
  <1>2. Kind(i).verdict \in {"allow", "deny", "bypass"}
    BY <1>1, ReadersAssumption DEF Kind
  <1>3. (Upper[Kind(i).verdict] = "DENY") <=> (Kind(i).verdict = "deny")
    BY <1>2 DEF Upper
  <1>4. FromDecision(i)["verdict"] = Upper[Kind(i).verdict] /\ FromDecision(i)["session"] = Kind(i).session
    BY DEF FromDecision
  <1> DEFINE f == [op |-> "=", field |-> "verdict", value |-> "DENY"]
             g == [op |-> "=", field |-> "session", value |-> session]
  <1>5. Match(FromDecision(i), f) <=> FromDecision(i)["verdict"] = "DENY"
    BY DEF Match
  <1>6. Match(FromDecision(i), g) <=> FromDecision(i)["session"] = session
    BY DEF Match
  <1>7. MatchAll(i, DeniesOf(session)) <=>
          Match(FromDecision(i), f) /\ (session # "" => Match(FromDecision(i), g))
    BY DEF MatchAll, DeniesOf
  <1> HIDE DEF f, g
  <1> QED BY <1>3, <1>4, <1>5, <1>6, <1>7 DEF IsDeny

LEMMA ListingsAreOne == ReadersTypeOK => ListingsAgree
  <1> SUFFICES ASSUME ReadersTypeOK, NEW limit \in Limits, NEW since \in Sinces
               PROVE  /\ \A fs \in Filters :
                           /\ Begins(AuditTail(fs, limit), AuditEvents(fs, 0, limit))
                           /\ Begins(AuditEvents(fs, since, limit), Evidence(fs, since))
                      /\ \A session \in {KindOf[q].session : q \in Request} :
                           LET denies == RecentDenies(session, since, limit)
                               events == AuditEvents(DeniesOf(session), since, limit)
                           IN  /\ Begins(denies, events)
                               /\ Len(rows) <= DenyFactor * limit => denies = events
    BY DEF ListingsAgree
  <1> DEFINE m == Len(rows)
  <1>1. /\ m \in Nat /\ DOMAIN rows = 1 .. m /\ limit \in Nat \ {0} /\ MaxRows \in Nat \ {0}
        /\ EvidenceRows \in Nat /\ MaxRows <= EvidenceRows /\ DenyFactor \in Nat /\ DefaultRows \in Nat
    BY LenProperties, ReadersAssumption DEF ReadersTypeOK
  <1>2. \A i \in 1 .. m : At(i) \in Nat /\ At(i) >= 0
    BY RowsAreTyped
  <1>3. RecentDecisions(MaxRows) \subseteq 1 .. m
    BY <1>1, RecentIsNewest
  <1> HIDE DEF m
  <1>4. ASSUME NEW fs \in Filters
        PROVE  Begins(AuditTail(fs, limit), AuditEvents(fs, 0, limit))
    <2> DEFINE S == Chosen(From(RecentDecisions(MaxRows), 0), fs)
               U == Chosen(RecentDecisions(limit), fs)
    <2>1. /\ RecentDecisions(limit) \subseteq RecentDecisions(MaxRows)
          /\ \A i \in RecentDecisions(limit), j \in 1 .. m : i < j => j \in RecentDecisions(limit)
          /\ \A i \in RecentDecisions(limit) : m < i + limit
      BY <1>1, RecentIsNewest DEF m
    <2>2. U \subseteq S /\ S \subseteq 1 .. m /\ \A i \in U, j \in S : i < j => j \in U
      BY <1>2, <1>3, <2>1 DEF Chosen, From
    <2>3. \A i \in U : m < i + limit
      BY <2>1 DEF Chosen
    <2>4. AuditTail(fs, limit) = U /\ AuditEvents(fs, 0, limit) = FirstOf(S, limit)
      BY DEF AuditTail, AuditEvents
    <2> HIDE DEF S, U
    <2>5. FirstOf(U, limit) = U
      BY <1>1, <2>2, <2>3, FewAreAll
    <2>6. \A i \in S, j \in S : i < j \/ j < i \/ i = j
      BY <1>1, <2>2
    <2>7. Begins(FirstOf(U, limit), FirstOf(S, limit))
      BY <2>2, <2>6, FirstOfNewest
    <2> QED BY <2>4, <2>5, <2>7
  <1>5. ASSUME NEW fs \in Filters
        PROVE  Begins(AuditEvents(fs, since, limit), Evidence(fs, since))
    <2> DEFINE S == Chosen(From(RecentDecisions(MaxRows), since), fs)
    <2>1. RecentDecisions(EvidenceRows) = RecentDecisions(MaxRows)
      BY <1>1, RecentIsNewest
    <2>2. Evidence(fs, since) = S /\ AuditEvents(fs, since, limit) = FirstOf(S, limit) /\ S \subseteq 1 .. m
      BY <1>3, <2>1 DEF Evidence, AuditEvents, From, Chosen
    <2> HIDE DEF S
    <2> QED BY <1>1, <2>2, FirstOfBegins
  <1>6. ASSUME NEW session
        PROVE  /\ Begins(RecentDenies(session, since, limit), AuditEvents(DeniesOf(session), since, limit))
               /\ m <= DenyFactor * limit =>
                    RecentDenies(session, since, limit) = AuditEvents(DeniesOf(session), since, limit)
    <2> DEFINE k == DenyFactor * limit
               S == Chosen(From(RecentDecisions(MaxRows), since), DeniesOf(session))
               U == {i \in From(RecentDecisions(k), since) : IsDeny(i, session)}
    <2>1. k \in Nat
      BY <1>1
    <2>2. /\ RecentDenies(session, since, limit) = FirstOf(U, limit)
          /\ AuditEvents(DeniesOf(session), since, limit) = FirstOf(S, limit)
      BY DEF RecentDenies, AuditEvents
    <2> HIDE DEF k
    <2>3. /\ RecentDecisions(k) \subseteq RecentDecisions(MaxRows)
          /\ \A i \in RecentDecisions(k), j \in 1 .. m : i < j => j \in RecentDecisions(k)
      BY <1>1, <2>1, RecentIsNewest
    <2>4. \A i \in 1 .. m : MatchAll(i, DeniesOf(session)) <=> IsDeny(i, session)
      BY <1>1, DeniesAreDenies
    <2>5. S = {i \in From(RecentDecisions(MaxRows), since) : IsDeny(i, session)} /\ S \subseteq 1 .. m
      BY <1>3, <2>4 DEF From, Chosen
    <2>6. U \subseteq S /\ \A i \in U, j \in S : i < j => j \in U
      BY <1>3, <2>3, <2>5 DEF From
    <2>7. m <= k => S = U
      <3>1. ASSUME m <= k, NEW i \in RecentDecisions(MaxRows) PROVE i \in RecentDecisions(k)
        <4>1. i \in 1 .. m /\ m < i + MaxRows
          BY <1>1, <1>3 DEF RecentDecisions, m
        <4>2. k # 0 /\ m < i + k
          BY <1>1, <2>1, <3>1, <4>1
        <4> QED BY <1>1, <4>1, <4>2 DEF RecentDecisions, m
      <3> QED BY <2>5, <2>6, <3>1 DEF From
    <2> HIDE DEF S, U
    <2>8. \A i \in S, j \in S : i < j \/ j < i \/ i = j
      BY <1>1, <2>5
    <2>9. Begins(FirstOf(U, limit), FirstOf(S, limit))
      BY <2>6, <2>8, FirstOfNewest
    <2> QED BY <2>2, <2>7, <2>9 DEF k
  <1> QED BY <1>4, <1>5, <1>6 DEF m
-----------------------------------------------------------------------------
(* Those who follow the table.                                                *)

Read(i) == \E m \in reads : i <= m

\* What a follower knows of the rows, it knows from rows it has read.
Remembers ==
    /\ cursor # 0 => \E j \in DOMAIN rows : At(j) = cursor /\ Read(j)
    /\ reader = "tail" => \A p \in seen : \E j \in DOMAIN rows : Fingerprint(j) = p /\ Read(j)
    /\ reader = "page" => \A p \in seen : \E j \in Shown : EventId(j) = p

\* A row that was shown will not be taken for a new one.
KnowsShown ==
    /\ reader = "tail" => \A i \in Shown :
          At(i) < cursor \/ Fingerprint(i) \in seen \/ i + FollowBatch <= Len(rows)
    /\ reader = "page" => \A i \in Shown : At(i) <= cursor

\* A response has the rows there were when the page asked, but for those of a second
\* it had seen and those too far behind.
AnswerIsGood ==
    at = "waiting" =>
        /\ reader = "page" /\ answer.rows \in 0 .. Len(rows) /\ answer.ids \subseteq 1 .. answer.rows
        /\ \A i \in answer.ids : cursor # 0 => cursor < At(i)
        /\ \A i \in 1 .. answer.rows :
              i \in answer.ids \/ i + PageLimit <= answer.rows \/ (cursor # 0 /\ At(i) <= cursor)

BeginsEmpty == at = "off" /\ reader = "tail" => reads = {} /\ shown = <<>>

FInv ==
    /\ ReadersTypeOK /\ Remembers /\ KnowsShown /\ AnswerIsGood /\ BeginsEmpty
    /\ NoneIsSkipped /\ ShowsOnce /\ shown \in Seq(SUBSET Nat)

LEMMA FInitInv == ReadersInit => FInv
  <1> SUFFICES ASSUME ReadersInit PROVE FInv
    OBVIOUS
  <1> USE DEF ReadersInit
  <1>1. <<>> \in Seq([req : Request, at : Nat]) /\ DOMAIN <<>> = {} /\ ToSet(<<>>) = {} /\ Len(<<>>) = 0
        /\ <<>> \in Seq(SUBSET Nat)
    BY EmptySeq DEF ToSet
  <1>2. Shown = {}
    BY <1>1 DEF Shown
  <1>3. ReadersTypeOK
    BY <1>1, <1>2 DEF ReadersTypeOK
  <1>4. Remembers /\ KnowsShown /\ AnswerIsGood /\ BeginsEmpty
    BY <1>2 DEF Remembers, KnowsShown, AnswerIsGood, BeginsEmpty
  <1>5. NoneIsSkipped /\ ShowsOnce
    BY <1>1 DEF NoneIsSkipped, ShowsOnce
  <1> QED BY <1>1, <1>3, <1>4, <1>5 DEF FInv

\* What is known of a row stays true of it.
LEMMA RowStays ==
  ASSUME NEW i, rows'[i] = rows[i]
  PROVE  /\ At(i)' = At(i) /\ Fingerprint(i)' = Fingerprint(i) /\ EventId(i)' = EventId(i)
         /\ UNCHANGED want => MatchAll(i, want)' = MatchAll(i, want)
         /\ \A fs : MatchAll(i, fs)' = MatchAll(i, fs)
  BY DEF At, Fingerprint, EventId, MatchAll, FromDecision, Kind

\* A row more, of one that was being decided.
LEMMA RowsGrow ==
  ASSUME NEW R, NEW s \in Seq(R), NEW d \in R
  PROVE  /\ Append(s, d) \in Seq(R) /\ Len(Append(s, d)) \in Nat /\ Len(s) \in Nat
         /\ Len(Append(s, d)) = Len(s) + 1
         /\ \A i \in 1 .. Len(s) : Append(s, d)[i] = s[i]
  BY AppendProperties, LenProperties

\* What is known of the rows stays known when there are more.
LEMMA MoreRows ==
  ASSUME FInv, ReadersTypeOK', UNCHANGED <<reader, at, want, cursor, seen, answer, shown, reads, overrun>>,
         Len(rows) <= Len(rows'), \A i \in 1 .. Len(rows) : rows'[i] = rows[i]
  PROVE  FInv'
  <1> DEFINE n == Len(rows)
             m == Len(rows')
  <1>1. n \in Nat /\ m \in Nat /\ n <= m /\ DOMAIN rows = 1 .. n /\ DOMAIN rows' = 1 .. m
    BY LenProperties DEF FInv, ReadersTypeOK
  <1>2. 1 .. n \subseteq 1 .. m
    BY <1>1
  <1>3. Shown' = Shown
    BY DEF Shown, ToSet
  <1>4. Shown \subseteq 1 .. n /\ reads \subseteq 0 .. n
    BY <1>1 DEF FInv, ReadersTypeOK
  <1>5. \A i \in 1 .. n :
          /\ At(i)' = At(i) /\ Fingerprint(i)' = Fingerprint(i) /\ EventId(i)' = EventId(i)
          /\ MatchAll(i, want)' = MatchAll(i, want)
    BY RowStays
  <1>6. \A i : Read(i)' <=> Read(i)
    BY DEF Read
  <1>7. Remembers'
    <2>1. cursor # 0 => \E j \in 1 .. n : At(j)' = cursor /\ Read(j)'
      BY <1>1, <1>5, <1>6 DEF FInv, Remembers
    <2>2. reader = "tail" => \A p \in seen : \E j \in 1 .. n : Fingerprint(j)' = p /\ Read(j)'
      BY <1>1, <1>5, <1>6 DEF FInv, Remembers
    <2>3. reader = "page" => \A p \in seen : \E j \in Shown : EventId(j)' = p
      BY <1>4, <1>5 DEF FInv, Remembers
    <2> HIDE DEF n, m
    <2> QED BY <1>1, <1>2, <1>3, <2>1, <2>2, <2>3 DEF Remembers
  <1>8. KnowsShown'
    <2>1. \A i \in 1 .. n : i + FollowBatch <= n => i + FollowBatch <= m
      BY <1>1, ReadersAssumption
    <2>2. reader = "tail" => \A i \in Shown :
             At(i)' < cursor \/ Fingerprint(i)' \in seen \/ i + FollowBatch <= m
      BY <1>4, <1>5, <2>1 DEF FInv, KnowsShown
    <2>3. reader = "page" => \A i \in Shown : At(i)' <= cursor
      BY <1>4, <1>5 DEF FInv, KnowsShown
    <2> QED BY <1>3, <2>2, <2>3 DEF KnowsShown
  <1>9. AnswerIsGood'
    <2> SUFFICES ASSUME at = "waiting" PROVE AnswerIsGood'
      BY DEF AnswerIsGood
    <2> DEFINE k == answer.rows
               ids == answer.ids
    <2>1. /\ reader = "page" /\ k \in 0 .. n /\ ids \subseteq 1 .. k
          /\ \A i \in ids : cursor # 0 => cursor < At(i)
          /\ \A i \in 1 .. k : i \in ids \/ i + PageLimit <= k \/ (cursor # 0 /\ At(i) <= cursor)
      BY DEF FInv, AnswerIsGood
    <2>2. answer' = answer /\ at' = at /\ reader' = reader /\ cursor' = cursor
      OBVIOUS
    <2> HIDE DEF n, m, k
    <2>3. k \in 0 .. m /\ \A i \in 1 .. k : i \in 1 .. n
      BY <1>1, <2>1
    <2>4. \A i \in 1 .. k : At(i)' = At(i)
      BY <1>5, <2>3
    <2>5. \A i \in ids : At(i)' = At(i)
      BY <2>1, <2>4
    <2> QED BY <2>1, <2>2, <2>3, <2>4, <2>5 DEF AnswerIsGood, m, k
  <1>10. BeginsEmpty' /\ ShowsOnce' /\ (shown \in Seq(SUBSET Nat))'
    BY DEF FInv, BeginsEmpty, ShowsOnce
  <1>11. NoneIsSkipped'
    <2>1. ASSUME NEW i \in DOMAIN rows', MatchAll(i, want)', Read(i)
          PROVE  i \in Shown \/ Excused(i)'
      <3>1. i \in 1 .. n
        BY <1>1, <1>4, <2>1 DEF Read
      <3>2. i \in Shown \/ Excused(i)
        BY <1>1, <1>5, <2>1, <3>1 DEF FInv, NoneIsSkipped, Read
      <3>3. \A j \in ReadBefore(i) : j \in 1 .. n /\ j \in ReadBefore(i)'
        BY <1>1, <1>2 DEF ReadBefore
      <3>4. At(i)' = At(i) /\ Fingerprint(i)' = Fingerprint(i) /\ EventId(i)' = EventId(i)
        BY <1>5, <3>1
      <3>5. \A j \in ReadBefore(i) : At(j)' = At(j) /\ Fingerprint(j)' = Fingerprint(j)
        BY <1>5, <3>3
      <3>6. \A j \in Shown : EventId(j)' = EventId(j)
        BY <1>4, <1>5
      <3>7. overrun' = overrun /\ reader' = reader
        OBVIOUS
      <3>8. Excused(i) => Excused(i)'
        BY <1>3, <3>3, <3>4, <3>5, <3>6, <3>7 DEF Excused
      <3> QED BY <3>2, <3>8
    <2> QED BY <1>3, <1>6, <2>1 DEF NoneIsSkipped, Read
  <1> QED BY <1>7, <1>8, <1>9, <1>10, <1>11 DEF FInv

\* The clock goes on, a decision begins.
LEMMA ClockKeeps ==
  ASSUME FInv, clock' \in Nat, clock <= clock', UNCHANGED <<rows, state, history>>,
         deciding' \subseteq [req : Request, at : Nat], \A d \in deciding' : d.at \in 1 .. clock'
  PROVE  FInv'
  <1> USE DEF state, history
  <1>1. Shown' = Shown /\ ToSet(rows)' = ToSet(rows)
    BY DEF Shown, ToSet
  <1>2. clock \in Nat /\ \A d \in deciding \cup ToSet(rows) : d.at \in 1 .. clock
    BY DEF FInv, ReadersTypeOK
  <1>3. \A d \in deciding' \cup ToSet(rows) : d.at \in 1 .. clock'
    BY <1>2
  <1>4. cursor \in 0 .. clock => cursor \in 0 .. clock'
    BY <1>2
  <1>5. rows' = rows /\ reads' = reads /\ cursor' = cursor
    OBVIOUS
  <1>6. ReadersTypeOK'
    BY <1>1, <1>3, <1>4, <1>5 DEF FInv, ReadersTypeOK
  <1>7. Len(rows) <= Len(rows') /\ \A i \in 1 .. Len(rows) : rows'[i] = rows[i]
    BY <1>5, LenProperties DEF FInv, ReadersTypeOK
  <1> QED BY <1>6, <1>7, MoreRows

LEMMA RecordKeeps ==
  ASSUME FInv, NEW d \in deciding, RecordDecision(d)
  PROVE  FInv'
  <1> USE DEF state, history, RecordDecision
  <1> DEFINE Row == [req : Request, at : Nat]
  <1>1. rows \in Seq(Row) /\ d \in Row /\ Shown' = Shown /\ ToSet(rows)' = ToSet(rows')
    BY DEF FInv, ReadersTypeOK, Shown, ToSet
  <1>2. rows' = Append(rows, d) /\ clock' = clock
    OBVIOUS
  <1> HIDE DEF Row
  <1>3. /\ rows' \in Seq(Row) /\ Len(rows) \in Nat /\ Len(rows') = Len(rows) + 1
        /\ \A i \in 1 .. Len(rows) : rows'[i] = rows[i]
    BY <1>1, <1>2, RowsGrow
  <1>4. ToSet(rows') = ToSet(rows) \cup {d}
    BY <1>1, <1>2, AppendToSet
  <1>5. reads' \subseteq 0 .. Len(rows') /\ Shown \subseteq DOMAIN rows'
    <2>1. reads \subseteq 0 .. Len(rows) /\ Shown \subseteq 1 .. Len(rows) /\ reads' = reads
      BY <1>1, <1>3, LenProperties DEF FInv, ReadersTypeOK
    <2>2. DOMAIN rows' = 1 .. Len(rows) + 1
      BY <1>3, LenProperties
    <2>3. 0 .. Len(rows) \subseteq 0 .. Len(rows) + 1 /\ 1 .. Len(rows) \subseteq 1 .. Len(rows) + 1
      BY <1>3
    <2> QED BY <1>3, <2>1, <2>2, <2>3
  <1>6. ReadersTypeOK'
    BY <1>1, <1>3, <1>4, <1>5 DEF FInv, ReadersTypeOK, Row
  <1>7. Len(rows) <= Len(rows')
    BY <1>3
  <1> QED BY <1>3, <1>6, <1>7, MoreRows

LEMMA LargestExists ==
  ASSUME NEW c \in Nat, NEW S, S \subseteq 0 .. c, S # {}
  PROVE  \E n \in S : \A m \in S : n >= m
  <1> DEFINE T == {c - x : x \in S}
  <1>1. T \subseteq Nat /\ T # {}
    <2>1. \A x \in S : c - x \in Nat
      OBVIOUS
    <2> QED BY <2>1
  <1>2. PICK t \in T : \A u \in T : t <= u
    <2> HIDE DEF T
    <2> QED BY <1>1, SmallestExists
  <1>3. PICK n \in S : t = c - n
    BY <1>2
  <1>4. ASSUME NEW m \in S PROVE n >= m
    <2>1. c - n <= c - m
      BY <1>2, <1>3
    <2>2. n \in 0 .. c /\ m \in 0 .. c
      OBVIOUS
    <2> QED BY <2>1, <2>2
  <1> QED BY <1>4

\* The latest second of some rows, and of the one before.
LEMMA LatestIs ==
  ASSUME ReadersTypeOK, NEW ids, ids \subseteq 1 .. Len(rows)
  PROVE  /\ Latest(cursor, ids) \in 0 .. clock /\ cursor <= Latest(cursor, ids)
         /\ \A i \in ids : At(i) <= Latest(cursor, ids)
         /\ Latest(cursor, ids) = cursor \/ \E j \in ids : At(j) = Latest(cursor, ids)
  <1> DEFINE S == {cursor} \cup {At(i) : i \in ids}
             t == Max(S)
  <1>1. clock \in Nat /\ cursor \in 0 .. clock
    BY DEF ReadersTypeOK
  <1>2. \A i \in ids : At(i) \in 0 .. clock
    <2>1. \A i \in 1 .. Len(rows) : At(i) \in 1 .. clock
      BY RowsAreTyped
    <2> QED BY <1>1, <2>1
  <1>3. S \subseteq 0 .. clock /\ S # {} /\ cursor \in S /\ \A i \in ids : At(i) \in S
    BY <1>1, <1>2
  <1>4. t \in S /\ \A y \in S : t >= y
    <2> HIDE DEF S
    <2>1. \E x \in S : \A y \in S : x >= y
      BY <1>1, <1>3, LargestExists
    <2> QED BY <2>1 DEF Max
  <1>5. t \in 0 .. clock /\ t >= cursor /\ \A i \in ids : t >= At(i)
    BY <1>3, <1>4
  <1>6. t = cursor \/ \E j \in ids : At(j) = t
    BY <1>4
  <1>7. Latest(cursor, ids) = t
    BY DEF Latest
  <1> HIDE DEF t
  <1> QED BY <1>1, <1>2, <1>5, <1>6, <1>7

\* What a reader shows is shown from then on, once if it was not before.
LEMMA ShowsMore ==
  ASSUME shown \in Seq(SUBSET Nat), NEW ids \in SUBSET Nat, Shows(ids)
  PROVE  /\ Shown' = Shown \cup ids /\ shown' \in Seq(SUBSET Nat)
         /\ ShowsOnce /\ ids \cap Shown = {} => ShowsOnce'
  <1>0. Shown' = UNION ToSet(shown')
    BY DEF Shown, ToSet
  <1>1. CASE ids = {}
    <2>1. shown' = shown
      BY <1>1 DEF Shows
    <2>2. Shown' = Shown
      BY <1>0, <2>1 DEF Shown
    <2>3. ShowsOnce => ShowsOnce'
      BY <2>1 DEF ShowsOnce
    <2> QED BY <1>1, <2>1, <2>2, <2>3
  <1>2. CASE ids # {}
    <2> DEFINE N == SUBSET Nat
    <2>1. shown' = Append(shown, ids) /\ shown \in Seq(N) /\ ids \in N
      BY <1>2 DEF Shows
    <2> HIDE DEF N
    <2>2. ToSet(shown') = ToSet(shown) \cup {ids}
      BY <2>1, AppendToSet
    <2>3. Shown' = Shown \cup ids
      BY <1>0, <2>2 DEF Shown
    <2>4. shown' \in Seq(N)
      BY <2>1, RowsGrow
    <2>5. ASSUME ShowsOnce, ids \cap Shown = {} PROVE ShowsOnce'
      <3> DEFINE k == Len(shown)
      <3>1. /\ DOMAIN shown = 1 .. k /\ DOMAIN shown' = 1 .. k + 1 /\ k \in Nat
            /\ \A m \in 1 .. k : shown'[m] = shown[m]
            /\ shown'[k + 1] = ids
        BY <2>1, AppendProperties, LenProperties
      <3> HIDE DEF k
      <3>2. \A m \in 1 .. k : shown[m] \subseteq Shown
        BY <3>1 DEF Shown, ToSet
      <3>3. ASSUME NEW m \in 1 .. k + 1, NEW n \in 1 .. k + 1, m # n PROVE shown'[m] \cap shown'[n] = {}
        <4>1. CASE m \in 1 .. k /\ n \in 1 .. k
          BY <2>5, <3>1, <3>3, <4>1 DEF ShowsOnce
        <4>2. CASE m = k + 1 /\ n \in 1 .. k
          BY <2>5, <3>1, <3>2, <4>2
        <4>3. CASE n = k + 1 /\ m \in 1 .. k
          BY <2>5, <3>1, <3>2, <4>3
        <4> QED BY <3>1, <3>3, <4>1, <4>2, <4>3
      <3> QED BY <3>1, <3>3 DEF ShowsOnce
    <2> QED BY <2>3, <2>4, <2>5 DEF N
  <1> QED BY <1>1, <1>2

\* A read skips no row, if of the rows that nobody read before it shows each that is
\* in its window or has an excuse for it.
LEMMA ReadKeeps ==
  ASSUME FInv, UNCHANGED <<rows, reader, want>>, NEW n \in Nat, NEW window \in Nat, Reads(n, window),
         n <= Len(rows), Shown \subseteq Shown',
         \A i \in 1 .. n : n < i + window /\ MatchAll(i, want) /\ ~Read(i) => i \in Shown' \/ Excused(i)'
  PROVE  NoneIsSkipped' /\ reads' \subseteq 0 .. Len(rows)
  <1>0. /\ Len(rows) \in Nat /\ DOMAIN rows = 1 .. Len(rows)
        /\ reads \subseteq 0 .. Len(rows) /\ reads' = reads \cup {n}
    BY LenProperties DEF FInv, ReadersTypeOK, Reads
  <1>1. reads' \subseteq 0 .. Len(rows)
    BY <1>0
  <1>2. \A i : At(i)' = At(i) /\ Fingerprint(i)' = Fingerprint(i) /\ EventId(i)' = EventId(i)
               /\ MatchAll(i, want)' = MatchAll(i, want)
    BY RowStays
  <1>3. ASSUME NEW i \in 1 .. Len(rows), MatchAll(i, want), Read(i)' PROVE i \in Shown' \/ Excused(i)'
    <2>1. CASE Read(i)
      <3>1. i \in Shown \/ Excused(i)
        BY <1>0, <1>3, <2>1 DEF FInv, NoneIsSkipped, Read
      <3>2. ReadBefore(i) \subseteq ReadBefore(i)' /\ overrun \subseteq overrun'
        BY <1>0 DEF ReadBefore, Reads
      <3>3. Excused(i) => Excused(i)'
        BY <1>2, <3>2 DEF Excused
      <3> QED BY <3>1, <3>3
    <2>2. CASE ~Read(i)
      <3>1. i \in 1 .. n /\ \A m \in reads : m < i
        BY <1>0, <1>3, <2>2 DEF Read
      <3>2. CASE n < i + window
        BY <1>3, <2>2, <3>1, <3>2
      <3>3. CASE ~(n < i + window)
        <4>1. i \in 1 .. n - window
          BY <3>1, <3>3
        <4> QED BY <3>1, <4>1 DEF Reads, Excused
      <3> QED BY <3>2, <3>3
    <2> QED BY <2>1, <2>2
  <1>4. DOMAIN rows' = 1 .. Len(rows)
    BY <1>0
  <1> QED BY <1>1, <1>2, <1>3, <1>4 DEF NoneIsSkipped, Read

\* `audit tail --follow` begins.
LEMMA StartKeeps ==
  ASSUME FInv, NEW limit \in Limits, NEW fs, StartFollow(limit, fs)
  PROVE  FInv'
  <1> USE DEF table
  <1> DEFINE n == Len(rows)
             initial == Chosen(RecentDecisions(limit), fs)
  <1>1. /\ reader = "tail" /\ at = "off" /\ at' = "following" /\ want' = fs
        /\ cursor' = (IF initial = {} THEN 0 ELSE At(Max(initial)))
        /\ seen' = {Fingerprint(i) : i \in initial}
        /\ Shows(initial) /\ Reads(n, limit)
        /\ rows' = rows /\ clock' = clock /\ deciding' = deciding /\ reader' = reader
    BY DEF StartFollow
  <1>2. limit \in Nat \ {0} /\ limit <= MaxRows /\ MaxRows \in Nat /\ FollowBatch \in Nat
    BY ReadersAssumption
  <1>3. n \in Nat /\ DOMAIN rows = 1 .. n /\ clock \in Nat /\ \A i \in 1 .. n : At(i) \in 1 .. clock
    BY RowsAreTyped DEF FInv
  <1>4. reads = {} /\ shown = <<>> /\ shown \in Seq(SUBSET Nat)
    BY <1>1 DEF FInv, BeginsEmpty
  <1>5. Shown = {}
    BY <1>4, EmptySeq DEF Shown, ToSet
  <1>6. initial \subseteq 1 .. n
    BY <1>3 DEF Chosen, RecentDecisions
  <1>7. \A i \in 1 .. n : n < i + limit /\ MatchAll(i, fs) => i \in initial
    BY <1>2, <1>3 DEF Chosen, RecentDecisions
  <1>8. \A i : At(i)' = At(i) /\ Fingerprint(i)' = Fingerprint(i) /\ EventId(i)' = EventId(i)
               /\ MatchAll(i, fs)' = MatchAll(i, fs)
    BY <1>1, RowStays
  <1> HIDE DEF n, initial
  <1>9. Shown' = initial /\ shown' \in Seq(SUBSET Nat) /\ ShowsOnce'
    <2>1. initial \in SUBSET Nat
      BY <1>3, <1>6
    <2>2. ShowsOnce
      BY DEF FInv
    <2> QED BY <1>1, <1>4, <1>5, <2>1, <2>2, ShowsMore
  <1>10. cursor' \in 0 .. clock /\ (cursor' # 0 => \E j \in initial : At(j) = cursor')
    <2>1. CASE initial = {}
      BY <1>1, <1>3, <2>1
    <2>2. CASE initial # {}
      <3>1. initial \subseteq 0 .. n
        BY <1>3, <1>6
      <3>2. \E x \in initial : \A y \in initial : x >= y
        BY <1>3, <2>2, <3>1, LargestExists
      <3>3. Max(initial) \in initial
        BY <3>2 DEF Max
      <3>4. cursor' = At(Max(initial))
        BY <1>1, <2>2
      <3>5. At(Max(initial)) \in 1 .. clock
        BY <1>3, <1>6, <3>3
      <3>6. cursor' \in 1 .. clock /\ \E j \in initial : At(j) = cursor'
        BY <3>3, <3>4, <3>5
      <3>7. cursor' \in 0 .. clock
        BY <1>3, <3>6
      <3> QED BY <3>6, <3>7
    <2> QED BY <2>1, <2>2
  <1>11. reads' = {n} /\ \A i \in 1 .. n : Read(i)'
    <2>1. reads' = {n}
      BY <1>1, <1>4 DEF Reads
    <2> QED BY <1>3, <2>1 DEF Read
  <1>12. ReadersTypeOK'
    <2>1. ToSet(rows)' = ToSet(rows)
      BY <1>1 DEF ToSet
    <2>2. reads' \subseteq 0 .. n /\ n = Len(rows)
      BY <1>3, <1>11 DEF n
    <2> QED BY <1>1, <1>3, <1>6, <1>9, <1>10, <2>1, <2>2 DEF FInv, ReadersTypeOK
  <1>13. Remembers'
    <2>1. cursor' # 0 => \E j \in 1 .. n : At(j) = cursor' /\ Read(j)'
      BY <1>6, <1>10, <1>11
    <2>2. \A p \in seen' : \E j \in 1 .. n : Fingerprint(j) = p /\ Read(j)'
      BY <1>1, <1>6, <1>11
    <2> QED BY <1>1, <1>3, <1>8, <2>1, <2>2 DEF Remembers
  <1>14. KnowsShown' /\ AnswerIsGood' /\ BeginsEmpty'
    <2>1. KnowsShown'
      BY <1>1, <1>8, <1>9 DEF KnowsShown
    <2> QED BY <1>1, <2>1 DEF AnswerIsGood, BeginsEmpty
  <1>15. NoneIsSkipped'
    <2>1. ASSUME NEW i \in 1 .. n, MatchAll(i, fs) PROVE i \in initial \/ Excused(i)'
      <3>1. CASE n < i + limit
        BY <1>7, <2>1, <3>1
      <3>2. CASE ~(n < i + limit)
        <4>1. i \in 1 .. n - limit
          BY <1>2, <1>3, <2>1, <3>2
        <4> QED BY <1>1, <1>4, <4>1 DEF Reads, Excused
      <3> QED BY <3>1, <3>2
    <2> QED BY <1>1, <1>3, <1>8, <1>9, <2>1 DEF NoneIsSkipped
  <1> QED BY <1>9, <1>12, <1>13, <1>14, <1>15 DEF FInv

\* It reads a batch.
LEMMA PollKeeps ==
  ASSUME FInv, PollFollow
  PROVE  FInv'
  <1> USE DEF table
  <1> DEFINE n == Len(rows)
             next == RecentDecisions(FollowBatch)
             fresh == {i \in Chosen(next, want) : ~Passed(i) /\ Fingerprint(i) \notin seen}
             prints == {Fingerprint(i) : i \in fresh}
  <1>1. /\ reader = "tail" /\ at = "following" /\ at' = at /\ want' = want /\ answer' = answer
        /\ cursor' = Latest(cursor, fresh) /\ Shows(fresh) /\ Reads(n, FollowBatch)
        /\ rows' = rows /\ clock' = clock /\ deciding' = deciding /\ reader' = reader
    BY DEF PollFollow
  <1>2. seen' = seen \cup prints \/ seen' = {Fingerprint(i) : i \in next}
    BY DEF PollFollow
  <1>3. FollowBatch \in Nat \ {0} /\ FollowBatch <= MaxRows /\ MaxRows \in Nat
    BY ReadersAssumption
  <1>4. /\ n \in Nat /\ DOMAIN rows = 1 .. n /\ clock \in Nat /\ \A i \in 1 .. n : At(i) \in 1 .. clock
        /\ cursor \in Nat /\ reads \subseteq 0 .. n
    BY RowsAreTyped DEF FInv, ReadersTypeOK
  <1>5. fresh \subseteq next /\ next \subseteq 1 .. n /\ \A i \in next : n < i + FollowBatch
    BY <1>3, <1>4 DEF Chosen, RecentDecisions
  <1>6. \A i \in 1 .. n : n < i + FollowBatch => i \in next
    BY <1>3, <1>4 DEF RecentDecisions
  <1>7. \A i \in next : MatchAll(i, want) => i \in fresh \/ Passed(i) \/ Fingerprint(i) \in seen
    BY DEF Chosen
  <1>8. \A i \in fresh : ~(At(i) < cursor) /\ Fingerprint(i) \notin seen /\ Fingerprint(i) \in prints
    BY DEF Passed
  <1>9. \A i : At(i)' = At(i) /\ Fingerprint(i)' = Fingerprint(i) /\ EventId(i)' = EventId(i)
               /\ MatchAll(i, want)' = MatchAll(i, want)
    BY <1>1, RowStays
  <1>10. \A p \in prints : \E i \in fresh : p = Fingerprint(i)
    OBVIOUS
  <1> HIDE DEF next, fresh, prints, n
  <1>11. Shown \subseteq 1 .. n /\ shown \in Seq(SUBSET Nat)
    BY <1>4 DEF FInv, ReadersTypeOK
  <1>12. fresh \cap Shown = {}
    <2>1. \A i \in Shown : At(i) < cursor \/ Fingerprint(i) \in seen \/ i + FollowBatch <= n
      BY <1>1 DEF FInv, KnowsShown, n
    <2> SUFFICES ASSUME NEW i \in fresh, i \in Shown PROVE FALSE
      OBVIOUS
    <2>2. n < i + FollowBatch /\ i \in 1 .. n
      BY <1>5
    <2> QED BY <1>3, <1>4, <1>8, <2>1, <2>2
  <1>13. Shown' = Shown \cup fresh /\ shown' \in Seq(SUBSET Nat) /\ ShowsOnce'
    <2>1. fresh \in SUBSET Nat
      BY <1>4, <1>5
    <2>2. ShowsOnce
      BY DEF FInv
    <2> QED BY <1>1, <1>11, <1>12, <2>1, <2>2, ShowsMore
  <1>14. /\ cursor' \in 0 .. clock /\ cursor <= cursor'
         /\ cursor' = cursor \/ \E j \in fresh : At(j) = cursor'
    <2>1. fresh \subseteq 1 .. Len(rows)
      BY <1>5 DEF n
    <2> QED BY <1>1, <2>1, LatestIs DEF FInv
  <1>15. /\ reads' = reads \cup {n} /\ \A i \in 1 .. n : Read(i)'
    <2>1. reads' = reads \cup {n}
      BY <1>1 DEF Reads
    <2> QED BY <1>4, <2>1 DEF Read
  <1>16. ReadersTypeOK'
    <2>1. ToSet(rows)' = ToSet(rows)
      BY <1>1 DEF ToSet
    <2>2. reads' \subseteq 0 .. n
      BY <1>4, <1>15
    <2>3. Shown' \subseteq 1 .. n
      BY <1>5, <1>11, <1>13
    <2>4. n = Len(rows)
      BY DEF n
    <2> QED BY <1>1, <1>4, <1>14, <2>1, <2>2, <2>3, <2>4 DEF FInv, ReadersTypeOK
  <1>17. Remembers'
    <2>1. cursor # 0 => \E j \in 1 .. n : At(j) = cursor
      BY <1>4 DEF FInv, Remembers
    <2>2. \A p \in seen : \E j \in 1 .. n : Fingerprint(j) = p
      BY <1>1, <1>4 DEF FInv, Remembers
    <2>3. cursor' # 0 => \E j \in 1 .. n : At(j) = cursor' /\ Read(j)'
      BY <1>5, <1>14, <1>15, <2>1
    <2>4. ASSUME NEW p \in seen' PROVE \E j \in 1 .. n : Fingerprint(j) = p /\ Read(j)'
      <3>1. p \in seen \/ p \in prints \/ \E i \in next : p = Fingerprint(i)
        BY <1>2
      <3>2. \E j \in 1 .. n : Fingerprint(j) = p
        BY <1>5, <1>10, <2>2, <3>1
      <3> QED BY <1>15, <3>2
    <2> QED BY <1>1, <1>4, <1>9, <2>3, <2>4 DEF Remembers
  <1>18. KnowsShown'
    <2>1. ASSUME NEW i \in Shown \cup fresh
          PROVE  At(i) < cursor' \/ Fingerprint(i) \in seen' \/ i + FollowBatch <= n
      <3>1. i \in 1 .. n /\ At(i) \in Nat
        BY <1>4, <1>5, <1>11
      <3>2. CASE i \in next
        <4>1. CASE i \in fresh
          BY <1>2, <1>8, <3>2, <4>1
        <4>2. CASE i \in Shown
          <5>1. At(i) < cursor \/ Fingerprint(i) \in seen \/ i + FollowBatch <= n
            BY <1>1, <4>2 DEF FInv, KnowsShown, n
          <5> QED BY <1>2, <1>4, <1>14, <3>1, <3>2, <5>1
        <4> QED BY <4>1, <4>2
      <3>3. CASE i \notin next
        BY <1>3, <1>4, <1>6, <3>1, <3>3
      <3> QED BY <3>2, <3>3
    <2>2. reader' = "tail" /\ n = Len(rows) /\ rows' = rows
      BY <1>1 DEF n
    <2> QED BY <1>9, <1>13, <2>1, <2>2 DEF KnowsShown
  <1>19. AnswerIsGood' /\ BeginsEmpty'
    BY <1>1 DEF AnswerIsGood, BeginsEmpty
  <1>20. NoneIsSkipped'
    <2>1. ASSUME NEW i \in 1 .. n, n < i + FollowBatch, MatchAll(i, want), ~Read(i)
          PROVE  i \in Shown' \/ Excused(i)'
      <3>1. i \in next
        BY <1>6, <2>1
      <3>2. \A j \in 1 .. n : Read(j) => j \in ReadBefore(i)'
        <4> SUFFICES ASSUME NEW j \in 1 .. n, NEW m \in reads, j <= m PROVE j \in ReadBefore(i)'
          BY DEF Read
        <4>1. m < i
          BY <1>4, <2>1 DEF Read
        <4>2. m \in reads' /\ j \in DOMAIN rows'
          BY <1>1, <1>4, <1>15
        <4> QED BY <4>1, <4>2 DEF ReadBefore
      <3>3. CASE i \in fresh
        BY <1>13, <3>3
      <3>4. CASE Passed(i)
        <4>1. At(i) < cursor /\ cursor # 0
          BY <1>4, <2>1, <3>4 DEF Passed
        <4>2. PICK j \in 1 .. n : At(j) = cursor /\ Read(j)
          BY <1>4, <4>1 DEF FInv, Remembers
        <4> QED BY <1>1, <1>9, <3>2, <4>1, <4>2 DEF Excused
      <3>5. CASE Fingerprint(i) \in seen
        <4>1. PICK j \in 1 .. n : Fingerprint(j) = Fingerprint(i) /\ Read(j)
          BY <1>1, <1>4, <3>5 DEF FInv, Remembers
        <4> QED BY <1>1, <1>9, <3>2, <4>1 DEF Excused
      <3> QED BY <1>7, <2>1, <3>1, <3>3, <3>4, <3>5
    <2> QED BY <1>1, <1>3, <1>4, <1>13, <2>1, ReadKeeps DEF n
  <1> QED BY <1>13, <1>16, <1>17, <1>18, <1>19, <1>20 DEF FInv

\* The page asks, for what is later than it has seen.
LEMMA AskKeeps ==
  ASSUME FInv, PageAsk
  PROVE  FInv'
  <1> USE DEF table, history
  <1> DEFINE n == Len(rows)
             since == IF cursor = 0 THEN 0 ELSE cursor + 1
             recent == RecentDecisions(MaxRows)
             later == Chosen(From(recent, since), {})
             ids == FirstOf(later, PageLimit)
  <1>1. /\ reader = "page" /\ at' = "waiting" /\ answer' = [ids |-> ids, rows |-> n]
        /\ UNCHANGED <<clock, deciding, rows, reader, want, cursor, seen, shown, reads, overrun>>
    BY DEF PageAsk, AuditEvents
  <1>2. PageLimit \in Nat \ {0} /\ PageLimit <= MaxRows /\ MaxRows \in Nat \ {0}
    BY ReadersAssumption
  <1>3. /\ n \in Nat /\ DOMAIN rows = 1 .. n /\ cursor \in Nat /\ \A i \in 1 .. n : At(i) \in Nat
    BY RowsAreTyped DEF FInv
  <1>4. \A i \in later : i \in 1 .. n /\ At(i) >= since
    BY <1>3 DEF Chosen, From, RecentDecisions
  <1>5. \A i \in 1 .. n : n < i + PageLimit /\ At(i) >= since => i \in later
    BY <1>2, <1>3 DEF Chosen, From, RecentDecisions, MatchAll
  <1>6. ids \subseteq later
    BY DEF FirstOf
  <1>7. \A i : At(i)' = At(i) /\ Fingerprint(i)' = Fingerprint(i) /\ EventId(i)' = EventId(i)
               /\ MatchAll(i, want)' = MatchAll(i, want)
    BY <1>1, RowStays
  <1>8. ASSUME NEW i \in later, n < i + PageLimit PROVE i \in ids
    <2> SUFFICES Cardinality({j \in later : i < j}) < PageLimit
      BY <1>8 DEF FirstOf
    <2> HIDE DEF later, ids, n
    <2>0. i \in 1 .. n
      BY <1>4
    <2>1. {j \in later : i < j} \subseteq i + 1 .. n
      <3>1. ASSUME NEW j \in later, i < j PROVE j \in i + 1 .. n
        <4>1. j \in 1 .. n
          BY <1>4
        <4> QED BY <1>3, <2>0, <3>1, <4>1
      <3> QED BY <3>1
    <2>2. IsFiniteSet(i + 1 .. n) /\ Cardinality(i + 1 .. n) = IF i + 1 > n THEN 0 ELSE n - (i + 1) + 1
      BY <1>3, <2>0, FS_Interval
    <2>3. Cardinality(i + 1 .. n) < PageLimit
      BY <1>2, <1>3, <1>8, <2>0, <2>2
    <2>4. Cardinality({j \in later : i < j}) <= Cardinality(i + 1 .. n) /\ Cardinality({j \in later : i < j}) \in Nat
      BY <2>1, <2>2, FS_Subset, FS_CardinalityType
    <2> QED BY <1>2, <1>3, <2>0, <2>2, <2>3, <2>4
  <1>9. AnswerIsGood'
    <2>1. answer'.ids = ids /\ answer'.rows = n /\ rows' = rows /\ cursor' = cursor
      BY <1>1
    <2>2. since = IF cursor = 0 THEN 0 ELSE cursor + 1
      OBVIOUS
    <2>3. n = Len(rows)
      OBVIOUS
    <2> HIDE DEF ids, later, n, since
    <2>4. n \in 0 .. n /\ ids \subseteq 1 .. n
      BY <1>3, <1>4, <1>6
    <2>5. ASSUME NEW i \in ids, cursor # 0 PROVE cursor < At(i)
      BY <1>3, <1>4, <1>6, <2>2, <2>5
    <2>6. ASSUME NEW i \in 1 .. n PROVE i \in ids \/ i + PageLimit <= n \/ (cursor # 0 /\ At(i) <= cursor)
      BY <1>2, <1>3, <1>5, <1>8, <2>2, <2>6
    <2> QED BY <1>1, <1>7, <2>1, <2>3, <2>4, <2>5, <2>6 DEF AnswerIsGood
  <1> HIDE DEF n, ids
  <1>10. /\ Shown' = Shown /\ ToSet(rows)' = ToSet(rows) /\ (\A i : Read(i)' <=> Read(i))
         /\ \A i : ReadBefore(i)' = ReadBefore(i)
    BY <1>1 DEF Shown, ToSet, Read, ReadBefore
  <1>11. ReadersTypeOK' /\ BeginsEmpty' /\ ShowsOnce' /\ (shown \in Seq(SUBSET Nat))'
    BY <1>1, <1>10 DEF FInv, ReadersTypeOK, BeginsEmpty, ShowsOnce
  <1>12. Remembers' /\ KnowsShown'
    BY <1>1, <1>7, <1>10 DEF FInv, Remembers, KnowsShown
  <1>13. NoneIsSkipped'
    BY <1>1, <1>7, <1>10 DEF FInv, NoneIsSkipped, Excused
  <1> QED BY <1>9, <1>11, <1>12, <1>13 DEF FInv

\* A step that shows nothing and reads nothing: the page forgets, an answer is lost, the
\* follower ends.
LEMMA IdleKeeps ==
  ASSUME FInv, UNCHANGED <<clock, deciding, rows, reader, want, cursor, shown, reads, overrun>>,
         seen' = seen \/ (reader = "page" /\ seen' = {}),
         (at' = at /\ answer' = answer) \/ at' \in {"following", "ended"}
  PROVE  FInv'
  <1>1. \A i : At(i)' = At(i) /\ Fingerprint(i)' = Fingerprint(i) /\ EventId(i)' = EventId(i)
               /\ MatchAll(i, want)' = MatchAll(i, want)
    BY RowStays
  <1>2. /\ Shown' = Shown /\ ToSet(rows)' = ToSet(rows) /\ (\A i : Read(i)' <=> Read(i))
        /\ \A i : ReadBefore(i)' = ReadBefore(i)
    BY DEF Shown, ToSet, Read, ReadBefore
  <1>3. ReadersTypeOK' /\ BeginsEmpty' /\ ShowsOnce' /\ (shown \in Seq(SUBSET Nat))'
    BY <1>2 DEF FInv, ReadersTypeOK, BeginsEmpty, ShowsOnce
  <1>4. Remembers' /\ KnowsShown'
    BY <1>1, <1>2 DEF FInv, Remembers, KnowsShown
  <1>5. AnswerIsGood'
    BY <1>1 DEF FInv, AnswerIsGood
  <1>6. NoneIsSkipped'
    BY <1>1, <1>2 DEF FInv, NoneIsSkipped, Excused
  <1> QED BY <1>3, <1>4, <1>5, <1>6 DEF FInv

\* The response comes.
LEMMA LoadKeeps ==
  ASSUME FInv, PageLoad
  PROVE  FInv'
  <1> USE DEF table
  <1> DEFINE n == Len(rows)
             k == answer.rows
             ids == answer.ids
             fresh == {i \in ids : /\ EventId(i) \notin seen
                                   /\ \A j \in ids : i < j => EventId(j) # EventId(i)}
             known == {EventId(i) : i \in fresh}
  <1>1. /\ at = "waiting" /\ at' = "following" /\ want' = want /\ answer' = NoAnswer
        /\ cursor' = Latest(cursor, fresh) /\ Shows(fresh) /\ Reads(k, PageLimit)
        /\ rows' = rows /\ clock' = clock /\ deciding' = deciding /\ reader' = reader
        /\ seen' = seen \cup known
    BY DEF PageLoad
  <1>2. /\ n \in Nat /\ DOMAIN rows = 1 .. n /\ clock \in Nat /\ \A i \in 1 .. n : At(i) \in 1 .. clock
        /\ cursor \in Nat /\ reads \subseteq 0 .. n
    BY RowsAreTyped DEF FInv, ReadersTypeOK
  <1>3. /\ reader = "page" /\ k \in 0 .. n /\ ids \subseteq 1 .. k
        /\ \A i \in ids : cursor # 0 => cursor < At(i)
        /\ \A i \in 1 .. k : i \in ids \/ i + PageLimit <= k \/ (cursor # 0 /\ At(i) <= cursor)
    BY <1>1 DEF FInv, AnswerIsGood
  <1>4. PageLimit \in Nat
    BY ReadersAssumption
  <1>5. fresh \subseteq ids /\ \A i \in fresh : EventId(i) \in known
    OBVIOUS
  <1>6. \A p \in known : \E i \in fresh : p = EventId(i)
    OBVIOUS
  <1>7. \A i : At(i)' = At(i) /\ Fingerprint(i)' = Fingerprint(i) /\ EventId(i)' = EventId(i)
               /\ MatchAll(i, want)' = MatchAll(i, want)
    BY <1>1, RowStays
  <1>8. k \in Nat /\ k <= n /\ ids \subseteq 1 .. n /\ n = Len(rows)
    <2> HIDE DEF n, k, ids
    <2>1. k \in Nat /\ k <= n
      BY <1>2, <1>3
    <2>2. \A i \in 1 .. k : i \in 1 .. n
      BY <1>2, <2>1
    <2> QED BY <1>3, <2>1, <2>2 DEF n
  \* Of the rows of one id the newest is shown, or the id was seen.
  <1>9. ASSUME NEW i \in ids PROVE \E j \in Shown \cup fresh : EventId(j) = EventId(i)
    <2> DEFINE same == {j \in ids : EventId(j) = EventId(i)}
    <2>1. same \subseteq 0 .. n /\ same # {}
      <3>1. 1 .. n \subseteq 0 .. n
        BY <1>2
      <3> QED BY <1>8, <1>9, <3>1
    <2>2. PICK j \in same : \A m \in same : j >= m
      <3> HIDE DEF same, n
      <3> QED BY <1>2, <2>1, LargestExists
    <2>3. \A m \in ids : j < m => EventId(m) # EventId(j)
      <3> SUFFICES ASSUME NEW m \in ids, j < m, EventId(m) = EventId(j) PROVE FALSE
        OBVIOUS
      <3>1. m \in same /\ j \in ids
        BY <2>2
      <3>2. m \in 1 .. n /\ j \in 1 .. n
        BY <1>8, <3>1
      <3> QED BY <1>2, <2>2, <3>1, <3>2
    <2>4. CASE EventId(j) \in seen
      BY <1>3, <2>2, <2>4 DEF FInv, Remembers
    <2>5. CASE EventId(j) \notin seen
      BY <2>2, <2>3, <2>5
    <2> QED BY <2>4, <2>5
  <1> HIDE DEF fresh, known, n, k, ids
  <1>10. Shown \subseteq 1 .. n /\ shown \in Seq(SUBSET Nat) /\ \A i \in Shown : At(i) <= cursor
    BY <1>2, <1>3 DEF FInv, ReadersTypeOK, KnowsShown
  <1>11. fresh \cap Shown = {}
    <2> SUFFICES ASSUME NEW i \in fresh, i \in Shown PROVE FALSE
      OBVIOUS
    <2>1. At(i) \in 1 .. clock /\ At(i) <= cursor
      BY <1>2, <1>10
    <2>2. cursor # 0 => cursor < At(i)
      BY <1>3, <1>5
    <2> QED BY <1>2, <2>1, <2>2
  <1>12. Shown' = Shown \cup fresh /\ shown' \in Seq(SUBSET Nat) /\ ShowsOnce'
    <2>1. fresh \in SUBSET Nat
      BY <1>2, <1>5, <1>8
    <2>2. ShowsOnce
      BY DEF FInv
    <2> QED BY <1>1, <1>10, <1>11, <2>1, <2>2, ShowsMore
  <1>13. /\ cursor' \in 0 .. clock /\ cursor <= cursor' /\ \A i \in fresh : At(i) <= cursor'
         /\ cursor' = cursor \/ \E j \in fresh : At(j) = cursor'
    <2>1. fresh \subseteq 1 .. Len(rows)
      BY <1>5, <1>8
    <2> QED BY <1>1, <2>1, LatestIs DEF FInv
  <1>14. reads' = reads \cup {k} /\ (\A i \in ids : Read(i)') /\ \A i : Read(i) => Read(i)'
    <2>1. reads' = reads \cup {k}
      BY <1>1 DEF Reads
    <2>2. \A i \in ids : i <= k
      BY <1>3, <1>8
    <2> QED BY <2>1, <2>2 DEF Read
  <1>15. ReadersTypeOK'
    <2>1. ToSet(rows)' = ToSet(rows)
      BY <1>1 DEF ToSet
    <2>2. reads' \subseteq 0 .. n
      BY <1>2, <1>3, <1>14
    <2>3. Shown' \subseteq 1 .. n
      BY <1>5, <1>8, <1>10, <1>12
    <2> QED BY <1>1, <1>2, <1>8, <1>13, <2>1, <2>2, <2>3 DEF FInv, ReadersTypeOK
  <1>16. Remembers'
    <2>1. cursor # 0 => \E j \in 1 .. n : At(j) = cursor /\ Read(j)
      BY <1>2 DEF FInv, Remembers
    <2>2. cursor' # 0 => \E j \in 1 .. n : At(j) = cursor' /\ Read(j)'
      BY <1>5, <1>8, <1>13, <1>14, <2>1
    <2>3. \A p \in seen' : \E j \in Shown \cup fresh : EventId(j) = p
      BY <1>1, <1>3, <1>6 DEF FInv, Remembers
    <2> QED BY <1>1, <1>2, <1>3, <1>7, <1>12, <2>2, <2>3 DEF Remembers
  <1>17. KnowsShown'
    <2>1. ASSUME NEW i \in Shown \cup fresh PROVE At(i) <= cursor'
      <3>1. i \in 1 .. n
        BY <1>5, <1>8, <1>10
      <3>2. At(i) \in Nat /\ cursor \in Nat /\ cursor' \in Nat /\ cursor <= cursor'
        BY <1>2, <1>13, <3>1
      <3> QED BY <1>10, <1>13, <3>2
    <2> QED BY <1>1, <1>3, <1>7, <1>12, <2>1 DEF KnowsShown
  <1>18. AnswerIsGood' /\ BeginsEmpty'
    BY <1>1 DEF AnswerIsGood, BeginsEmpty
  <1>19. NoneIsSkipped'
    <2>1. ASSUME NEW i \in 1 .. k, k < i + PageLimit, MatchAll(i, want), ~Read(i)
          PROVE  i \in Shown' \/ Excused(i)'
      <3>1. CASE i \in ids
        <4>1. PICK j \in Shown' : EventId(j) = EventId(i)
          BY <1>9, <1>12, <3>1
        <4> QED BY <1>1, <1>3, <1>7, <4>1 DEF Excused
      <3>2. CASE cursor # 0 /\ At(i) <= cursor
        <4>1. PICK j \in 1 .. n : At(j) = cursor /\ Read(j)
          BY <1>2, <3>2 DEF FInv, Remembers
        <4>2. PICK m \in reads : j <= m
          BY <4>1 DEF Read
        <4>3. m < i
          BY <1>2, <2>1, <4>2, <1>8 DEF Read
        <4>4. m \in reads' /\ j \in DOMAIN rows'
          BY <1>1, <1>2, <1>14, <4>1
        <4>5. j \in ReadBefore(i)'
          BY <4>2, <4>3, <4>4 DEF ReadBefore
        <4>6. At(j) >= At(i)
          <5>1. i \in 1 .. n
            BY <1>2, <1>8
          <5> QED BY <1>2, <3>2, <4>1, <5>1
        <4> QED BY <1>1, <1>3, <1>7, <4>5, <4>6 DEF Excused
      <3> QED BY <1>3, <1>4, <1>8, <2>1, <3>1, <3>2
    <2>2. Shown \subseteq Shown'
      BY <1>12
    <2> QED BY <1>1, <1>4, <1>8, <2>1, <2>2, ReadKeeps DEF k
  <1> QED BY <1>12, <1>15, <1>16, <1>17, <1>18, <1>19 DEF FInv

LEMMA ReadersStepKeeps == FInv /\ [ReadersNext]_readers => FInv'
  <1> SUFFICES ASSUME FInv, [ReadersNext]_readers PROVE FInv'
    OBVIOUS
  <1> USE DEF table, state, history
  <1>0. clock \in Nat /\ deciding \subseteq [req : Request, at : Nat] /\ \A d \in deciding : d.at \in 1 .. clock
    BY DEF FInv, ReadersTypeOK
  <1>1. ASSUME NEW q \in Request, Decide(q) PROVE FInv'
    <2>1. deciding' = deciding \cup {[req |-> q, at |-> clock]} /\ clock' = clock /\ UNCHANGED <<rows, state, history>>
      BY <1>1 DEF Decide
    <2>2. \A d \in deciding' : d.at \in 1 .. clock
      <3>1. 1 <= clock
        BY DEF FInv, ReadersTypeOK
      <3> QED BY <1>0, <2>1, <3>1
    <2> QED BY <1>0, <2>1, <2>2, ClockKeeps
  <1>2. ASSUME NEW d \in deciding, RecordDecision(d) PROVE FInv'
    BY <1>2, RecordKeeps
  <1>3. CASE ClockTick
    <2>1. clock' = clock + 1 /\ deciding' = deciding /\ UNCHANGED <<rows, state, history>>
      BY <1>3 DEF ClockTick
    <2>2. clock' \in Nat /\ clock <= clock' /\ \A d \in deciding' : d.at \in 1 .. clock'
      BY <1>0, <2>1
    <2> QED BY <1>0, <2>1, <2>2, ClockKeeps
  <1>4. ASSUME NEW limit \in Limits, NEW fs \in Filters, StartFollow(limit, fs) PROVE FInv'
    BY <1>4, StartKeeps
  <1>5. CASE PollFollow
    BY <1>5, PollKeeps
  <1>6. CASE EndFollow
    BY <1>6, IdleKeeps DEF EndFollow
  <1>7. CASE PageAsk
    BY <1>7, AskKeeps
  <1>8. CASE PageLoad
    BY <1>8, LoadKeeps
  <1>9. CASE PageLost
    BY <1>9, IdleKeeps DEF PageLost
  <1>10. CASE PageClear
    BY <1>10, IdleKeeps DEF PageClear
  <1>11. CASE UNCHANGED readers
    BY <1>11, IdleKeeps DEF readers
  <1> QED BY <1>1, <1>2, <1>3, <1>4, <1>5, <1>6, <1>7, <1>8, <1>9, <1>10, <1>11 DEF ReadersNext, Follow, Page

\* Whoever follows the table skips no row but for a reason it cannot help, and shows none
\* twice, whatever the batches and whoever asks for what.
THEOREM FollowersSkipNone == ReadersSpec => []SkipsAreExcused
  <1>1. FInv => SkipsAreExcused
    BY DEF FInv, SkipsAreExcused
  <1> QED BY <1>1, FInitInv, ReadersStepKeeps, PTL DEF ReadersSpec

\* Whatever the limit and the instant asked for, the commands and the endpoint that list
\* decisions find the same rows, as far back as the shorter answer goes.
THEOREM ListingsFindTheSame == ReadersSpec => []ListingsAgree
  <1>1. FInv => ListingsAgree
    BY ListingsAreOne DEF FInv
  <1> QED BY <1>1, FInitInv, ReadersStepKeeps, PTL DEF ReadersSpec
-----------------------------------------------------------------------------
\* Both at once, as they are checked: a behaviour of the two is one of each.
THEOREM BothPartsHold ==
  MCSpec => [](FailuresAreLocal /\ KeptIsThere /\ SkipsAreExcused /\ ListingsAgree)
  <1> DEFINE I == WInv /\ RInv /\ KInv /\ FInv
  <1>1. MCInit => I
    BY WInitInv, RInitInv, KInitInv, FInitInv DEF MCInit
  <1>2. [MCNext]_allvars => [Next]_vars /\ [ReadersNext]_readers
    BY DEF MCNext, allvars
  <1>3. I /\ [MCNext]_allvars => I'
    BY <1>2, StepOfEach, WStepKeeps, RStepKeeps, KStepKeeps, ReadersStepKeeps
  <1>4. I => FailuresAreLocal /\ KeptIsThere /\ SkipsAreExcused /\ ListingsAgree
    BY WRHolds, KHolds, ListingsAreOne DEF FInv, SkipsAreExcused
  <1> HIDE DEF I
  <1> QED BY <1>1, <1>3, <1>4, PTL DEF MCSpec
=============================================================================
