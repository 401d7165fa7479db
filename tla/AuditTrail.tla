----------------------------- MODULE AuditTrail -----------------------------
(***************************************************************************)
(* What the audit log promises whoever reads its files, whatever fails: the *)
(* events it shows are in the order the proxy took them, each at most once, *)
(* and an event it has ceased to show never comes back.  Files may go: a    *)
(* step may remove a stretch of the trail, and puts nothing in its place.   *)
(*                                                                          *)
(* The trail is the set of events that are shown, and the order in which a  *)
(* reader comes to them: <<d, e>> if d is read before e.  An event that is  *)
(* shown twice is read before itself, which no step below allows.           *)
(***************************************************************************)
EXTENDS Naturals

CONSTANT Events

VARIABLES shown, order, last

\* An event behind everything that was ever written.
Record(e) ==
    /\ e > last
    /\ shown' = shown \cup {e}
    /\ order' = order \cup (shown \X {e})
    /\ last' = e

\* Nothing stays that was read between two events of S.
Stretch(S) ==
    \A d, f \in S, e \in shown : <<d, e>> \in order /\ <<e, f>> \in order => e \in S

\* A failed rotation, a crash or a purge takes a stretch of the trail with it.
Lose(S) ==
    /\ Stretch(S)
    /\ shown' = shown \ S
    /\ order' = order \cap (shown' \X shown')
    /\ UNCHANGED last

\* An event that was taken is lost on its way.
Spoil(e) ==
    /\ e > last /\ last' = e
    /\ UNCHANGED <<shown, order>>

Init == shown = {} /\ order = {} /\ last = 0

Next ==
    \/ \E e \in Events : Record(e) \/ Spoil(e)
    \/ \E S \in SUBSET shown : Lose(S)

Spec == Init /\ [][Next]_<<shown, order, last>>
=============================================================================
