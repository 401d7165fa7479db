------------------------------ MODULE MCReloads ------------------------------
(* What a running proxy reloads: its profile, on a switch or a call, and the
   dynamic denies, when their file changes.  The two share no state, so a
   behaviour is one of either and the other stands still. *)
EXTENDS ProfileReload

CONSTANTS Kinds, Rule, Expires(_), Never, DenyAdmins, Writes, MaxChanges, MaxCount, MaxTime

VARIABLES kind, denyFile, version, writing, dir, attached, events, pending, load, snapshot,
          counted, kept, torn, stale, missed, now

D == INSTANCE DynamicDeny WITH file <- denyFile, Admin <- DenyAdmins

ASSUME MCReloadsAssumption == ConstantsAssumption /\ D!ConstantsAssumption

\* "hour" expires at time 0, "day" never.
MCExpires(r) == IF r = "hour" THEN 0 ELSE Never
AllWrites == {"rename", "spoil", "over", "remove"}

denies == <<denyFile, version, writing, dir, attached, events, pending, load, snapshot,
            counted, kept, torn, stale, missed, now>>

\* A part that stands still is in its first state.
MCInit ==
    /\ kind \in Kinds
    /\ Init
    /\ IF kind = "denies" THEN D!Init ELSE D!Rest

MCNext(Switches) ==
    \/ kind = "profile" /\ Switches /\ UNCHANGED <<kind, denies>>
    \/ kind = "denies" /\ D!Next /\ UNCHANGED <<kind, vars>>

MCFairness == (kind = "profile" => Fairness) /\ (kind = "denies" => D!Fairness)
MCSpec == MCInit /\ [][MCNext(Next)]_<<kind, vars, denies>> /\ MCFairness

\* Switches and reload calls made one at a time.
MCCalmSpec == MCInit /\ [][MCNext(Next /\ OneAtATime)]_<<kind, vars, denies>> /\ MCFairness
-----------------------------------------------------------------------------
\* A rule that stays in the file stays in force (DynamicDeny).
KeptRulesHold == D!KeptRulesHold

\* What the proxy was told it does in the end: no switch stays pending, though its
\* profile is gone and acks fail (ProfileReload), and the rules in force become
\* those of a file that is left alone (DynamicDeny).
ReloadsSettle == IF kind = "profile" THEN SwitchIsSettled ELSE D!CatchesUp

KeptRulesAlwaysHold == D!KeptRulesAlwaysHold
CountersMirror == D!CountersMirror
CatchesUpAlways == kind = "denies" => D!CatchesUpAlways
CatchesUpOnCreation == kind = "denies" => D!CatchesUpOnCreation
=============================================================================
