---------------------------- MODULE DynamicDeny ----------------------------
(***************************************************************************)
(* The dynamic deny rules: a YAML file that other programs write, a watcher *)
(* that reloads it when the directory reports a change and the directory    *)
(* has been quiet for a moment, and an endpoint that reloads it at once.    *)
(* Requests are matched against the last rule set that was committed.       *)
(*                                                                          *)
(* Files are written by renaming a new one into place or by writing them    *)
(* over, which leaves a torn file for a while.  The writers are external.   *)
(***************************************************************************)
EXTENDS Naturals, Sequences

CONSTANTS
    Rule,          \* rules that may be in the file, for this product
    Expires(_),    \* when a rule expires; Never if it is permanent
    Never,
    Admin,         \* callers of the reload endpoint
    Writes,        \* how files are written: "rename", "spoil", "over", "remove"
    MaxChanges,    \* changes of the file
    MaxCount,      \* where the counters stop
    MaxTime

\* What the constants must be; the module that instantiates this one assumes it.
ConstantsAssumption ==
    {MaxChanges, MaxCount, MaxTime, Never} \cup {Expires(r) : r \in Rule} \subseteq Nat

VARIABLES
    file,        \* what the path names
    version,     \* number of changes so far
    writing,     \* the rules a writer has still to write, NotWriting if there is none
    dir,         \* the directory of the file exists
    attached,    \* what is watched: "nothing" yet, "dir", or an "ancestor"
    events,      \* events the loop has not taken
    pending,     \* reason of the reload the timer will start, "" if there is none
    load,        \* what the loop and the callers have read and not committed
    snapshot,    \* the rule set requests are matched against, and its version
    counted,     \* reloads: the watcher's counter and the server's
    kept,        \* rules of every whole version of the file so far
    torn,        \* somebody wrote the file over, or removed it
    stale,       \* an older version was committed over a newer one
    missed,      \* the file changed before the watcher was attached
    now

vars == <<file, version, writing, dir, attached, events, pending, load, snapshot,
          counted, kept, torn, stale, missed, now>>

Absent == [kind |-> "absent", rules |-> {}]
Bad == [kind |-> "bad", rules |-> {}]
Good(S) == [kind |-> "good", rules |-> S]
NotWriting == Bad
Loop == "loop"
NoLoad == [busy |-> FALSE, file |-> Absent, version |-> 0]

Live(S) == {r \in S : Expires(r) = Never \/ Expires(r) >= now}

\* LoadFile: a missing file has no rules, and rules that have expired are left out.
LoadFile(f) == [f EXCEPT !.rules = Live(@)]

Reading == [busy |-> TRUE, file |-> LoadFile(file), version |-> version]

Init ==
    /\ dir \in BOOLEAN
    /\ file \in {Absent} \cup (IF dir THEN {Bad} \cup {Good(S) : S \in SUBSET Rule} ELSE {})
    /\ now = 0 /\ version = 0 /\ writing = NotWriting
    /\ attached = "nothing" /\ events = <<>> /\ pending = ""
    /\ load = [a \in Admin \cup {Loop} |-> NoLoad]
    /\ snapshot = [rules |-> LoadFile(file).rules, version |-> 0]
    /\ counted = [watcher |-> 0, server |-> 0]
    /\ kept = snapshot.rules
    /\ torn = FALSE /\ stale = FALSE /\ missed = FALSE
-----------------------------------------------------------------------------
(* The file *)

\* The directory's watch reports the change; an ancestor's has another path.
Notify(reason) ==
    /\ events' = IF attached = "dir" THEN Append(events, reason) ELSE events
    /\ missed' = (missed \/ attached # "dir")
    /\ UNCHANGED <<attached, pending, load, snapshot, counted, stale, now>>

Change(f, reason) ==
    /\ version < MaxChanges
    /\ file' = f /\ version' = version + 1
    /\ dir' = TRUE
    /\ Notify(reason)

Renamed(S) ==
    /\ "rename" \in Writes /\ writing = NotWriting
    /\ Change(Good(S), "created")
    /\ kept' = kept \cap S
    /\ UNCHANGED <<writing, torn>>

Spoiled ==
    /\ "spoil" \in Writes /\ writing = NotWriting
    /\ Change(Bad, "created")
    /\ UNCHANGED <<writing, kept, torn>>

\* A file that is written over is empty first, then may have some of the rules.
Truncated(S) ==
    /\ "over" \in Writes /\ writing = NotWriting /\ version + 1 < MaxChanges
    /\ Change(Bad, "modified")
    /\ writing' = Good(S) /\ torn' = TRUE
    /\ UNCHANGED kept
Written(S) ==
    /\ writing # NotWriting /\ S \subseteq writing.rules
    /\ S # writing.rules => version + 1 < MaxChanges
    /\ Change(Good(S), "modified")
    /\ writing' = IF S = writing.rules THEN NotWriting ELSE writing
    /\ kept' = IF S = writing.rules THEN kept \cap S ELSE kept
    /\ UNCHANGED torn

Removed ==
    /\ "remove" \in Writes /\ writing = NotWriting /\ file # Absent
    /\ Change(Absent, "removed")
    /\ torn' = TRUE /\ kept' = {}
    /\ UNCHANGED writing

Tick ==
    /\ now < MaxTime /\ now' = now + 1
    /\ UNCHANGED <<file, version, writing, dir, attached, events, pending, load, snapshot,
                   counted, kept, torn, stale, missed>>
-----------------------------------------------------------------------------
(* The watcher *)

disk == <<file, version, writing, dir, kept, torn, missed, now>>

\* Start: the directory, or the nearest ancestor there is.
Start ==
    /\ attached = "nothing"
    /\ attached' = IF dir THEN "dir" ELSE "ancestor"
    /\ UNCHANGED <<disk, events, pending, load, snapshot, counted, stale>>

KeepTimer(reason) == pending' = IF pending = "" THEN reason ELSE pending

ResetTimer(reason) == pending' = reason

\* loop: an event sets the timer again, and the reason with it.
TakeEvent ==
    /\ ~load[Loop].busy /\ events # <<>>
    /\ events' = Tail(events)
    /\ ResetTimer(Head(events))
    /\ UNCHANGED <<disk, attached, load, snapshot, counted, stale>>

Commit(rules, v) ==
    /\ snapshot' = [rules |-> rules, version |-> v]
    /\ stale' = (stale \/ v < snapshot.version)

UpTo(n) == IF n > MaxCount THEN MaxCount ELSE n
Count(own, callback) ==
    counted' = [watcher |-> UpTo(counted.watcher + own),
                server |-> UpTo(counted.server + callback)]

\* loop: the timer.  A file that was reported removed is not looked at.
Fire ==
    /\ pending # "" /\ ~load[Loop].busy
    /\ pending' = ""
    /\ IF pending = "removed"
         THEN /\ Commit({}, version)
              /\ Count(1, 1)
              /\ UNCHANGED load
         ELSE /\ load' = [load EXCEPT ![Loop] = Reading]
              /\ UNCHANGED <<snapshot, counted, stale>>
    /\ UNCHANGED <<disk, attached, events>>

ParseErrorCommitted(v) == Commit({}, v) /\ UNCHANGED counted

\* A file that cannot be used leaves the rules as they are.
ParseError(v) == UNCHANGED <<snapshot, stale, counted>>

\* The second half of a reload: what was read is committed and counted; the
\* callback counts for the server, and the endpoint does so once more.
Finish(a, own, callback) ==
    LET read == load[a]
    IN  /\ read.busy
        /\ load' = [load EXCEPT ![a] = NoLoad]
        /\ IF read.file.kind = "bad"
             THEN ParseError(read.version)
             ELSE /\ Commit(read.file.rules, read.version)
                  /\ Count(own, callback)
        /\ UNCHANGED <<disk, attached, events, pending>>

\* applyReload
ApplyReload == Finish(Loop, 1, 1)

\* ReloadNow, called by POST /admin/dynamic-denies/reload.
Post(a) ==
    /\ ~load[a].busy /\ attached # "nothing"
    /\ load' = [load EXCEPT ![a] = Reading]
    /\ UNCHANGED <<disk, attached, events, pending, snapshot, counted, stale>>
ReloadNow(a) == Finish(a, 0, 2)

Next ==
    \/ \E S \in SUBSET Rule : Renamed(S) \/ Truncated(S) \/ Written(S)
    \/ Spoiled \/ Removed \/ Tick
    \/ Start \/ TakeEvent \/ Fire \/ ApplyReload
    \/ \E a \in Admin : Post(a) \/ ReloadNow(a)

\* The loop's goroutine runs and its timer elapses.
Fairness == WF_vars(Start) /\ WF_vars(TakeEvent) /\ WF_vars(Fire) /\ WF_vars(ApplyReload)

Spec == Init /\ [][Next]_vars /\ Fairness

\* Nothing is enabled, in an instance that does not look at this module.
Rest ==
    /\ dir = FALSE /\ file = Absent /\ now = 0 /\ version = 0 /\ writing = NotWriting
    /\ attached = "nothing" /\ events = <<>> /\ pending = ""
    /\ load = [a \in Admin \cup {Loop} |-> NoLoad]
    /\ snapshot = [rules |-> {}, version |-> 0]
    /\ counted = [watcher |-> 0, server |-> 0] /\ kept = {}
    /\ torn = FALSE /\ stale = FALSE /\ missed = FALSE
-----------------------------------------------------------------------------
TypeOK ==
    /\ file.kind \in {"absent", "bad", "good"} /\ file.rules \subseteq Rule
    /\ version \in 0 .. MaxChanges /\ snapshot.version \in 0 .. version
    /\ snapshot.rules \subseteq Rule
    /\ attached \in {"nothing", "dir", "ancestor"}
    /\ pending \in {"", "created", "modified", "removed"}
    /\ attached # "dir" => events = <<>> /\ pending = ""

\* A rule that is in every whole version of the file is enforced, whatever
\* broken versions come between them, as long as the file is renamed into place
\* and does not go (watcher.go:24, loader.go:16).
KeptRulesHold == ~torn => Live(kept) \subseteq snapshot.rules

\* Once the file is left alone, the rules in force are those in the file, or the
\* file cannot be used; unless the watcher was attached too late, or a reload
\* that had read an older version was the last to commit (watcher.go:316, 340).
Agrees == file.kind = "bad" \/ Live(snapshot.rules) = Live(file.rules)
CatchesUp == <>[](missed \/ stale \/ Agrees)

\* Without the second reservation: the loop and the endpoint (watcher.go:254).
CatchesUpAlways == <>[](missed \/ Agrees)

\* "walk up to an existing ancestor rather than failing (the operator may be
\* about to create both)" (watcher.go:228).
CatchesUpOnCreation == <>[]((attached = "dir" /\ missed) \/ stale \/ Agrees)

\* "fail-CLOSED" (watcher.go:24): the same rule under any way to write the file.
KeptRulesAlwaysHold == Live(kept) \subseteq snapshot.rules

\* "totalDynamicDenyReloads / totalDynamicDenyParseErrors mirror the watcher's
\* internal counters" (proxy/proxy.go:1711).
CountersMirror == counted.watcher = counted.server
=============================================================================
