---------------------------- MODULE ProcessProofs ----------------------------
(***************************************************************************)
(* What a clean stop leaves behind, which archives the check of the disk   *)
(* gives up, and which bursts are told of, for any requests, watchers and  *)
(* settings; what a running proxy reloads: its profile (ProfileReload, for *)
(* operators who act one at a time) and its dynamic denies (DynamicDeny),  *)
(* for any names, callers, rules and bounds.                               *)
(***************************************************************************)
EXTENDS MCReloads, MCProcess, SequenceTheorems, FiniteSetTheorems, TLAPS
-----------------------------------------------------------------------------
(* DiskPressure.  The candidates are the archives that were there when the   *)
(* directory was read: whatever has been made since is newer, and whatever   *)
(* is older has been removed or cannot be.                                   *)

DiskTypes ==
    /\ made \in Nat
    /\ archives \subseteq 1 .. made
    /\ cands \subseteq 1 .. made

\* Nothing that could be removed is older than what is still to be.
OldestFirst ==
    at = "drop" => \A b \in archives \ (Stuck \cup cands), a \in cands : ~(b < a)

\* What the last look has said still holds, if nobody has touched the disk since.
LookHolds == full /\ ~moved => ~(P!Used < set.warn)

Measured ==
    /\ DiskTypes
    /\ full => at = "drop"
    /\ OldestFirst
    /\ LookHolds
    /\ DropsAreMeasured

\* The invariant holds in any initial state.
LEMMA MeasuredInit == P!Init => Measured
BY DEF P!Init, Measured, DiskTypes, OldestFirst, LookHolds, DropsAreMeasured, P!DropsAreMeasured

\* A removal takes the oldest candidate, and no archive outside the candidates is
\* older.
LEMMA DropMeasured == Measured /\ P!Drop => Measured'
<1> SUFFICES ASSUME Measured, P!Drop PROVE Measured'
  OBVIOUS
<1> USE DEF Measured, DiskTypes
<1>1. PICK a \in cands :
          /\ \A b \in cands : a <= b
          /\ cands' = cands \ {a} /\ full' = FALSE
          /\ IF a \in Stuck \/ a \notin archives
             THEN UNCHANGED <<archives, needless, unordered>>
             ELSE /\ archives' = archives \ {a}
                  /\ needless' = (needless \/ (P!Used < set.warn /\ ~moved))
                  /\ unordered' = (unordered \/ \E b \in archives \ Stuck : b < a)
  BY DEF P!Drop
<1>2. at = "drop" /\ full /\ made' = made /\ at' = at
  BY DEF P!Drop
<1>3. DiskTypes' /\ (full => at = "drop")' /\ LookHolds'
  BY <1>1, <1>2 DEF LookHolds
<1>4. archives' \subseteq archives /\ (a \in archives' => a \in Stuck)
  BY <1>1
<1>5. OldestFirst'
  BY <1>1, <1>2, <1>4 DEF OldestFirst
<1>6. ASSUME NEW b \in archives \ Stuck, b < a PROVE FALSE
  <2>1. b \in Int /\ a \in Int
    BY <1>1
  <2>2. b \notin cands
    BY <1>1, <1>6, <2>1
  <2> QED BY <1>1, <1>2, <1>6, <2>2 DEF OldestFirst
<1>7. DropsAreMeasured'
  BY <1>1, <1>2, <1>6 DEF LookHolds, DropsAreMeasured, P!DropsAreMeasured
<1> QED BY <1>3, <1>5, <1>7

\* The disk is rotated, purged and filled by others while the check removes:
\* what they make is newer, what they take is gone.
LEMMA DiskMeasured ==
    Measured /\ (P!Others \/ P!Rotate \/ P!Purge \/ P!ServeRequest) => Measured'
<1> SUFFICES ASSUME Measured, P!Others \/ P!Rotate \/ P!Purge \/ P!ServeRequest
             PROVE  Measured'
  OBVIOUS
<1> USE DEF Measured, DiskTypes, DropsAreMeasured, P!DropsAreMeasured, P!check
<1>1. CASE P!Others
  BY <1>1 DEF P!Others, OldestFirst, LookHolds
<1>2. CASE P!Rotate
  <2>1. made' = made + 1 /\ archives' = archives \cup {made'} /\ cands' = cands /\ moved'
    BY <1>2 DEF P!Rotate
  <2>2. DiskTypes'
    BY <2>1
  <2>3. OldestFirst'
    BY <1>2, <2>1 DEF P!Rotate, OldestFirst
  <2> QED BY <1>2, <2>2, <2>3 DEF P!Rotate, LookHolds
<1>3. CASE P!Purge
  <2>1. archives' \subseteq archives /\ moved'
    BY <1>3 DEF P!Purge
  <2>2. UNCHANGED <<at, cands, full, made, needless, unordered>>
    BY <1>3 DEF P!Purge
  <2>3. OldestFirst'
    BY <2>1, <2>2 DEF OldestFirst
  <2> QED BY <2>1, <2>2, <2>3 DEF LookHolds
<1>4. CASE P!ServeRequest
  <2>1. ~full
    BY <1>4 DEF P!ServeRequest
  <2> QED BY <1>4, <2>1 DEF P!ServeRequest, OldestFirst, LookHolds
<1> QED BY <1>1, <1>2, <1>3, <1>4

\* The rest of the check, and a step that changes nothing.
LEMMA CheckMeasured ==
    Measured /\ (P!Observe \/ P!List \/ P!LookAgain \/ UNCHANGED P!vars) => Measured'
<1> SUFFICES ASSUME Measured, P!Observe \/ P!List \/ P!LookAgain \/ UNCHANGED P!vars
             PROVE  Measured'
  OBVIOUS
<1> USE DEF Measured, DiskTypes, DropsAreMeasured, P!DropsAreMeasured, P!disk
<1>1. CASE P!Observe
  <2>1. ~full /\ at' # "drop"
    BY <1>1 DEF P!Observe
  <2> QED BY <1>1, <2>1 DEF P!Observe, OldestFirst, LookHolds
<1>2. CASE P!List
  BY <1>2 DEF P!List, OldestFirst, LookHolds
<1>3. CASE P!LookAgain
  <2>1. P!Used' = P!Used
    BY <1>3 DEF P!LookAgain, P!Used
  <2>2. full' => ~(P!Used < set.warn) /\ at' = "drop" /\ cands' = cands
    BY <1>3 DEF P!LookAgain
  <2>3. cands' = cands \/ cands' = {}
    BY <1>3 DEF P!LookAgain
  <2>4. UNCHANGED <<archives, made, set, needless, unordered>>
    BY <1>3 DEF P!LookAgain
  <2>5. OldestFirst'
    BY <1>3, <2>3, <2>4 DEF P!LookAgain, OldestFirst
  <2> QED BY <2>1, <2>2, <2>3, <2>4, <2>5 DEF LookHolds
<1>4. CASE UNCHANGED P!vars
  BY <1>4 DEF P!vars, P!Used, OldestFirst, LookHolds
<1> QED BY <1>1, <1>2, <1>3, <1>4

\* A check removes the oldest archive it can, and each because the look before it
\* had found usage at the warning threshold, whatever rotation, `kbounce logs purge`
\* and other programs do to the disk meanwhile.
THEOREM ArchivesAreGivenUpSparingly == P!Spec => []DropsAreMeasured
<1>1. Measured /\ [P!Next]_(P!vars) => Measured'
  BY DropMeasured, DiskMeasured, CheckMeasured DEF P!Next, P!Check
<1>2. Measured => DropsAreMeasured
  BY DEF Measured
<1> QED BY MeasuredInit, <1>1, <1>2, PTL DEF P!Spec
-----------------------------------------------------------------------------
(* ProxyLife.  A clean stop is the end of a row of facts, each of which the   *)
(* next one rests on: everything is open while somebody may use it; when the  *)
(* listener closes the watchers have been joined; when the requests have been *)
(* waited for no new one is taken.                                            *)

Opening == {"flags", "store", "upstream", "profiles", "tls", "audit", "disk", "anomaly", "launch"}
Waiting == {"select", "stopping", "joining", "draining", "awaiting"}
Over    == {"unwind", "returned"}

RequestStates ==
    [kind  : Kind \cup {"none"},
     at    : {"none", "handling", "prompt", "forward", "stream", "dial", "pipe", "answered"},
     ended : SUBSET {"toUpstream", "toClient"}]

LifeTypes ==
    /\ cmd \in Opening \cup Waiting \cup Over
    /\ watching \in [Watcher -> {"off", "idle", "busy", "ended"}]
    /\ req \in [Request -> RequestStates]

\* Before the server's goroutine runs nobody uses anything.
NobodyYet ==
    cmd \in Opening =>
        /\ serve = "none" /\ ~listened
        /\ \A w \in Watcher : watching[w] = "off"
        /\ \A r \in Request : req[r].at = "none"

\* The store is opened before the audit channels, and both before the server runs.
OpenInTime ==
    /\ cmd \in {"upstream", "profiles", "tls", "audit"} => "store" \in open
    /\ cmd \in {"disk", "anomaly", "launch"} \cup Waiting => open = {"store", "audit"}
    /\ open \subseteq {"store", "audit"}

\* What has been done when the command is past the watchers, and past the requests.
ShutInOrder ==
    /\ cmd \in {"draining", "awaiting"} => shutting
    /\ shutting /\ listened => L!Joined
    /\ listened => serve \in {"serving", "closed"}
    /\ cmd = "awaiting" => L!InFlight = {}

UsedWhileOpen == cmd \notin Over => touched = {}

EndedClean ==
    result = "stopped" =>
        /\ cmd \in Over /\ shutting /\ L!InFlight = {}
        /\ listened => touched = {}

Clean ==
    /\ LifeTypes /\ NobodyYet /\ OpenInTime /\ ShutInOrder /\ UsedWhileOpen /\ EndedClean

\* The invariant holds in any initial state.
LEMMA CleanInit == L!Init => Clean
BY DEF L!Init, Clean, LifeTypes, NobodyYet, OpenInTime, ShutInOrder, UsedWhileOpen,
       EndedClean, RequestStates, L!InFlight, L!Joined, Opening, Waiting, Over, L!Hijacked

\* The checks before the server starts.
LEMMA StartClean == Clean /\ (L!Start \/ L!Launch) => Clean'
<1> SUFFICES ASSUME Clean, L!Start \/ L!Launch PROVE Clean'
  OBVIOUS
<1> USE DEF Clean, LifeTypes, NobodyYet, OpenInTime, ShutInOrder, UsedWhileOpen, EndedClean,
            Opening, Waiting, Over, L!server, L!helpers, L!clock
<1>1. CASE L!Launch
  BY <1>1 DEF L!Launch, L!Joined, L!InFlight
<1>2. CASE L!Start
  <2>1. UNCHANGED <<serve, listened, shutting, watching, req, touched>>
    BY <1>2 DEF L!Start
  <2>2. cmd \in DOMAIN L!StageFaults /\ cmd \in Opening
    BY <1>2 DEF L!Start, L!StageFaults
  <2>3. CASE L!Fails(cmd)
    <3>1. cmd' = "unwind" /\ result' = "refused" /\ open' = open
      BY <1>2, <2>3 DEF L!Start, L!Return
    <3> QED BY <2>1, <2>2, <3>1 DEF L!Joined
  <2>4. CASE ~L!Fails(cmd)
    <3>1. /\ cmd' = L!NextStage[cmd] /\ open' = open \cup ({cmd} \cap {"store", "audit"})
          /\ result' = result
      BY <1>2, <2>4 DEF L!Start
    <3>2. cmd' \in Opening /\ cmd # "launch"
      BY <2>2, <3>1 DEF L!NextStage, L!StageFaults
    <3>3. OpenInTime'
      <4>1. \/ cmd \in {"flags", "store"} /\ cmd' \in {"store", "upstream"}
            \/ cmd \in {"upstream", "profiles", "tls"} /\ cmd' \in {"profiles", "tls", "audit"}
            \/ cmd \in {"audit", "disk", "anomaly"} /\ cmd' \in {"disk", "anomaly", "launch"}
        BY <2>2, <3>1 DEF L!NextStage, L!StageFaults
      <4>2. cmd' = "upstream" => cmd = "store"
        BY <2>2, <3>1 DEF L!NextStage, L!StageFaults
      <4>3. cmd' = "disk" => cmd = "audit"
        BY <2>2, <3>1 DEF L!NextStage, L!StageFaults
      <4>4. cmd' \notin Waiting /\ open \subseteq open' /\ open' \subseteq {"store", "audit"}
        BY <3>1, <3>2
      <4>5. cmd = "store" => "store" \in open'
        BY <3>1
      <4>6. cmd = "audit" => "audit" \in open' /\ "store" \in open'
        BY <3>1
      <4> QED BY <4>1, <4>2, <4>3, <4>4, <4>5, <4>6
    <3>4. NobodyYet' /\ ShutInOrder' /\ UsedWhileOpen' /\ EndedClean' /\ LifeTypes'
      BY <2>1, <2>2, <3>1, <3>2 DEF L!Joined
    <3> QED BY <3>3, <3>4
  <2> QED BY <2>3, <2>4
<1> QED BY <1>1, <1>2

\* The command waits, stops what it has started and returns.
LEMMA CommandClean ==
    Clean /\ (L!SelectSignal \/ L!SelectError \/ L!StopWatchers \/ L!Join \/ L!Drained
              \/ L!DrainTimeout \/ L!Await \/ L!Unwind \/ L!Signal \/ L!Timeout)
        => Clean'
<1> SUFFICES ASSUME Clean,
                    L!SelectSignal \/ L!SelectError \/ L!StopWatchers \/ L!Join \/ L!Drained
                    \/ L!DrainTimeout \/ L!Await \/ L!Unwind \/ L!Signal \/ L!Timeout
             PROVE  Clean'
  OBVIOUS
<1> USE DEF Clean, LifeTypes, NobodyYet, OpenInTime, ShutInOrder, UsedWhileOpen, EndedClean,
            Opening, Waiting, Over, L!command, L!server, L!helpers, L!clock, L!Return
<1>1. UNCHANGED <<serve, listened, watching, req, touched>>
  BY DEF L!SelectSignal, L!SelectError, L!StopWatchers, L!Join, L!Drained, L!DrainTimeout,
         L!Await, L!Unwind, L!Signal, L!Timeout
<1>2. L!Joined' = L!Joined /\ L!InFlight' = L!InFlight
  BY <1>1 DEF L!Joined, L!InFlight
<1>3. CASE L!Join
  BY <1>1, <1>2, <1>3 DEF L!Join
<1>4. CASE L!SelectSignal \/ L!SelectError \/ L!StopWatchers
  BY <1>1, <1>2, <1>4 DEF L!SelectSignal, L!SelectError, L!StopWatchers
<1>5. CASE L!Drained \/ L!DrainTimeout
  BY <1>1, <1>2, <1>5 DEF L!Drained, L!DrainTimeout
<1>6. CASE L!Await
  BY <1>1, <1>2, <1>6 DEF L!Await
<1>7. CASE L!Unwind
  BY <1>1, <1>2, <1>7 DEF L!Unwind
<1>8. CASE L!Signal \/ L!Timeout
  BY <1>1, <1>2, <1>8 DEF L!Signal, L!Timeout
<1> QED BY <1>3, <1>4, <1>5, <1>6, <1>7, <1>8

\* The goroutine of the server: watchers start before it listens, and it does not
\* listen once it has been told to shut down.
LEMMA ServerClean == Clean /\ L!ServerSteps => Clean'
<1> SUFFICES ASSUME Clean, L!ServerSteps PROVE Clean'
  OBVIOUS
<1> USE DEF Clean, LifeTypes, NobodyYet, OpenInTime, ShutInOrder, UsedWhileOpen, EndedClean,
            Opening, Waiting, Over, L!command, L!helpers, L!clock
<1>1. UNCHANGED <<cmd, result, open, shutting, req, touched>>
  BY DEF L!ServerSteps, L!StartWatchers, L!Bind, L!ServeReturns
<1>2. L!InFlight' = L!InFlight
  BY <1>1 DEF L!InFlight
<1>3. CASE L!StartWatchers
  BY <1>1, <1>2, <1>3 DEF L!StartWatchers
<1>4. CASE L!Bind
  <2>1. watching' = watching /\ serve = "binding" /\ (shutting => ~listened')
    BY <1>4 DEF L!Bind
  <2>2. L!Joined' = L!Joined
    BY <2>1 DEF L!Joined
  <2>3. listened' => serve' = "serving"
    BY <1>4 DEF L!Bind
  <2> QED BY <1>1, <1>2, <2>1, <2>2, <2>3
<1>5. CASE L!ServeReturns
  BY <1>1, <1>2, <1>5 DEF L!ServeReturns, L!Joined
<1> QED BY <1>3, <1>4, <1>5 DEF L!ServerSteps

\* A watcher that has been joined does not tick again, and until then what it uses
\* is open.
LEMMA WatcherClean ==
    ASSUME NEW w \in Watcher, Clean, L!Tick(w) \/ L!TickDone(w) \/ L!WatcherEnds(w)
    PROVE  Clean'
<1> USE DEF Clean, LifeTypes, NobodyYet, OpenInTime, ShutInOrder, UsedWhileOpen, EndedClean,
            Opening, Waiting, Over, L!command, L!server, L!clock
<1>1. UNCHANGED <<cmd, result, open, serve, listened, shutting, req>>
  BY DEF L!Tick, L!TickDone, L!WatcherEnds
<1>2. L!InFlight' = L!InFlight
  BY <1>1 DEF L!InFlight
<1>3. watching[w] \in {"idle", "busy"} /\ ~L!Joined /\ cmd \notin Opening
  BY DEF L!Tick, L!TickDone, L!WatcherEnds, L!Joined
<1>4. watching' \in [Watcher -> {"off", "idle", "busy", "ended"}]
  BY DEF L!Tick, L!TickDone, L!WatcherEnds
<1>5. cmd \notin Over => touched' = touched
  BY <1>1, <1>3 DEF L!Tick, L!TickDone, L!WatcherEnds, L!Touch
<1>6. ~(shutting /\ listened)
  BY <1>3
<1> QED BY <1>1, <1>2, <1>3, <1>4, <1>5, <1>6

\* A request that moves is in flight, or its connection has been taken over and
\* stays so or ends; a new one is taken only by a server not told to shut down.
LEMMA RequestMoves ==
    ASSUME NEW r \in Request, Clean, L!RequestSteps(r)
    PROVE  /\ req' \in [Request -> RequestStates]
           /\ L!InFlight = {} /\ shutting => L!InFlight' = {}
           /\ cmd \notin Opening
           /\ cmd \notin Over => touched' = touched
           /\ L!InFlight = {} => touched' = touched
<1> USE DEF Clean, LifeTypes, NobodyYet, OpenInTime
<1>1. req[r] \in RequestStates
  OBVIOUS
<1>2. ASSUME NEW from, NEW to \in {"forward", "stream", "dial", "pipe", "answered", "prompt"},
             L!Move(r, from, to), from # "none"
      PROVE  /\ req[r].at = from /\ cmd \notin Opening
             /\ req' \in [Request -> RequestStates]
             /\ L!InFlight = {} => from \in {"answered", "dial", "pipe"}
             /\ L!InFlight = {} /\ to \in {"answered", "pipe"} => L!InFlight' = {}
  <2>1. req' = [req EXCEPT ![r].at = to] /\ req[r].at = from
    BY <1>2 DEF L!Move
  <2>2. cmd \notin Opening
    BY <1>2, <2>1
  <2>3. req' \in [Request -> RequestStates]
    BY <1>1, <2>1 DEF RequestStates
  <2>4. L!InFlight = {} => from \in {"answered", "dial", "pipe"}
    BY <1>2, <2>1 DEF L!InFlight, L!Hijacked
  <2>5. L!InFlight = {} /\ to \in {"answered", "pipe"} => L!InFlight' = {}
    BY <1>1, <2>1 DEF L!InFlight, L!Hijacked, RequestStates
  <2> QED BY <2>1, <2>2, <2>3, <2>4, <2>5
<1>3. ASSUME NEW who, L!Touch(who), cmd \notin Opening PROVE cmd \notin Over => touched' = touched
  BY <1>3 DEF L!Touch, Waiting, Over
<1>4. CASE L!Accept(r)
  <2>1. PICK k \in Kind : req' = [req EXCEPT ![r].kind = k, ![r].at = "handling"]
    BY <1>4 DEF L!Accept
  <2>2. req' \in [Request -> RequestStates]
    BY <1>1, <2>1 DEF RequestStates
  <2>3. ~shutting /\ touched' = touched /\ serve = "serving"
    BY <1>4 DEF L!Accept
  <2> QED BY <2>2, <2>3
<1>5. CASE L!Refuse(r) \/ L!Probe(r)
  <2>1. L!Move(r, "handling", "answered") /\ (touched' = touched \/ L!Touch(r))
    BY <1>5 DEF L!Refuse, L!Probe
  <2> QED BY <1>2, <1>3, <2>1
<1>6. CASE L!Deny(r) \/ L!Allow(r)
  <2>1. PICK to \in {"answered", "prompt", "forward", "stream", "dial"} :
            L!Move(r, "handling", to)
    BY <1>6 DEF L!Deny, L!Allow, L!Where
  <2>2. L!Touch(r)
    BY <1>6 DEF L!Deny, L!Allow
  <2> QED BY <1>2, <1>3, <2>1, <2>2
<1>7. CASE L!PromptEnds(r)
  <2>1. PICK to \in {"answered", "forward"} : L!Move(r, "prompt", to)
    BY <1>7 DEF L!PromptEnds
  <2>2. L!Touch(r)
    BY <1>7 DEF L!PromptEnds
  <2> QED BY <1>2, <1>3, <2>1, <2>2
<1>8. CASE L!Forwarded(r) \/ L!StreamEnds(r)
  <2>1. PICK from \in {"forward", "stream"} : L!Move(r, from, "answered")
    BY <1>8 DEF L!Forwarded, L!StreamEnds
  <2>2. touched' = touched
    BY <1>8 DEF L!Forwarded, L!StreamEnds
  <2> QED BY <1>2, <2>1, <2>2
<1>9. CASE L!Dialled(r) \/ L!PipeEnds(r)
  <2>1. PICK from \in {"dial", "pipe"}, to \in {"answered", "pipe"} : L!Move(r, from, to)
    BY <1>9 DEF L!Dialled, L!PipeEnds
  <2>2. touched' = touched
    BY <1>9 DEF L!Dialled, L!PipeEnds
  <2> QED BY <1>2, <2>1, <2>2
<1>10. ASSUME NEW d \in {"toUpstream", "toClient"}, L!DirectionEnds(r, d)
       PROVE  /\ req' \in [Request -> RequestStates]
              /\ L!InFlight = {} /\ shutting => L!InFlight' = {}
              /\ cmd \notin Opening
              /\ touched' = touched
  <2>1. req' = [req EXCEPT ![r].ended = @ \cup {d}] /\ req[r].at = "pipe" /\ touched' = touched
    BY <1>10 DEF L!DirectionEnds
  <2>2. req' \in [Request -> RequestStates]
    BY <1>1, <2>1 DEF RequestStates
  <2>3. \A x \in Request : req'[x].at = req[x].at
    BY <1>1, <2>1 DEF RequestStates
  <2>4. L!InFlight' = L!InFlight
    BY <2>3 DEF L!InFlight
  <2> QED BY <2>1, <2>2, <2>4
<1> QED BY <1>4, <1>5, <1>6, <1>7, <1>8, <1>9, <1>10 DEF L!RequestSteps

LEMMA RequestClean ==
    ASSUME NEW r \in Request, Clean, L!RequestSteps(r)
    PROVE  Clean'
<1> USE DEF Clean, LifeTypes, NobodyYet, OpenInTime, ShutInOrder, UsedWhileOpen, EndedClean
<1>1. UNCHANGED <<cmd, result, open, serve, listened, shutting, watching>>
  BY DEF L!RequestSteps, L!Accept, L!Refuse, L!Probe, L!Deny, L!Allow, L!PromptEnds, L!Forwarded,
         L!StreamEnds, L!Dialled, L!PipeEnds, L!DirectionEnds, L!Move, L!command, L!server,
         L!helpers
<1>2. L!Joined' = L!Joined
  BY <1>1 DEF L!Joined
<1> QED BY <1>1, <1>2, RequestMoves

\* A process that says it stopped, and had come to listen, left nothing behind: no
\* watcher runs, nobody has used the store or the audit channels after they were
\* closed, and no request is without its answer but those whose connection was
\* taken over; whenever the signal came, and whoever was doing what.
THEOREM NothingIsLeftBehind == L!Spec => []CleanStop
<1>1. Clean /\ [L!Next]_(L!vars) => Clean'
  <2> SUFFICES ASSUME Clean, [L!Next]_(L!vars) PROVE Clean'
    OBVIOUS
  <2>1. CASE L!CommandSteps \/ L!Signal \/ L!Timeout
    BY <2>1, StartClean, CommandClean DEF L!CommandSteps
  <2>2. CASE L!ServerSteps
    BY <2>2, ServerClean
  <2>3. ASSUME NEW w \in Watcher, L!Tick(w) \/ L!TickDone(w) \/ L!WatcherEnds(w) PROVE Clean'
    BY <2>3, WatcherClean
  <2>4. ASSUME NEW r \in Request, L!RequestSteps(r) PROVE Clean'
    BY <2>4, RequestClean
  <2>5. CASE UNCHANGED L!vars
    BY <2>5 DEF L!vars, Clean, LifeTypes, NobodyYet, OpenInTime, ShutInOrder, UsedWhileOpen,
                EndedClean, L!Joined, L!InFlight
  <2> QED BY <2>1, <2>2, <2>3, <2>4, <2>5 DEF L!Next
<1>2. Clean => CleanStop
  BY DEF Clean, ShutInOrder, EndedClean, CleanStop, L!CleanStop
<1> QED BY CleanInit, <1>1, <1>2, PTL DEF L!Spec
-----------------------------------------------------------------------------
(* The profile: types *)

\* What is waiting or being applied is a request, and what a call puts is a version.
Proper ==
    /\ TypeOK
    /\ ~signal.applied => signal.id # 0
    /\ watcher.at # "idle" => watcher.signal.id # 0
    /\ \A h \in Admins : admin[h].at = "set" => admin[h].loaded # Missing

LEMMA FirstValues ==
    /\ MaxSignals \in Nat /\ MaxEdits \in Nat /\ MaxRestarts \in Nat
    /\ Startup \in Names /\ 0 \in Versions /\ 1 \in Versions /\ Versions \subseteq Nat
    /\ NoSignal \in Signals /\ Asleep \in Watchers /\ NoCall \in Calls
    /\ NoSignal.applied /\ Asleep.at = "idle" /\ NoCall.at = "idle"
  <1>1. /\ MaxSignals \in Nat /\ MaxEdits \in Nat /\ MaxRestarts \in Nat
        /\ Startup \in Names
    BY MCReloadsAssumption DEF ConstantsAssumption
  <1>2. 0 \in Versions /\ 1 \in Versions /\ Versions \subseteq Nat
    BY <1>1 DEF Versions
  <1>3. NoSignal \in Signals /\ NoSignal.applied
    BY <1>1 DEF NoSignal, Signals
  <1>4. Asleep \in Watchers /\ Asleep.at = "idle"
    BY <1>1, <1>2, <1>3 DEF Asleep, Watchers, Profiles, Missing
  <1>5. NoCall \in Calls /\ NoCall.at = "idle"
    BY <1>1, <1>2 DEF NoCall, Calls
  <1> QED
    BY <1>1, <1>2, <1>3, <1>4, <1>5

LEMMA InitProper == Init => Proper
  <1> SUFFICES ASSUME Init PROVE Proper
    OBVIOUS
  <1>1. active \in Profiles
    BY FirstValues DEF Init, Profiles, Missing
  <1>2. TypeOK
    BY <1>1, FirstValues DEF Init, TypeOK
  <1> QED
    BY <1>2, FirstValues DEF Init, Proper

\* Each step keeps the types: of the file and the setters,
LEMMA EditsAreProper ==
    ASSUME Proper, NEW n \in Names, EditFile(n)
    PROVE  Proper'
  <1>1. /\ edits \in Nat /\ edits < MaxEdits /\ edits' = edits + 1
        /\ UNCHANGED <<signal, sent, active, watcher, setter, admin, tried, restarts>>
    BY FirstValues DEF Proper, TypeOK, EditFile
  <1>2. PICK v \in {Missing, edits + 2} : file' = [file EXCEPT ![n] = v]
    BY DEF EditFile
  <1>3. v \in Versions /\ edits' \in 0 .. MaxEdits
    BY <1>1, FirstValues DEF Versions, Missing
  <1> QED
    BY <1>1, <1>2, <1>3 DEF Proper, TypeOK

LEMMA SettersAreProper ==
    ASSUME Proper, NEW c \in Setters,
           (\E n \in Names : ValidateName(c, n)) \/ SetSignal(c)
    PROVE  Proper'
  <1>1. CASE \E n \in Names : ValidateName(c, n)
    BY <1>1 DEF ValidateName, Proper, TypeOK
  <1>2. CASE SetSignal(c)
    <2>1. PICK n \in setter[c] : signal' = [name |-> n, id |-> sent + 1, applied |-> FALSE]
      BY <1>2 DEF SetSignal
    <2>2. /\ n \in Names /\ sent + 1 \in 0 .. MaxSignals /\ sent + 1 # 0
          /\ sent' = sent + 1 /\ setter' = [setter EXCEPT ![c] = {}]
          /\ UNCHANGED <<file, edits, active, watcher, admin, tried, restarts>>
      BY <1>2, FirstValues DEF SetSignal, Proper, TypeOK
    <2>3. signal' \in Signals /\ signal'.id # 0
      BY <2>1, <2>2 DEF Signals
    <2> QED
      BY <2>2, <2>3 DEF Proper, TypeOK
  <1> QED
    BY <1>1, <1>2

\* of the watcher,
LEMMA WatcherIsProper ==
    ASSUME Proper, GetSignal \/ LoadSignalled \/ SetSignalled \/ AckSignal \/ AckFails
    PROVE  Proper'
  <1>1. CASE GetSignal
    <2>1. watcher' \in Watchers /\ watcher'.signal = signal /\ signal.id # 0
      BY <1>1 DEF GetSignal, Proper, TypeOK, Watchers
    <2> QED
      BY <1>1, <2>1 DEF GetSignal, Proper, TypeOK
  <1>2. CASE LoadSignalled
    <2> DEFINE n == watcher.signal.name
    <2>1. /\ n \in Names /\ file[n] \in Versions /\ watcher.signal.id # 0
          /\ watcher.signal.id \in 1 .. MaxSignals
      BY <1>2, FirstValues DEF LoadSignalled, Proper, TypeOK, Watchers, Signals
    <2>2. watcher' \in Watchers /\ watcher'.signal = watcher.signal
      <3>1. CASE file[n] = Missing
        BY <1>2, <3>1 DEF LoadSignalled, Proper, TypeOK, Watchers
      <3>2. CASE file[n] # Missing
        <4>1. [name |-> n, version |-> file[n]] \in Profiles
          BY <2>1, <3>2 DEF Profiles
        <4>2. watcher' = [watcher EXCEPT !.at = "set",
                                         !.loaded = [name |-> n, version |-> file[n]]]
          BY <1>2, <3>2 DEF LoadSignalled
        <4> HIDE DEF n
        <4> QED
          BY <4>1, <4>2 DEF Proper, TypeOK, Watchers
      <3> QED
        BY <3>1, <3>2
    <2> HIDE DEF n
    <2> QED
      BY <1>2, <2>1, <2>2 DEF LoadSignalled, Proper, TypeOK
  <1>3. CASE SetSignalled
    BY <1>3 DEF SetSignalled, Proper, TypeOK, Watchers
  <1>4. CASE AckSignal
    <2>1. signal' \in Signals /\ signal'.applied
      BY <1>4 DEF AckSignal, Proper, TypeOK, Signals
    <2> QED
      BY <1>4, <2>1, FirstValues DEF AckSignal, Proper, TypeOK
  <1>5. CASE AckFails
    BY <1>5, FirstValues DEF AckFails, Proper, TypeOK
  <1> QED
    BY <1>1, <1>2, <1>3, <1>4, <1>5

\* of the calls, and of a proxy that starts over.
LEMMA CallsAreProper ==
    ASSUME Proper, NEW h \in Admins,
           ReadActive(h) \/ LoadActive(h) \/ SetActive(h) \/ Respond(h)
    PROVE  Proper'
  <1>1. CASE ReadActive(h)
    <2> DEFINE call == [at |-> "load", name |-> active.name,
                        floor |-> file[active.name], loaded |-> 0]
    <2>1. call \in Calls /\ call.at = "load"
      BY FirstValues DEF Proper, TypeOK, Profiles, Calls
    <2>2. /\ admin' = [admin EXCEPT ![h] = call]
          /\ UNCHANGED <<file, edits, signal, sent, active, watcher, setter, tried,
                         restarts>>
      BY <1>1 DEF ReadActive
    <2> HIDE DEF call
    <2> QED
      BY <2>1, <2>2 DEF Proper, TypeOK
  <1>2. CASE LoadActive(h)
    <2>1. PICK v : v = file[admin[h].name]
      OBVIOUS
    <2>2. v \in Versions
      BY <2>1 DEF Proper, TypeOK, Calls
    <2>3. /\ admin' = [admin EXCEPT ![h] = IF v = Missing THEN NoCall
                                           ELSE [@ EXCEPT !.at = "set", !.loaded = v]]
          /\ UNCHANGED <<file, edits, signal, sent, active, watcher, setter, tried,
                         restarts>>
      BY <1>2, <2>1 DEF LoadActive
    <2>4. /\ admin'[h] \in Calls /\ (admin'[h].at = "set" => admin'[h].loaded # Missing)
          /\ admin' = [admin EXCEPT ![h] = admin'[h]]
      BY <2>2, <2>3, FirstValues DEF Proper, TypeOK, Calls
    <2> QED
      BY <2>3, <2>4 DEF Proper, TypeOK
  <1>3. CASE SetActive(h)
    <2>1. active' \in Profiles
      BY <1>3 DEF SetActive, Proper, TypeOK, Calls, Profiles
    <2> QED
      BY <1>3, <2>1 DEF SetActive, Proper, TypeOK, Calls
  <1>4. CASE Respond(h)
    BY <1>4, FirstValues DEF Respond, Proper, TypeOK
  <1> QED
    BY <1>1, <1>2, <1>3, <1>4

LEMMA RestartIsProper ==
    ASSUME Proper, Restart
    PROVE  Proper'
  <1>1. active' \in Profiles
    BY FirstValues DEF Restart, Proper, TypeOK, Profiles
  <1>2. restarts' \in 0 .. MaxRestarts
    BY FirstValues DEF Restart, Proper, TypeOK
  <1> QED
    BY <1>1, <1>2, FirstValues DEF Restart, Proper, TypeOK

LEMMA StepIsProper == Proper /\ [Next]_vars => Proper'
  <1> SUFFICES ASSUME Proper, [Next]_vars PROVE Proper'
    OBVIOUS
  <1>1. CASE UNCHANGED vars
    BY <1>1 DEF vars, Proper, TypeOK
  <1>2. CASE Next
    BY <1>2, EditsAreProper, SettersAreProper, WatcherIsProper, CallsAreProper,
       RestartIsProper DEF Next
  <1> QED
    BY <1>1, <1>2

\* Every variable keeps its type, whoever switches and reloads at a time, and nothing
\* else than a version in the file is put in force.
THEOREM TypeCorrect == Spec => []TypeOK
  <1>1. Proper => TypeOK
    BY DEF Proper
  <1> QED
    BY <1>1, InitProper, StepIsProper, PTL DEF Spec

-----------------------------------------------------------------------------
(* The profile: what is true of the signal, the watcher and the calls *)

Calm == Next /\ OneAtATime

\* A request the watcher is at is the one in the row, not yet applied; from the
\* moment it was loaded on it counts as tried.
Signalled ==
    /\ signal.id = sent
    /\ watcher.at # "idle" => ~signal.applied /\ watcher.signal = signal
    /\ watcher.at \in {"set", "ack"} => signal.id \in tried
    /\ watcher.at = "set" => watcher.loaded.name = signal.name
    /\ AppliedWasTried

\* As long as nothing was edited every profile can be loaded, so that an ack follows
\* a switch that was made.
Named ==
    /\ edits = 0 => \A n \in Names : file[n] = 1
    /\ watcher.at = "ack" /\ restarts = 0 /\ edits = 0 => active.name = signal.name
    /\ LastSwitchHolds

\* A reload call is alone, keeps the name of the active profile, and what it finds in
\* the file is no older than what was there when it came.
Called(h) ==
    admin[h].at # "idle" =>
        /\ Settled
        /\ \A k \in Admins : admin[k].at # "idle" => k = h
        /\ admin[h].name = active.name
        /\ admin[h].floor <= edits + 1
        /\ admin[h].at = "load" =>
             file[admin[h].name] = Missing \/ file[admin[h].name] >= admin[h].floor
        /\ admin[h].at = "set" => admin[h].loaded >= admin[h].floor
        /\ admin[h].at = "ok" => active.version >= admin[h].floor

\* No version is ahead of the edits.
Dated == \A n \in Names : file[n] <= edits + 1

InStep == Signalled /\ Named /\ Dated /\ \A h \in Admins : Called(h)

Inv == Proper /\ InStep

LEMMA InitInv == Init => Inv
  <1> SUFFICES ASSUME Init PROVE Inv
    OBVIOUS
  <1>1. Signalled /\ Named /\ Dated
    BY DEF Init, Signalled, Named, Dated, Asleep, NoSignal, AppliedWasTried, LastSwitchHolds
  <1>2. \A h \in Admins : Called(h)
    BY DEF Init, Called, NoCall
  <1> QED
    BY <1>1, <1>2, InitProper DEF Inv, InStep

\* Facts about the types, unfolded.
LEMMA Unfolded ==
    ASSUME TypeOK
    PROVE  /\ edits \in Nat /\ sent \in Nat /\ restarts \in Nat
           /\ file \in [Names -> Nat]
           /\ signal.name \in Names /\ signal.id \in Nat /\ signal.applied \in BOOLEAN
           /\ active.name \in Names /\ active.version \in Nat
           /\ watcher.loaded.name \in Names /\ watcher.loaded.version \in Nat
           /\ \A h \in Admins : /\ admin[h].name \in Names
                                /\ admin[h].floor \in Nat /\ admin[h].loaded \in Nat
  <1>1. /\ edits \in Nat /\ sent \in Nat /\ restarts \in Nat
        /\ file \in [Names -> Nat]
    <2>1. edits \in Nat /\ sent \in Nat /\ restarts \in Nat
      BY FirstValues DEF TypeOK
    <2>2. file \in [Names -> Nat]
      BY FirstValues DEF TypeOK
    <2> QED
      BY <2>1, <2>2
  <1>2. signal.name \in Names /\ signal.id \in Nat /\ signal.applied \in BOOLEAN
    BY FirstValues DEF TypeOK, Signals
  <1>3. active.name \in Names /\ active.version \in Nat
    BY FirstValues DEF TypeOK, Profiles
  <1>4. watcher.loaded.name \in Names /\ watcher.loaded.version \in Nat
    BY FirstValues DEF TypeOK, Watchers, Profiles
  <1>5. ASSUME NEW h \in Admins
        PROVE  admin[h].name \in Names /\ admin[h].floor \in Nat /\ admin[h].loaded \in Nat
    BY FirstValues DEF TypeOK, Calls
  <1> QED
    BY <1>1, <1>2, <1>3, <1>4, <1>5

LEMMA EditKeeps ==
    ASSUME Inv, NEW n \in Names, EditFile(n)
    PROVE  InStep'
  <1>1. /\ edits \in Nat /\ edits' = edits + 1 /\ file \in [Names -> Nat]
        /\ UNCHANGED <<signal, sent, active, watcher, setter, admin, tried, restarts>>
    BY Unfolded DEF Inv, Proper, EditFile
  <1>2. PICK v \in {Missing, edits + 2} : file' = [file EXCEPT ![n] = v]
    BY DEF EditFile
  <1>3. Signalled'
    BY <1>1 DEF Inv, InStep, Signalled, AppliedWasTried
  <1>4. Named'
    BY <1>1 DEF Inv, InStep, Named, LastSwitchHolds
  <1>5. Dated'
    BY <1>1, <1>2 DEF Inv, InStep, Dated, Missing
  <1>6. ASSUME NEW h \in Admins PROVE Called(h)'
    <2>1. /\ Called(h) /\ admin[h].name \in Names /\ admin[h].floor \in Nat
      BY Unfolded DEF Inv, InStep, Proper
    <2> QED
      BY <1>1, <1>2, <2>1 DEF Called, Settled, Missing
  <1> QED
    BY <1>3, <1>4, <1>5, <1>6 DEF InStep

\* Steps of the setters before the signal.
LEMMA ValidateKeeps ==
    ASSUME Inv, NEW c \in Setters, NEW n \in Names, ValidateName(c, n)
    PROVE  InStep'
  <1>1. /\ UNCHANGED <<file, edits, signal, sent, active, watcher, admin, tried, restarts>>
        /\ setter' = [setter EXCEPT ![c] = {n}]
    BY DEF ValidateName
  <1> QED
    BY <1>1 DEF Inv, InStep, Signalled, Named, Dated, Called, Settled, AppliedWasTried,
                      LastSwitchHolds

LEMMA SetSignalKeeps ==
    ASSUME Inv, NEW c \in Setters, SetSignal(c), OneAtATime
    PROVE  InStep'
  <1>1. /\ sent \in Nat /\ sent' = sent + 1 /\ sent < MaxSignals
        /\ UNCHANGED <<file, edits, active, watcher, admin, tried, restarts>>
        /\ setter' = [setter EXCEPT ![c] = {}]
    BY Unfolded DEF Inv, Proper, SetSignal
  <1>2. PICK n \in setter[c] : signal' = [name |-> n, id |-> sent + 1, applied |-> FALSE]
    BY DEF SetSignal
  <1>3. watcher.at = "idle" /\ \A h \in Admins : admin[h].at = "idle"
    BY <1>1 DEF OneAtATime, Settled, Calling
  <1>4. Signalled' /\ Named' /\ Dated'
    BY <1>1, <1>2, <1>3
       DEF Inv, InStep, Signalled, Named, Dated, AppliedWasTried, LastSwitchHolds
  <1>5. \A h \in Admins : Called(h)'
    BY <1>1, <1>3 DEF Called
  <1> QED
    BY <1>4, <1>5 DEF InStep

-----------------------------------------------------------------------------
(* The profile: the watcher *)

\* Only the watcher moves; no reload call is under way while it is not idle.
LEMMA GetSignalKeeps ==
    ASSUME Inv, GetSignal
    PROVE  InStep'
  <1>1. /\ UNCHANGED <<file, edits, signal, sent, active, setter, admin, tried, restarts>>
        /\ watcher.at = "idle" /\ ~signal.applied
        /\ watcher' = [watcher EXCEPT !.at = "load", !.signal = signal]
    BY DEF GetSignal
  <1>2. watcher'.at = "load" /\ watcher'.signal = signal
    BY <1>1 DEF Inv, Proper, TypeOK, Watchers
  <1>3. Signalled' /\ Named' /\ Dated'
    BY <1>1, <1>2 DEF Inv, InStep, Signalled, Named, Dated, AppliedWasTried, LastSwitchHolds
  <1>4. \A h \in Admins : Called(h)'
    BY <1>1 DEF Inv, InStep, Called, Settled
  <1> QED
    BY <1>3, <1>4 DEF InStep

LEMMA LoadSignalledKeeps ==
    ASSUME Inv, LoadSignalled
    PROVE  InStep'
  <1> DEFINE n == watcher.signal.name
  <1>1. /\ UNCHANGED <<file, edits, signal, sent, active, setter, admin, restarts>>
        /\ watcher.at = "load" /\ tried' = tried \cup {watcher.signal.id}
        /\ watcher' = IF file[n] = Missing
                      THEN [watcher EXCEPT !.at = "ack"]
                      ELSE [watcher EXCEPT !.at = "set",
                                           !.loaded = [name |-> n, version |-> file[n]]]
    BY DEF LoadSignalled
  <1>2. watcher.signal = signal /\ ~signal.applied /\ signal.id = sent /\ sent # 0
    BY <1>1 DEF Inv, InStep, Proper, Signalled
  <1>3. n \in Names
    BY <1>2, Unfolded DEF Inv, Proper
  <1>4. /\ watcher'.at \in {"set", "ack"} /\ watcher'.signal = signal
        /\ watcher'.at = "set" => watcher'.loaded.name = signal.name
        /\ watcher'.at = "ack" => file[n] = Missing
    BY <1>1, <1>2 DEF Inv, Proper, TypeOK, Watchers
  <1>5. Signalled'
    BY <1>1, <1>2, <1>4 DEF Inv, InStep, Signalled, AppliedWasTried
  <1>6. Named'
    BY <1>1, <1>2, <1>3, <1>4 DEF Inv, InStep, Named, LastSwitchHolds, Missing
  <1>7. Dated' /\ \A h \in Admins : Called(h)'
    BY <1>1 DEF Inv, InStep, Dated, Called, Settled
  <1> QED
    BY <1>5, <1>6, <1>7 DEF InStep

LEMMA SetSignalledKeeps ==
    ASSUME Inv, SetSignalled
    PROVE  InStep'
  <1>1. /\ UNCHANGED <<file, edits, signal, sent, setter, admin, tried, restarts>>
        /\ watcher.at = "set" /\ active' = watcher.loaded
        /\ watcher' = [watcher EXCEPT !.at = "ack"]
    BY DEF SetSignalled
  <1>2. /\ watcher'.at = "ack" /\ watcher'.signal = watcher.signal
        /\ active'.name = signal.name
    BY <1>1 DEF Inv, InStep, Proper, TypeOK, Watchers, Signalled
  <1>3. Signalled' /\ Named' /\ Dated'
    BY <1>1, <1>2 DEF Inv, InStep, Signalled, Named, Dated, AppliedWasTried, LastSwitchHolds
  <1>4. \A h \in Admins : Called(h)'
    BY <1>1 DEF Inv, InStep, Called, Settled
  <1> QED
    BY <1>3, <1>4 DEF InStep

LEMMA AckSignalKeeps ==
    ASSUME Inv, AckSignal
    PROVE  InStep'
  <1>1. /\ UNCHANGED <<file, edits, sent, active, setter, admin, tried, restarts>>
        /\ watcher.at = "ack" /\ watcher' = Asleep
        /\ signal' = [signal EXCEPT !.applied = TRUE]
    BY DEF AckSignal
  <1>2. /\ signal' = [name |-> signal.name, id |-> signal.id, applied |-> TRUE]
        /\ Asleep.at = "idle"
    BY <1>1 DEF Inv, Proper, TypeOK, Signals, Asleep
  <1>3. Signalled' /\ Named' /\ Dated'
    BY <1>1, <1>2 DEF Inv, InStep, Signalled, Named, Dated, AppliedWasTried, LastSwitchHolds
  <1>4. \A h \in Admins : Called(h)'
    BY <1>1 DEF Inv, InStep, Called, Settled
  <1> QED
    BY <1>3, <1>4 DEF InStep

LEMMA AckFailsKeeps ==
    ASSUME Inv, AckFails
    PROVE  InStep'
  <1>1. /\ UNCHANGED <<file, edits, signal, sent, active, setter, admin, tried, restarts>>
        /\ watcher.at = "ack" /\ watcher' = Asleep /\ Asleep.at = "idle"
    BY DEF AckFails, Asleep
  <1>2. Signalled' /\ Named' /\ Dated'
    BY <1>1 DEF Inv, InStep, Signalled, Named, Dated, AppliedWasTried, LastSwitchHolds
  <1>3. \A h \in Admins : Called(h)'
    BY <1>1 DEF Inv, InStep, Called, Settled
  <1> QED
    BY <1>2, <1>3 DEF InStep

-----------------------------------------------------------------------------
(* The profile: the reload calls, and a restart *)

LEMMA ReadActiveKeeps ==
    ASSUME Inv, NEW h \in Admins, ReadActive(h), OneAtATime
    PROVE  InStep'
  <1> DEFINE call == [at |-> "load", name |-> active.name,
                      floor |-> file[active.name], loaded |-> 0]
  <1>1. /\ UNCHANGED <<file, edits, signal, sent, active, watcher, setter, tried, restarts>>
        /\ admin[h].at = "idle" /\ admin' = [admin EXCEPT ![h] = call]
    BY DEF ReadActive
  <1>2. /\ call.at = "load" /\ call.name = active.name
        /\ call.floor = file[active.name] /\ call.loaded = 0
    OBVIOUS
  <1>3. active.name \in Names
    BY Unfolded DEF Inv, Proper
  <1>4. admin'[h] = call /\ \A k \in Admins \ {h} : admin'[k] = admin[k]
    BY <1>1 DEF Inv, Proper, TypeOK
  <1> HIDE DEF call
  <1>5. Settled /\ \A k \in Admins : admin[k].at = "idle"
    BY <1>1, <1>2, <1>4 DEF OneAtATime, Comes, Calling
  <1>6. Signalled' /\ Named' /\ Dated'
    BY <1>1 DEF Inv, InStep, Signalled, Named, Dated, AppliedWasTried, LastSwitchHolds
  <1>7. ASSUME NEW k \in Admins PROVE Called(k)'
    <2>1. file[active.name] <= edits + 1 /\ file[active.name] \in Nat
      BY <1>3, Unfolded DEF Inv, InStep, Proper, Dated
    <2> QED
      BY <1>1, <1>2, <1>4, <1>5, <2>1 DEF Called, Settled
  <1> QED
    BY <1>6, <1>7 DEF InStep

\* A call that goes on or ends leaves everything but itself, and SetActive the
\* version of the profile.
LEMMA LoadActiveKeeps ==
    ASSUME Inv, NEW h \in Admins, LoadActive(h)
    PROVE  InStep'
  <1> DEFINE v == file[admin[h].name]
  <1>1. /\ UNCHANGED <<file, edits, signal, sent, active, watcher, setter, tried, restarts>>
        /\ admin[h].at = "load"
        /\ admin' = [admin EXCEPT ![h] = IF v = Missing THEN NoCall
                                         ELSE [@ EXCEPT !.at = "set", !.loaded = v]]
    BY DEF LoadActive
  <1>2. \A k \in Admins \ {h} : admin'[k] = admin[k]
    BY <1>1 DEF Inv, Proper, TypeOK, Calls
  <1>3. \/ admin'[h] = NoCall
        \/ /\ v # Missing
           /\ admin'[h] = [at |-> "set", name |-> admin[h].name, floor |-> admin[h].floor,
                           loaded |-> v]
    BY <1>1 DEF Inv, Proper, TypeOK, Calls
  <1>4. Signalled' /\ Named' /\ Dated'
    BY <1>1 DEF Inv, InStep, Signalled, Named, Dated, AppliedWasTried, LastSwitchHolds
  <1>5. ASSUME NEW k \in Admins PROVE Called(k)'
    <2>1. Called(h) /\ Called(k)
      BY DEF Inv, InStep
    <2> QED
      BY <1>1, <1>2, <1>3, <2>1 DEF Called, Settled, NoCall
  <1> QED
    BY <1>4, <1>5 DEF InStep

LEMMA SetActiveKeeps ==
    ASSUME Inv, NEW h \in Admins, SetActive(h)
    PROVE  InStep'
  <1>1. /\ UNCHANGED <<file, edits, signal, sent, watcher, setter, tried, restarts>>
        /\ admin[h].at = "set" /\ admin' = [admin EXCEPT ![h].at = "ok"]
        /\ active' = [name |-> admin[h].name, version |-> admin[h].loaded]
    BY DEF SetActive
  <1>2. /\ \A k \in Admins \ {h} : admin'[k] = admin[k]
        /\ admin'[h] = [at |-> "ok", name |-> admin[h].name, floor |-> admin[h].floor,
                        loaded |-> admin[h].loaded]
    BY <1>1 DEF Inv, Proper, TypeOK, Calls
  <1>3. Called(h) /\ admin[h].loaded >= admin[h].floor /\ active'.name = active.name
        /\ watcher.at = "idle"
    BY <1>1 DEF Inv, InStep, Called, Settled
  <1>4. Signalled' /\ Named' /\ Dated'
    BY <1>1, <1>3 DEF Inv, InStep, Signalled, Named, Dated, AppliedWasTried, LastSwitchHolds
  <1>5. ASSUME NEW k \in Admins PROVE Called(k)'
    <2>1. Called(k)
      BY DEF Inv, InStep
    <2> QED
      BY <1>1, <1>2, <1>3, <2>1 DEF Called, Settled
  <1> QED
    BY <1>4, <1>5 DEF InStep

LEMMA RespondKeeps ==
    ASSUME Inv, NEW h \in Admins, Respond(h)
    PROVE  InStep'
  <1>1. /\ UNCHANGED <<file, edits, signal, sent, active, watcher, setter, tried, restarts>>
        /\ admin' = [admin EXCEPT ![h] = NoCall]
    BY DEF Respond
  <1>2. admin'[h] = NoCall /\ \A k \in Admins \ {h} : admin'[k] = admin[k]
    BY <1>1 DEF Inv, Proper, TypeOK
  <1>3. Signalled' /\ Named' /\ Dated'
    BY <1>1 DEF Inv, InStep, Signalled, Named, Dated, AppliedWasTried, LastSwitchHolds
  <1>4. ASSUME NEW k \in Admins PROVE Called(k)'
    <2>1. Called(k)
      BY DEF Inv, InStep
    <2> QED
      BY <1>1, <1>2, <2>1 DEF Called, Settled, NoCall
  <1> QED
    BY <1>3, <1>4 DEF InStep

\* The proxy starts over; nothing is claimed of the last switch any more.
LEMMA RestartKeeps ==
    ASSUME Inv, Restart
    PROVE  InStep'
  <1>1. /\ UNCHANGED <<file, edits, signal, sent, setter, tried>>
        /\ restarts < MaxRestarts /\ restarts' = restarts + 1 /\ restarts \in Nat
        /\ file[Startup] # Missing
        /\ active' = [name |-> Startup, version |-> file[Startup]]
        /\ watcher' = Asleep /\ admin' = [h \in Admins |-> NoCall]
    BY Unfolded DEF Inv, Proper, Restart
  <1>2. Asleep.at = "idle" /\ NoCall.at = "idle"
    BY DEF Asleep, NoCall
  <1>3. Signalled' /\ Named' /\ Dated'
    BY <1>1, <1>2 DEF Inv, InStep, Signalled, Named, Dated, AppliedWasTried, LastSwitchHolds
  <1>4. \A h \in Admins : Called(h)'
    BY <1>1, <1>2 DEF Called
  <1> QED
    BY <1>3, <1>4 DEF InStep

-----------------------------------------------------------------------------
(* The profile: the theorems *)

LEMMA StepInv == Inv /\ [Calm]_vars => Inv'
  <1> SUFFICES ASSUME Inv, [Calm]_vars PROVE Inv'
    OBVIOUS
  <1>1. Proper'
    BY StepIsProper DEF Inv, Calm
  <1>2. InStep'
    <2>1. CASE UNCHANGED vars
      BY <2>1 DEF vars, Inv, InStep, Signalled, Named, Dated, Called, Settled,
                  AppliedWasTried, LastSwitchHolds
    <2>2. ASSUME NEW n \in Names, EditFile(n) PROVE InStep'
      BY <2>2, EditKeeps
    <2>3. ASSUME NEW c \in Setters, NEW n \in Names, ValidateName(c, n) PROVE InStep'
      BY <2>3, ValidateKeeps
    <2>4. ASSUME NEW c \in Setters, SetSignal(c), OneAtATime PROVE InStep'
      BY <2>4, SetSignalKeeps
    <2>5. ASSUME GetSignal \/ LoadSignalled \/ SetSignalled \/ AckSignal \/ AckFails
          PROVE  InStep'
      BY <2>5, GetSignalKeeps, LoadSignalledKeeps, SetSignalledKeeps, AckSignalKeeps,
         AckFailsKeeps
    <2>6. ASSUME NEW h \in Admins, ReadActive(h), OneAtATime PROVE InStep'
      BY <2>6, ReadActiveKeeps
    <2>7. ASSUME NEW h \in Admins, LoadActive(h) \/ SetActive(h) \/ Respond(h)
          PROVE  InStep'
      BY <2>7, LoadActiveKeeps, SetActiveKeeps, RespondKeeps
    <2>8. ASSUME Restart PROVE InStep'
      BY <2>8, RestartKeeps
    <2> QED
      BY <2>1, <2>2, <2>3, <2>4, <2>5, <2>6, <2>7, <2>8 DEF Calm, Next
  <1> QED
    BY <1>1, <1>2 DEF Inv

\* Whatever operators do one after the other, with the file edited, acks failing and
\* the proxy restarting in between, the signal row, the watcher, the reload calls and
\* the active profile stay in step (pollProfileReloadOnce, profileReloadHandler).
THEOREM SwapInvariance == CalmSpec => []Inv
  <1>1. Init => Inv
    BY InitInv
  <1>2. Inv /\ [Calm]_vars => Inv'
    BY StepInv
  <1> QED
    BY <1>1, <1>2, PTL DEF CalmSpec, Calm

\* For operators who act one at a time: no switch is marked applied that the watcher
\* has not seen, the last one decides, and a reload that answers 200 put in force at
\* least what was in the file when it came.
THEOREM SwitchesAreKept == CalmSpec => []SwitchesTakeHold
  <1>1. Inv => SwitchesTakeHold
    <2> SUFFICES ASSUME Inv PROVE SwitchesTakeHold
      OBVIOUS
    <2>1. AppliedWasTried /\ LastSwitchHolds
      BY DEF Inv, InStep, Signalled, Named
    <2>2. ReloadTakesEffect
      BY DEF Inv, InStep, Called, ReloadTakesEffect
    <2> QED
      BY <2>1, <2>2 DEF SwitchesTakeHold
  <1> QED
    BY <1>1, SwapInvariance, PTL

-----------------------------------------------------------------------------
(* The denies *)

Files == [kind : {"absent", "bad", "good"}, rules : SUBSET Rule]
Loads == [busy : BOOLEAN, file : Files, version : Nat]
Loaders == DenyAdmins \cup {D!Loop}

DenyTypes ==
    /\ denyFile \in Files
    /\ now \in Nat /\ version \in Nat
    /\ load \in [Loaders -> Loads]
    /\ torn \in BOOLEAN

\* The rules that have not expired at a time.
LiveAt(S, t) == {r \in S : Expires(r) = Never \/ Expires(r) >= t}

NoWriter == [kind |-> "bad", rules |-> {}]

\* A file that is only replaced whole has the rules that are kept, and so has what was
\* read of it: rules only expire and only leave what is kept in the meantime.
Holding ==
    /\ writing = NoWriter
    /\ events \in Seq({"created"}) /\ pending \in {"", "created"}
    /\ kept \subseteq Rule
    /\ denyFile.kind # "bad" => kept \subseteq denyFile.rules
    /\ \A a \in Loaders : load[a].busy /\ load[a].file.kind # "bad" =>
         LiveAt(kept, now) \subseteq load[a].file.rules
    /\ LiveAt(kept, now) \subseteq snapshot.rules

DenyInv == DenyTypes /\ (~torn => Holding)

LEMMA Shrinks ==
    \A S, T, t, u : S \subseteq T /\ T \subseteq Rule /\ t \in Nat /\ u \in Nat /\ t <= u =>
        LiveAt(S, u) \subseteq LiveAt(T, t)
  <1>1. \A r \in Rule : Expires(r) \in Nat
    BY MCReloadsAssumption DEF D!ConstantsAssumption
  <1> QED
    BY <1>1 DEF LiveAt

LEMMA DenyInit == D!Init => DenyInv
  <1> SUFFICES ASSUME D!Init PROVE DenyInv
    OBVIOUS
  <1>1. /\ denyFile \in {D!Absent, D!Bad} \cup {D!Good(S) : S \in SUBSET Rule}
        /\ now = 0 /\ version = 0 /\ writing = NoWriter
        /\ events = <<>> /\ pending = "" /\ torn = FALSE
        /\ load = [a \in Loaders |-> D!NoLoad]
        /\ kept = snapshot.rules
        /\ snapshot = [rules |-> D!LoadFile(denyFile).rules, version |-> 0]
    BY DEF D!Init, Loaders, NoWriter, D!NotWriting, D!Bad
  <1>2. denyFile \in Files
    <2>1. D!Absent \in Files /\ D!Bad \in Files /\ \A S \in SUBSET Rule : D!Good(S) \in Files
      BY DEF D!Absent, D!Bad, D!Good, Files
    <2> QED
      BY <1>1, <2>1
  <1>3. DenyTypes
    <2>1. D!NoLoad \in Loads
      BY DEF D!NoLoad, D!Absent, Loads, Files
    <2> QED
      BY <1>1, <1>2, <2>1 DEF DenyTypes
  <1>4. kept = LiveAt(denyFile.rules, now)
    BY <1>1, <1>2 DEF D!LoadFile, D!Live, LiveAt, Files
  <1>5. Holding
    <2>1. kept \subseteq denyFile.rules /\ kept \subseteq Rule
      BY <1>2, <1>4 DEF LiveAt, Files
    <2>2. LiveAt(kept, now) \subseteq snapshot.rules
      BY <1>1 DEF LiveAt
    <2>3. \A a \in Loaders : load[a].busy = FALSE
      BY <1>1 DEF D!NoLoad
    <2>4. events \in Seq({"created"})
      BY <1>1, EmptySeq
    <2> QED
      BY <1>1, <2>1, <2>2, <2>3, <2>4 DEF Holding
  <1> QED
    BY <1>3, <1>5 DEF DenyInv

\* The ways to change the file: renaming another into place,
LEMMA RenamedKeeps ==
    ASSUME DenyInv, NEW S \in SUBSET Rule, D!Renamed(S)
    PROVE  DenyInv'
  <1>1. /\ denyFile' = D!Good(S) /\ version' = version + 1 /\ kept' = kept \cap S
        /\ events' = IF attached = "dir" THEN Append(events, "created") ELSE events
        /\ UNCHANGED <<pending, load, snapshot, now, writing, torn>>
    BY DEF D!Renamed, D!Change, D!Notify
  <1>2. DenyTypes'
    BY <1>1 DEF DenyInv, DenyTypes, Files, D!Good
  <1>3. ASSUME ~torn PROVE Holding'
    <2>1. Holding /\ now \in Nat
      BY <1>3 DEF DenyInv, DenyTypes
    <2>2. LiveAt(kept', now') \subseteq LiveAt(kept, now)
      BY <1>1, <2>1 DEF Holding, LiveAt
    <2>3. events' \in Seq({"created"})
      BY <1>1, <2>1, AppendProperties DEF Holding
    <2>4. kept' \subseteq Rule /\ kept' \subseteq denyFile'.rules
      BY <1>1, <2>1 DEF Holding, D!Good
    <2> QED
      BY <1>1, <2>1, <2>2, <2>3, <2>4 DEF Holding
  <1> QED
    BY <1>1, <1>2, <1>3 DEF DenyInv

\* one that cannot be used,
LEMMA SpoiledKeeps ==
    ASSUME DenyInv, D!Spoiled
    PROVE  DenyInv'
  <1>1. /\ denyFile' = D!Bad /\ version' = version + 1
        /\ events' = IF attached = "dir" THEN Append(events, "created") ELSE events
        /\ UNCHANGED <<pending, load, snapshot, now, writing, torn, kept>>
    BY DEF D!Spoiled, D!Change, D!Notify
  <1>2. DenyTypes'
    BY <1>1 DEF DenyInv, DenyTypes, Files, D!Bad
  <1>3. ASSUME ~torn PROVE Holding'
    <2>1. Holding
      BY <1>3 DEF DenyInv
    <2>2. events' \in Seq({"created"})
      BY <1>1, <2>1, AppendProperties DEF Holding
    <2>3. denyFile'.kind = "bad"
      BY <1>1 DEF D!Bad
    <2> QED
      BY <1>1, <2>1, <2>2, <2>3 DEF Holding
  <1> QED
    BY <1>1, <1>2, <1>3 DEF DenyInv

\* and those after which nothing is claimed: writing it over and removing it.
LEMMA TornKeeps ==
    ASSUME DenyInv, NEW S \in SUBSET Rule,
           D!Truncated(S) \/ D!Written(S) \/ D!Removed
    PROVE  DenyInv'
  <1>1. /\ denyFile' \in {D!Bad, D!Good(S), D!Absent} /\ version' = version + 1
        /\ UNCHANGED <<load, now>> /\ torn' \in {torn, TRUE}
    BY DEF D!Truncated, D!Written, D!Removed, D!Change, D!Notify
  <1>2. DenyTypes'
    <2>1. D!Absent \in Files /\ D!Bad \in Files /\ D!Good(S) \in Files
      BY DEF D!Absent, D!Bad, D!Good, Files
    <2>2. denyFile' \in Files /\ torn' \in BOOLEAN
      BY <1>1, <2>1 DEF DenyInv, DenyTypes
    <2> QED
      BY <1>1, <2>2 DEF DenyInv, DenyTypes
  <1>3. torn'
    <2>1. CASE D!Written(S)
      BY <2>1 DEF D!Written, D!NotWriting, D!Bad, NoWriter, DenyInv, DenyTypes, Holding
    <2>2. CASE D!Truncated(S) \/ D!Removed
      BY <2>2 DEF D!Truncated, D!Removed
    <2> QED
      BY <2>1, <2>2
  <1> QED
    BY <1>2, <1>3 DEF DenyInv

LEMMA TickKeeps ==
    ASSUME DenyInv, D!Tick
    PROVE  DenyInv'
  <1>1. /\ now' = now + 1
        /\ UNCHANGED <<denyFile, version, writing, events, pending, load, snapshot, kept,
                       torn>>
    BY DEF D!Tick
  <1>2. DenyTypes'
    BY <1>1 DEF DenyInv, DenyTypes
  <1>3. ASSUME ~torn PROVE Holding'
    <2>1. Holding /\ now \in Nat
      BY <1>3 DEF DenyInv, DenyTypes
    <2>2. LiveAt(kept, now') \subseteq LiveAt(kept, now)
      <3>1. now + 1 \in Nat /\ now <= now + 1
        BY <2>1
      <3>2. kept \subseteq kept /\ kept \subseteq Rule
        BY <2>1 DEF Holding
      <3>3. LiveAt(kept, now + 1) \subseteq LiveAt(kept, now)
        BY <2>1, <3>1, <3>2, Shrinks
      <3> QED
        BY <1>1, <3>3
    <2> QED
      BY <1>1, <2>1, <2>2 DEF Holding
  <1> QED
    BY <1>1, <1>2, <1>3 DEF DenyInv

-----------------------------------------------------------------------------
(* The denies: what is read and committed *)

LEMMA StartKeeps ==
    ASSUME DenyInv, D!Start
    PROVE  DenyInv'
  BY DEF D!Start, D!disk, DenyInv, DenyTypes, Holding

LEMMA TakeEventKeeps ==
    ASSUME DenyInv, D!TakeEvent
    PROVE  DenyInv'
  <1>1. /\ events # <<>> /\ events' = Tail(events) /\ pending' = Head(events)
        /\ UNCHANGED <<denyFile, version, writing, kept, torn, now, load, snapshot>>
    BY DEF D!TakeEvent, D!ResetTimer, D!disk
  <1>2. ASSUME ~torn PROVE Holding'
    <2>1. Holding
      BY <1>2 DEF DenyInv
    <2>2. Tail(events) \in Seq({"created"}) /\ Head(events) \in {"created"}
      BY <1>1, <2>1, HeadTailProperties DEF Holding
    <2> QED
      BY <1>1, <2>1, <2>2 DEF Holding
  <1> QED
    BY <1>1, <1>2 DEF DenyInv, DenyTypes

\* What is read of the file holds the rules that are kept and have not expired.
LEMMA ReadingHolds ==
    ASSUME DenyInv
    PROVE  /\ D!Reading \in Loads
           /\ ~torn /\ D!Reading.file.kind # "bad" =>
                LiveAt(kept, now) \subseteq D!Reading.file.rules
  <1>1. /\ D!Reading.busy = TRUE /\ D!Reading.version = version
        /\ D!Reading.file = [denyFile EXCEPT !.rules = D!Live(denyFile.rules)]
        /\ D!Reading = [busy |-> TRUE, file |-> D!LoadFile(denyFile), version |-> version]
    BY DEF D!Reading, D!LoadFile
  <1>2. /\ D!Reading.file.kind = denyFile.kind
        /\ D!Reading.file.rules = LiveAt(denyFile.rules, now)
        /\ D!LoadFile(denyFile) \in Files
    BY <1>1 DEF DenyInv, DenyTypes, Files, D!Live, LiveAt, D!LoadFile
  <1>3. D!Reading \in Loads
    BY <1>1, <1>2 DEF Loads, DenyInv, DenyTypes
  <1>4. ~torn /\ denyFile.kind # "bad" =>
          LiveAt(kept, now) \subseteq LiveAt(denyFile.rules, now)
    BY DEF DenyInv, Holding, LiveAt
  <1> QED
    BY <1>2, <1>3, <1>4

\* A read of the watcher or of a caller of the endpoint.
LEMMA ReadKeeps ==
    ASSUME DenyInv, NEW a \in Loaders,
           load' = [load EXCEPT ![a] = D!Reading],
           pending' \in {"", pending},
           UNCHANGED <<denyFile, version, writing, kept, torn, now, events, snapshot>>
    PROVE  DenyInv'
  <1>1. /\ load'[a] = D!Reading /\ \A b \in Loaders \ {a} : load'[b] = load[b]
        /\ DenyTypes'
    BY ReadingHolds DEF DenyInv, DenyTypes
  <1>2. ASSUME ~torn PROVE Holding'
    <2>1. Holding
      BY <1>2 DEF DenyInv
    <2>2. ASSUME NEW b \in Loaders, load'[b].busy, load'[b].file.kind # "bad"
          PROVE  LiveAt(kept, now) \subseteq load'[b].file.rules
      BY <1>1, <1>2, <2>1, <2>2, ReadingHolds DEF Holding
    <2> QED
      BY <2>1, <2>2 DEF Holding
  <1> QED
    BY <1>1, <1>2 DEF DenyInv

\* The timer: a file that was removed is not read, and then nothing is claimed.
LEMMA FireKeeps ==
    ASSUME DenyInv, D!Fire
    PROVE  DenyInv'
  <1>1. /\ UNCHANGED <<denyFile, version, writing, kept, torn, now, events>>
        /\ pending' = "" /\ D!Loop \in Loaders
    BY DEF D!Fire, D!disk, Loaders
  <1>2. CASE pending = "removed"
    <2>1. load' = load /\ torn
      BY <1>2 DEF D!Fire, DenyInv, DenyTypes, Holding
    <2> QED
      BY <1>1, <2>1 DEF DenyInv, DenyTypes
  <1>3. CASE pending # "removed"
    <2>1. load' = [load EXCEPT ![D!Loop] = D!Reading] /\ snapshot' = snapshot
      BY <1>3 DEF D!Fire
    <2> QED
      BY <1>1, <2>1, ReadKeeps
  <1> QED
    BY <1>2, <1>3

\* What was read is committed, unless it cannot be used.
LEMMA FinishKeeps ==
    ASSUME DenyInv, NEW a \in Loaders, NEW own, NEW callback, D!Finish(a, own, callback)
    PROVE  DenyInv'
  <1>1. /\ load[a].busy /\ load' = [load EXCEPT ![a] = D!NoLoad]
        /\ UNCHANGED <<denyFile, version, writing, kept, torn, now, events, pending>>
        /\ \/ snapshot' = snapshot
           \/ load[a].file.kind # "bad" /\ snapshot'.rules = load[a].file.rules
    BY DEF D!Finish, D!disk, D!ParseError, D!Commit
  <1>2. D!NoLoad \in Loads /\ D!NoLoad.busy = FALSE
    BY DEF D!NoLoad, D!Absent, Loads, Files
  <1>3. DenyTypes'
    BY <1>1, <1>2 DEF DenyInv, DenyTypes
  <1>4. ASSUME ~torn PROVE Holding'
    <2>1. Holding
      BY <1>4 DEF DenyInv
    <2>2. \A b \in Loaders : load'[b] = load[b] \/ load'[b].busy = FALSE
      BY <1>1, <1>2 DEF DenyInv, DenyTypes
    <2>3. LiveAt(kept, now) \subseteq snapshot'.rules
      BY <1>1, <2>1 DEF Holding
    <2> QED
      BY <1>1, <2>1, <2>2, <2>3 DEF Holding
  <1> QED
    BY <1>1, <1>3, <1>4 DEF DenyInv

LEMMA DenyStep == DenyInv /\ [D!Next]_(D!vars) => DenyInv'
  <1> SUFFICES ASSUME DenyInv, [D!Next]_(D!vars) PROVE DenyInv'
    OBVIOUS
  <1>1. CASE UNCHANGED D!vars
    BY <1>1 DEF D!vars, DenyInv, DenyTypes, Holding
  <1>2. CASE D!Next
    <2>1. ASSUME NEW S \in SUBSET Rule, D!Renamed(S) \/ D!Truncated(S) \/ D!Written(S)
          PROVE  DenyInv'
      BY <2>1, RenamedKeeps, TornKeeps
    <2>2. ASSUME D!Spoiled \/ D!Tick \/ D!Start \/ D!TakeEvent \/ D!Fire PROVE DenyInv'
      BY <2>2, SpoiledKeeps, TickKeeps, StartKeeps, TakeEventKeeps, FireKeeps
    <2>3. ASSUME D!Removed PROVE DenyInv'
      <3>1. {} \in SUBSET Rule
        OBVIOUS
      <3> QED
        BY <2>3, <3>1, TornKeeps
    <2>4. ASSUME D!ApplyReload PROVE DenyInv'
      BY <2>4, FinishKeeps DEF D!ApplyReload, Loaders
    <2>5. ASSUME NEW a \in DenyAdmins, D!Post(a) PROVE DenyInv'
      <3>1. /\ load' = [load EXCEPT ![a] = D!Reading] /\ pending' = pending
            /\ UNCHANGED <<denyFile, version, writing, kept, torn, now, events, snapshot>>
        BY <2>5 DEF D!Post, D!disk
      <3> QED
        BY <3>1, ReadKeeps DEF Loaders
    <2>6. ASSUME NEW a \in DenyAdmins, D!ReloadNow(a) PROVE DenyInv'
      BY <2>6, FinishKeeps DEF D!ReloadNow, Loaders
    <2> QED
      BY <1>2, <2>1, <2>2, <2>3, <2>4, <2>5, <2>6 DEF D!Next
  <1> QED
    BY <1>1, <1>2

-----------------------------------------------------------------------------
(* The denies: the theorems *)

\* What the watcher and the callers of the endpoint have read and what is in force both
\* hold the rules that every whole version of the file had (watcher.applyReload,
\* ReloadNow, loader.LoadFile).
THEOREM DenyInvariance == D!Spec => []DenyInv
  <1>1. D!Init => DenyInv
    BY DenyInit
  <1>2. DenyInv /\ [D!Next]_(D!vars) => DenyInv'
    BY DenyStep
  <1> QED
    BY <1>1, <1>2, PTL DEF D!Spec

\* A rule that every whole version of the file had and that has not expired is in force,
\* whoever reloads and in whatever order, as long as the file is replaced whole: a file
\* that cannot be used never takes a rule out of force.
THEOREM KeptRulesAreInForce == D!Spec => []KeptRulesHold
  <1>1. DenyInv => KeptRulesHold
    BY DEF DenyInv, Holding, KeptRulesHold, D!KeptRulesHold, D!Live, LiveAt
  <1> QED
    BY <1>1, DenyInvariance, PTL

-----------------------------------------------------------------------------
(* Alerts.  What was handed on and not yet counted is at least what the rule *)
(* remembers, what it has still to see, and what the alerts on their way will *)
(* count.                                                                     *)

\* The alerts an event raises are about at most one burst, which comes first.
Burst == "admin_fallback_burst"
Patterns == {"admin_fallback_burst", "pause_long", "non_org_profile_install",
             "unusual_high_risk_action", "heartbeat_gap", "audit_export_degraded"}
AnyAlert == [pattern : Patterns, count : Nat]
OtherAlert == {a \in AnyAlert : a.pattern # Burst}
FirstOnly(x) == x \in Seq(AnyAlert) /\ \A i \in DOMAIN x : i # 1 => x[i] \in OtherAlert

\* The grants that an alert on its way counts.
CountedBy(x) == IF x # <<>> /\ Head(x).pattern = Burst THEN Head(x).count ELSE 0
OwedBy(e) == IF e.at = "fire" THEN CountedBy(e.fires) ELSE 0
Owed == [g \in A!Emitters |-> OwedBy(emitter[g])]

\* A mark for every grant so counted.
Marks(E, c) == {d \in E \X Nat : d[2] \in 1 .. c[d[1]]}

\* A grant that was handed on and that the rule has not seen.
IsToSee(e) == e.at = "observe" /\ A!IsFallback(Head(e.todo))
ToSee == {g \in A!Emitters : IsToSee(emitter[g])}

EmitterOK(e) ==
    /\ DOMAIN e = {"at", "todo", "now", "fires"}
    /\ e.now \in Nat
    /\ e.at = "fire" => FirstOnly(e.fires)

AlertTypes ==
    /\ alertClock \in Nat /\ lastSeen \in Nat /\ uncounted \in Int
    /\ DOMAIN emitter = A!Emitters
    /\ \A g \in A!Emitters : EmitterOK(emitter[g])
    /\ since \in Seq(Nat)
    /\ \A x \in times : x.place \in DOMAIN since /\ x.time \in Nat

Tally ==
    /\ IsFiniteSet(ToSee) /\ IsFiniteSet(times) /\ IsFiniteSet(Marks(A!Emitters, Owed))
    /\ uncounted >= Cardinality(ToSee) + Cardinality(times) + Cardinality(Marks(A!Emitters, Owed))

\* While events are seen in the order of their times, the rule remembers every grant
\* of the window that ends with the last one, and no window holds too many.
InTime ==
    ~disordered =>
        /\ \A i \in DOMAIN since :
              /\ since[i] <= lastSeen
              /\ since[i] >= lastSeen - Window => [place |-> i, time |-> since[i]] \in times
        /\ ~A!Unreported

BurstInv == AlertTypes /\ Tally /\ InTime

LEMMA AlertConstants == Threshold \in Nat /\ Window \in Nat /\ AlertTime \in Nat
  BY MCProcessAssumption DEF A!ConstantsAssumption

\* The alerts count as the standard modules do.
LEMMA SameCount == \A S : A!Cardinality(S) = Cardinality(S)
  BY DEF Cardinality, A!Cardinality

LEMMA ToldFollows == BurstInv => BurstsAreTold
  BY FS_CardinalityType DEF BurstInv, AlertTypes, Tally, InTime, BurstsAreTold, A!BurstsAreTold

LEMMA ToldInit == A!Init => BurstInv
  <1> SUFFICES ASSUME A!Init PROVE BurstInv
    OBVIOUS
  <1>1. \A g \in A!Emitters : emitter[g] = A!Idle
    BY DEF A!Init
  <1>2. AlertTypes
    <2>1. \A g \in A!Emitters : EmitterOK(emitter[g])
      BY <1>1 DEF A!Idle, EmitterOK
    <2>2. DOMAIN emitter = A!Emitters
      BY DEF A!Init
    <2>3. since = <<>> /\ times = {} /\ disordered = FALSE /\ alertClock = 0 /\ lastSeen = 0
          /\ uncounted = 0
      BY DEF A!Init
    <2>4. since \in Seq(Nat)
      BY <2>3
    <2>5. \A x \in times : x.place \in DOMAIN since /\ x.time \in Nat
      BY <2>3
    <2>6. alertClock \in Nat /\ lastSeen \in Nat /\ uncounted \in Int
      BY <2>3
    <2> QED
      BY <2>1, <2>2, <2>4, <2>5, <2>6 DEF AlertTypes
  <1>3. ToSee = {} /\ times = {}
    BY <1>1 DEF A!Init, ToSee, IsToSee, A!Idle
  <1>4. Marks(A!Emitters, Owed) = {}
    <2>1. \A g \in A!Emitters : Owed[g] = 0
      BY <1>1 DEF Owed, OwedBy, A!Idle
    <2> QED
      BY <2>1 DEF Marks
  <1>5. Tally
    BY <1>3, <1>4, FS_EmptySet DEF Tally, A!Init
  <1>6. InTime
    BY DEF InTime, A!Init, A!Unreported
  <1> QED
    BY <1>2, <1>5, <1>6 DEF BurstInv
-----------------------------------------------------------------------------
\* Putting alerts of other patterns behind changes nothing about the first one.
LEMMA MoreAlerts ==
  ASSUME NEW x, FirstOnly(x), NEW y \in Seq(OtherAlert)
  PROVE  FirstOnly(x \o y) /\ CountedBy(x \o y) = CountedBy(x)
  <1>1. x \in Seq(AnyAlert) /\ y \in Seq(AnyAlert)
    BY DEF FirstOnly, OtherAlert
  <1> DEFINE z == x \o y
  <1>2. z \in Seq(AnyAlert) /\ Len(z) = Len(x) + Len(y) /\ DOMAIN z = 1 .. Len(z)
    BY <1>1
  <1>3. \A i \in DOMAIN z : z[i] = IF i <= Len(x) THEN x[i] ELSE y[i - Len(x)]
    BY <1>1
  <1>4. \A i \in DOMAIN z : i > Len(x) => z[i] \in OtherAlert
    BY <1>1, <1>2, <1>3
  <1>5. FirstOnly(z)
    BY <1>1, <1>2, <1>3, <1>4 DEF FirstOnly
  <1>6. CASE x = <<>>
    <2>1. z # <<>> => Head(z) \in OtherAlert
      BY <1>1, <1>2, <1>4, <1>6
    <2> QED
      BY <1>5, <1>6, <2>1 DEF CountedBy, OtherAlert
  <1>7. CASE x # <<>>
    <2>1. z # <<>> /\ Head(z) = Head(x)
      BY <1>1, <1>2, <1>3, <1>7
    <2> QED
      BY <1>5, <1>7, <2>1 DEF CountedBy
  <1> QED
    BY <1>6, <1>7

\* Behind the first alert nothing is about a burst.
LEMMA TailCountsNothing ==
  ASSUME NEW x, FirstOnly(x), x # <<>>
  PROVE  FirstOnly(Tail(x)) /\ CountedBy(Tail(x)) = 0 /\ CountedBy(x) \in Nat
  <1> DEFINE y == Tail(x)
  <1>1. x \in Seq(AnyAlert) /\ y \in Seq(AnyAlert) /\ Len(y) = Len(x) - 1
        /\ \A i \in 1 .. Len(y) : y[i] = x[i + 1]
    BY DEF FirstOnly
  <1>2. \A i \in 1 .. Len(y) : y[i] \in OtherAlert
    BY <1>1 DEF FirstOnly
  <1>3. FirstOnly(y)
    BY <1>1, <1>2 DEF FirstOnly
  <1>4. y # <<>> => Head(y) \in OtherAlert
    BY <1>1, <1>2
  <1>5. Head(x) \in AnyAlert
    BY <1>1
  <1> QED
    BY <1>3, <1>4, <1>5 DEF CountedBy, OtherAlert, AnyAlert

\* What one emitter counts more is marked more.
LEMMA MarkMore ==
  ASSUME NEW E, NEW c, NEW d, NEW g \in E, NEW n \in Nat, c[g] = 0, d[g] = n,
         \A h \in E \ {g} : d[h] = c[h],
         IsFiniteSet(Marks(E, c))
  PROVE  /\ IsFiniteSet(Marks(E, d))
         /\ Cardinality(Marks(E, d)) = Cardinality(Marks(E, c)) + n
  <1> DEFINE new == {g} \X (1 .. n)
  <1>1. Marks(E, d) = Marks(E, c) \cup new
    <2>1. \A x \in E \X Nat : x \in Marks(E, d) <=> x \in Marks(E, c) \cup new
      <3> TAKE x \in E \X Nat
      <3>1. CASE x[1] = g
        BY <3>1 DEF Marks
      <3>2. CASE x[1] # g
        BY <3>2 DEF Marks
      <3> QED
        BY <3>1, <3>2
    <2>2. new \subseteq E \X Nat
      OBVIOUS
    <2> QED
      BY <2>1, <2>2 DEF Marks
  <1>2. Marks(E, c) \cap new = {}
    BY DEF Marks
  <1>3. IsFiniteSet({g}) /\ Cardinality({g}) = 1
    BY FS_Singleton
  <1>4. IsFiniteSet(1 .. n) /\ Cardinality(1 .. n) = n
    BY FS_Interval
  <1>5. IsFiniteSet(new) /\ Cardinality(new) = 1 * n
    BY <1>3, <1>4, FS_Product
  <1> HIDE DEF new
  <1>6. IsFiniteSet(Marks(E, c) \cup new)
        /\ Cardinality(Marks(E, c) \cup new)
           = Cardinality(Marks(E, c)) + Cardinality(new) - Cardinality(Marks(E, c) \cap new)
    BY <1>5, FS_Union
  <1>7. Cardinality(Marks(E, c)) \in Nat
    BY FS_CardinalityType
  <1>8. Cardinality(Marks(E, c) \cap new) = 0
    BY <1>2, FS_EmptySet
  <1> QED
    BY <1>1, <1>5, <1>6, <1>7, <1>8

\* ... and what it counts less is marked less.
LEMMA MarkLess ==
  ASSUME NEW E, NEW c, NEW d, NEW g \in E, NEW n \in Nat, c[g] = n, d[g] = 0,
         \A h \in E \ {g} : d[h] = c[h],
         IsFiniteSet(Marks(E, c))
  PROVE  /\ IsFiniteSet(Marks(E, d))
         /\ Cardinality(Marks(E, c)) = Cardinality(Marks(E, d)) + n
  <1>1. Marks(E, d) \subseteq Marks(E, c)
    <2> SUFFICES ASSUME NEW x \in Marks(E, d) PROVE x \in Marks(E, c)
      OBVIOUS
    <2>1. CASE x[1] = g
      BY <2>1 DEF Marks
    <2>2. CASE x[1] # g
      BY <2>2 DEF Marks
    <2> QED
      BY <2>1, <2>2
  <1>2. IsFiniteSet(Marks(E, d))
    BY <1>1, FS_Subset
  <1>3. \A h \in E \ {g} : c[h] = d[h]
    OBVIOUS
  <1>4. ASSUME NEW a, NEW b, a[g] = 0, b[g] = n, \A h \in E \ {g} : b[h] = a[h],
               IsFiniteSet(Marks(E, a))
        PROVE  Cardinality(Marks(E, b)) = Cardinality(Marks(E, a)) + n
    BY <1>4, MarkMore
  <1> QED
    BY <1>2, <1>3, <1>4
-----------------------------------------------------------------------------
\* What a step of one emitter does to the marks.
LEMMA Handover ==
  ASSUME AlertTypes, Tally, NEW g \in A!Emitters, EmitterOK(emitter[g])',
         DOMAIN emitter' = A!Emitters, \A h \in A!Emitters \ {g} : emitter'[h] = emitter[h],
         OwedBy(emitter[g]) \in Nat, OwedBy(emitter'[g]) \in Nat,
         OwedBy(emitter[g]) = 0 \/ OwedBy(emitter'[g]) = 0
  PROVE  /\ \A h \in A!Emitters : EmitterOK(emitter[h])'
         /\ IsFiniteSet(ToSee') /\ IsFiniteSet(Marks(A!Emitters, Owed'))
         /\ Cardinality(ToSee') + (IF IsToSee(emitter[g]) THEN 1 ELSE 0)
            = Cardinality(ToSee) + (IF IsToSee(emitter'[g]) THEN 1 ELSE 0)
         /\ Cardinality(Marks(A!Emitters, Owed')) + OwedBy(emitter[g])
            = Cardinality(Marks(A!Emitters, Owed)) + OwedBy(emitter'[g])
  <1>1. \A h \in A!Emitters : EmitterOK(emitter[h])'
    BY DEF AlertTypes, EmitterOK
  <1>2. IsFiniteSet(ToSee) /\ IsFiniteSet(Marks(A!Emitters, Owed))
    BY DEF Tally
  <1>3. /\ g \in ToSee <=> IsToSee(emitter[g])
        /\ ToSee' = IF IsToSee(emitter'[g]) THEN ToSee \cup {g} ELSE ToSee \ {g}
    BY DEF ToSee
  <1>4. /\ IsFiniteSet(ToSee') /\ Cardinality(ToSee') \in Nat /\ Cardinality(ToSee) \in Nat
        /\ Cardinality(ToSee') + (IF IsToSee(emitter[g]) THEN 1 ELSE 0)
            = Cardinality(ToSee) + (IF IsToSee(emitter'[g]) THEN 1 ELSE 0)
    <2>1. /\ IsFiniteSet(ToSee \cup {g}) /\ IsFiniteSet(ToSee \ {g})
          /\ Cardinality(ToSee \cup {g})
             = IF g \in ToSee THEN Cardinality(ToSee) ELSE Cardinality(ToSee) + 1
          /\ Cardinality(ToSee \ {g})
             = IF g \in ToSee THEN Cardinality(ToSee) - 1 ELSE Cardinality(ToSee)
      BY <1>2, FS_AddElement, FS_RemoveElement
    <2>2. IsFiniteSet(ToSee')
      BY <1>3, <2>1
    <2>3. Cardinality(ToSee) \in Nat /\ Cardinality(ToSee') \in Nat
      BY <1>2, <2>2, FS_CardinalityType
    <2> QED
      BY <1>3, <2>1, <2>2, <2>3
  <1>5. /\ Owed[g] = OwedBy(emitter[g]) /\ Owed'[g] = OwedBy(emitter'[g])
        /\ \A h \in A!Emitters \ {g} : Owed'[h] = Owed[h]
    BY DEF Owed
  <1>6. CASE OwedBy(emitter[g]) = 0
    <2>1. IsFiniteSet(Marks(A!Emitters, Owed'))
          /\ Cardinality(Marks(A!Emitters, Owed'))
             = Cardinality(Marks(A!Emitters, Owed)) + OwedBy(emitter'[g])
      BY <1>2, <1>5, <1>6, MarkMore
    <2> QED
      BY <1>1, <1>2, <1>4, <1>6, <2>1, FS_CardinalityType
  <1>7. CASE OwedBy(emitter'[g]) = 0
    <2>1. IsFiniteSet(Marks(A!Emitters, Owed'))
          /\ Cardinality(Marks(A!Emitters, Owed))
             = Cardinality(Marks(A!Emitters, Owed')) + OwedBy(emitter[g])
      BY <1>2, <1>5, <1>7, MarkLess
    <2> QED
      BY <1>1, <1>2, <1>4, <1>7, <2>1, FS_CardinalityType
  <1> QED
    BY <1>6, <1>7

\* A step that shows the rule nothing.
LEMMA UnseenStep ==
  ASSUME BurstInv, AlertTypes', UNCHANGED <<times, since, disordered, lastSeen>>,
         IsFiniteSet(ToSee'), IsFiniteSet(Marks(A!Emitters, Owed')),
         uncounted' - Cardinality(ToSee') - Cardinality(Marks(A!Emitters, Owed'))
         >= uncounted - Cardinality(ToSee) - Cardinality(Marks(A!Emitters, Owed))
  PROVE  BurstInv'
  <1>1. InTime'
    BY DEF BurstInv, InTime, A!Unreported
  <1>2. Tally'
    BY FS_CardinalityType DEF BurstInv, AlertTypes, Tally
  <1> QED
    BY <1>1, <1>2 DEF BurstInv

\* The fields of an emitter that rests.
LEMMA IdleFields ==
  DOMAIN A!Idle = {"at", "todo", "now", "fires"} /\ A!Idle.at = "idle" /\ A!Idle.now = 0
BY DEF A!Idle

\* An emitter that is neither at the rules nor at its alerts owes nothing.
LEMMA OwesNothing ==
  ASSUME NEW e, DOMAIN e = {"at", "todo", "now", "fires"}, e.now \in Nat, e.at \in {"idle", "forward"}
  PROVE  EmitterOK(e) /\ ~IsToSee(e) /\ OwedBy(e) = 0
BY DEF EmitterOK, IsToSee, OwedBy

\* An emitter that starts takes up nothing yet.
LEMMA Starts ==
  ASSUME BurstInv, NEW g \in A!Emitters, emitter[g] = A!Idle,
         NEW todo, emitter' = [emitter EXCEPT ![g].at = "forward", ![g].todo = todo],
         UNCHANGED <<alertClock, times, since, disordered, lastSeen, uncounted>>
  PROVE  BurstInv'
  <1>1. DOMAIN emitter' = A!Emitters /\ \A h \in A!Emitters \ {g} : emitter'[h] = emitter[h]
    BY DEF BurstInv, AlertTypes
  <1>2. emitter'[g] = [emitter[g] EXCEPT !.at = "forward", !.todo = todo]
    BY DEF BurstInv, AlertTypes
  <1>3. EmitterOK(emitter[g])' /\ ~IsToSee(emitter[g]) /\ ~IsToSee(emitter'[g])
        /\ OwedBy(emitter[g]) = 0 /\ OwedBy(emitter'[g]) = 0
    <2> DEFINE f == [A!Idle EXCEPT !.at = "forward", !.todo = todo]
    <2>1. DOMAIN f = {"at", "todo", "now", "fires"} /\ f.at = "forward" /\ f.now = 0
      BY IdleFields
    <2>2. EmitterOK(A!Idle) /\ ~IsToSee(A!Idle) /\ OwedBy(A!Idle) = 0
      BY IdleFields, OwesNothing
    <2>4. emitter'[g] = f
      BY <1>2
    <2> HIDE DEF f
    <2>3. EmitterOK(f) /\ ~IsToSee(f) /\ OwedBy(f) = 0
      BY <2>1, OwesNothing
    <2>5. EmitterOK(emitter'[g]) /\ ~IsToSee(emitter'[g]) /\ OwedBy(emitter'[g]) = 0
      BY <2>3, <2>4
    <2> QED
      BY <2>2, <2>5
  <1>4. /\ \A h \in A!Emitters : EmitterOK(emitter[h])'
        /\ IsFiniteSet(ToSee') /\ IsFiniteSet(Marks(A!Emitters, Owed'))
        /\ Cardinality(ToSee') = Cardinality(ToSee)
        /\ Cardinality(Marks(A!Emitters, Owed')) = Cardinality(Marks(A!Emitters, Owed))
    BY <1>1, <1>3, Handover, FS_CardinalityType DEF BurstInv, Tally
  <1>5. AlertTypes'
    BY <1>1, <1>4 DEF BurstInv, AlertTypes
  <1> QED
    BY <1>4, <1>5, UnseenStep, FS_CardinalityType DEF BurstInv, AlertTypes, Tally

\* Handing an event on counts the grant that the rule has still to see.
LEMMA HandTold == ASSUME BurstInv, NEW g \in A!Emitters, A!Hand(g) PROVE BurstInv'
  <1> DEFINE e == emitter[g]
  <1>1. /\ e.at = "forward" /\ EmitterOK(e) /\ UNCHANGED <<alertClock, times, since, disordered, lastSeen>>
        /\ uncounted' = IF A!IsFallback(Head(e.todo)) THEN uncounted + 1 ELSE uncounted
    BY DEF BurstInv, AlertTypes, A!Hand, A!Forward, A!rulestate, A!world
  <1>2. PICK f : /\ f = [e EXCEPT !.at = "observe", !.now = alertClock] \/ f = A!Idle
                       \/ f = [e EXCEPT !.todo = Tail(@)]
                 /\ emitter' = [emitter EXCEPT ![g] = f]
    BY DEF A!Hand
  <1>3. DOMAIN emitter' = A!Emitters /\ emitter'[g] = f
        /\ \A h \in A!Emitters \ {g} : emitter'[h] = emitter[h]
    BY <1>2 DEF BurstInv, AlertTypes
  <1>4. /\ DOMAIN f = {"at", "todo", "now", "fires"} /\ f.now \in Nat /\ f.at # "fire"
        /\ f.at = "observe" => f.todo = e.todo
    <2>1. DOMAIN e = {"at", "todo", "now", "fires"} /\ e.now \in Nat /\ alertClock \in Nat
      BY <1>1 DEF EmitterOK, BurstInv, AlertTypes
    <2>2. CASE f = [e EXCEPT !.at = "observe", !.now = alertClock]
      BY <2>1, <2>2
    <2>3. CASE f = [e EXCEPT !.todo = Tail(@)]
      <3>1. e.at = "forward"
        BY <1>1
      <3> HIDE DEF e
      <3> QED
        BY <2>1, <2>3, <3>1
    <2>4. CASE f = A!Idle
      BY <2>4, IdleFields
    <2> QED
      BY <1>2, <2>2, <2>3, <2>4
  <1>5. EmitterOK(emitter[g])' /\ ~IsToSee(e) /\ OwedBy(e) = 0 /\ OwedBy(emitter'[g]) = 0
        /\ (IsToSee(emitter'[g]) => A!IsFallback(Head(e.todo)))
    BY <1>1, <1>3, <1>4 DEF EmitterOK, IsToSee, OwedBy
  <1>6. /\ \A h \in A!Emitters : EmitterOK(emitter[h])'
        /\ IsFiniteSet(ToSee') /\ IsFiniteSet(Marks(A!Emitters, Owed'))
        /\ Cardinality(ToSee') = Cardinality(ToSee) + (IF IsToSee(emitter'[g]) THEN 1 ELSE 0)
        /\ Cardinality(Marks(A!Emitters, Owed')) = Cardinality(Marks(A!Emitters, Owed))
    BY <1>3, <1>5, Handover, FS_CardinalityType DEF BurstInv, Tally
  <1>7. AlertTypes'
    BY <1>1, <1>3, <1>6 DEF BurstInv, AlertTypes
  <1> QED
    BY <1>1, <1>5, <1>6, <1>7, UnseenStep, FS_CardinalityType DEF BurstInv, AlertTypes, Tally

\* Handing an alert on takes from what is uncounted what the alert counts.
LEMMA FireTold == ASSUME BurstInv, NEW g \in A!Emitters, A!Fire(g) PROVE BurstInv'
  <1> DEFINE e == emitter[g]
  <1>1. /\ e.at = "fire" /\ EmitterOK(e) /\ FirstOnly(e.fires)
        /\ UNCHANGED <<alertClock, times, since, disordered, lastSeen>>
    BY DEF BurstInv, AlertTypes, EmitterOK, A!Fire, A!rulestate, A!world
  <1>2. PICK f :
           /\ emitter' = [emitter EXCEPT ![g] = f]
           /\ IF e.fires # <<>>
              THEN f = [e EXCEPT !.fires = Tail(@)] /\ uncounted' = uncounted - CountedBy(e.fires)
              ELSE (f = A!Idle \/ f = [e EXCEPT !.at = "forward", !.todo = Tail(@)])
                   /\ uncounted' = uncounted
    <2>1. CASE e.fires # <<>>
      <3>1. CountedBy(e.fires) = IF Head(e.fires).pattern = "admin_fallback_burst"
                                 THEN Head(e.fires).count ELSE 0
        BY <2>1 DEF CountedBy, Burst
      <3>2. uncounted' = IF Head(e.fires).pattern = "admin_fallback_burst"
                         THEN uncounted - Head(e.fires).count ELSE uncounted
        BY <2>1 DEF A!Fire
      <3>3. uncounted \in Int
        BY DEF BurstInv, AlertTypes
      <3>4. uncounted' = uncounted - CountedBy(e.fires)
        BY <3>1, <3>2, <3>3
      <3>5. emitter' = [emitter EXCEPT ![g] = [e EXCEPT !.fires = Tail(@)]]
        BY <2>1 DEF A!Fire
      <3> QED
        BY <2>1, <3>4, <3>5
    <2>2. CASE e.fires = <<>>
      BY <2>2 DEF A!Fire, A!stream
    <2> QED
      BY <2>1, <2>2
  <1>3. DOMAIN emitter' = A!Emitters /\ emitter'[g] = f
        /\ \A h \in A!Emitters \ {g} : emitter'[h] = emitter[h]
    BY <1>2 DEF BurstInv, AlertTypes
  <1>4. CASE e.fires # <<>>
    <2>1. f.at = "fire" /\ f.fires = Tail(e.fires) /\ f.now = e.now
          /\ DOMAIN f = {"at", "todo", "now", "fires"}
      BY <1>1, <1>2, <1>4 DEF EmitterOK
    <2>2. FirstOnly(f.fires) /\ CountedBy(f.fires) = 0 /\ CountedBy(e.fires) \in Nat
      BY <1>1, <1>4, <2>1, TailCountsNothing
    <2>3. /\ EmitterOK(emitter[g])' /\ ~IsToSee(e) /\ ~IsToSee(emitter'[g])
          /\ OwedBy(e) = CountedBy(e.fires) /\ OwedBy(e) \in Nat /\ OwedBy(emitter'[g]) = 0
      BY <1>1, <1>3, <2>1, <2>2 DEF EmitterOK, IsToSee, OwedBy
    <2>4. /\ \A h \in A!Emitters : EmitterOK(emitter[h])'
          /\ IsFiniteSet(ToSee') /\ IsFiniteSet(Marks(A!Emitters, Owed'))
          /\ Cardinality(ToSee') = Cardinality(ToSee)
          /\ Cardinality(Marks(A!Emitters, Owed')) + CountedBy(e.fires)
             = Cardinality(Marks(A!Emitters, Owed))
      BY <1>3, <2>3, Handover, FS_CardinalityType DEF BurstInv, Tally
    <2>5. uncounted' = uncounted - CountedBy(e.fires) /\ uncounted \in Int
      BY <1>2, <1>4 DEF BurstInv, AlertTypes
    <2>6. AlertTypes'
      BY <1>1, <1>3, <2>2, <2>4, <2>5 DEF BurstInv, AlertTypes
    <2> QED
      BY <1>1, <2>2, <2>4, <2>5, <2>6, UnseenStep, FS_CardinalityType DEF BurstInv, AlertTypes, Tally
  <1>5. CASE e.fires = <<>>
    <2>1. f.at \in {"idle", "forward"} /\ DOMAIN f = {"at", "todo", "now", "fires"} /\ f.now \in Nat
      <3>1. f = A!Idle \/ f = [e EXCEPT !.at = "forward", !.todo = Tail(@)]
        BY <1>2, <1>5
      <3>2. DOMAIN e = {"at", "todo", "now", "fires"} /\ e.now \in Nat
        BY <1>1 DEF EmitterOK
      <3>3. CASE f = A!Idle
        BY <3>3, IdleFields
      <3>4. CASE f = [e EXCEPT !.at = "forward", !.todo = Tail(@)]
        BY <3>2, <3>4
      <3> QED
        BY <3>1, <3>3, <3>4
    <2>2. /\ EmitterOK(emitter[g])' /\ ~IsToSee(e) /\ ~IsToSee(emitter'[g])
          /\ OwedBy(e) = 0 /\ OwedBy(emitter'[g]) = 0
      BY <1>1, <1>3, <1>5, <2>1 DEF EmitterOK, IsToSee, OwedBy, CountedBy
    <2>3. /\ \A h \in A!Emitters : EmitterOK(emitter[h])'
          /\ IsFiniteSet(ToSee') /\ IsFiniteSet(Marks(A!Emitters, Owed'))
          /\ Cardinality(ToSee') = Cardinality(ToSee)
          /\ Cardinality(Marks(A!Emitters, Owed')) = Cardinality(Marks(A!Emitters, Owed))
      BY <1>3, <2>2, Handover, FS_CardinalityType DEF BurstInv, Tally
    <2>4. uncounted' = uncounted
      BY <1>2, <1>5
    <2>5. AlertTypes'
      BY <1>1, <1>3, <2>3, <2>4 DEF BurstInv, AlertTypes
    <2> QED
      BY <1>1, <2>3, <2>4, <2>5, UnseenStep, FS_CardinalityType DEF BurstInv, AlertTypes, Tally
  <1> QED
    BY <1>4, <1>5
-----------------------------------------------------------------------------
\* What the rule remembers of a window that is in order counts the whole window.
LEMMA WindowCounted ==
  ASSUME NEW s, NEW K, IsFiniteSet(K), NEW t,
         NEW w \in SUBSET (DOMAIN s),
         \A j \in w : [place |-> j, time |-> s[j]] \in K
  PROVE  Cardinality(w) <= Cardinality(K)
  <1> DEFINE f == [j \in w |-> [place |-> j, time |-> s[j]]]
  <1>1. f \in [w -> K]
    OBVIOUS
  <1>2. ASSUME NEW i \in w, NEW j \in w, f[i] = f[j] PROVE i = j
    <2>1. f[i].place = i /\ f[j].place = j
      OBVIOUS
    <2> QED
      BY <1>2, <2>1
  <1>3. f \in Injection(w, K)
    <2> HIDE DEF f
    <2> QED
      BY <1>1, <1>2 DEF Injection, IsInjective
  <1> QED
    BY <1>3, FS_Injection

\* What an alert says.
LEMMA AlertSays ==
  ASSUME NEW p \in Patterns, NEW n \in Nat
  PROVE  A!Alert(p, n) \in AnyAlert /\ A!Alert(p, n).pattern = p /\ A!Alert(p, n).count = n
BY DEF A!Alert, AnyAlert

\* What an event raises: a burst's alert, if any, comes first.
LEMMA FiresFirst ==
  ASSUME NEW ev, NEW t, BurstInv
  PROVE  LET x == A!BurstFires(ev, t) \o A!LongFires(ev, t) \o A!SourceFires(ev)
                  \o A!RiskFires(ev) \o A!GapFires(ev) \o A!DegradedFires
         IN  FirstOnly(x) /\ CountedBy(x) = IF A!IsFallback(ev) /\ Cardinality(A!WithNew(t)) > Threshold
                                             THEN Cardinality(A!WithNew(t)) ELSE 0
  <1>1. IsFiniteSet(A!WithNew(t)) /\ Cardinality(A!WithNew(t)) \in Nat
    <2>1. IsFiniteSet(A!Kept(t))
      BY FS_Subset DEF A!Kept, BurstInv, Tally
    <2>2. IsFiniteSet(A!WithNew(t))
      BY <2>1, FS_AddElement DEF A!WithNew
    <2> QED
      BY <2>2, FS_CardinalityType
  <1>2. FirstOnly(A!BurstFires(ev, t))
        /\ CountedBy(A!BurstFires(ev, t)) = IF A!IsFallback(ev) /\ Cardinality(A!WithNew(t)) > Threshold
                                            THEN Cardinality(A!WithNew(t)) ELSE 0
    <2> DEFINE a == A!Alert("admin_fallback_burst", Cardinality(A!WithNew(t)))
    <2>1. a \in AnyAlert /\ a.pattern = Burst /\ a.count = Cardinality(A!WithNew(t))
      BY <1>1, AlertSays DEF Burst, Patterns
    <2>2. A!BurstFires(ev, t) = IF A!IsFallback(ev) /\ Cardinality(A!WithNew(t)) > Threshold
                                THEN <<a>> ELSE <<>>
      BY SameCount DEF A!BurstFires
    <2> HIDE DEF a
    <2>3. FirstOnly(<<a>>) /\ CountedBy(<<a>>) = Cardinality(A!WithNew(t))
      BY <2>1 DEF FirstOnly, CountedBy
    <2>4. FirstOnly(<<>>) /\ CountedBy(<<>>) = 0
      BY DEF FirstOnly, CountedBy
    <2> QED
      BY <2>2, <2>3, <2>4
  <1>3. ASSUME NEW p \in Patterns, p # "admin_fallback_burst"
        PROVE  <<A!Alert(p, 1)>> \in Seq(OtherAlert)
    <2>1. A!Alert(p, 1) \in OtherAlert
      BY <1>3, AlertSays DEF OtherAlert, Burst
    <2> QED
      BY <2>1
  <1>4. /\ A!LongFires(ev, t) \in Seq(OtherAlert) /\ A!SourceFires(ev) \in Seq(OtherAlert)
        /\ A!RiskFires(ev) \in Seq(OtherAlert) /\ A!GapFires(ev) \in Seq(OtherAlert)
        /\ A!DegradedFires \in Seq(OtherAlert)
    <2>0. <<>> \in Seq(OtherAlert)
      OBVIOUS
    <2>1. A!LongFires(ev, t) \in Seq(OtherAlert)
      BY <1>3, <2>0 DEF Patterns, A!LongFires
    <2>2. A!SourceFires(ev) \in Seq(OtherAlert)
      BY <1>3, <2>0 DEF Patterns, A!SourceFires
    <2>3. A!RiskFires(ev) \in Seq(OtherAlert)
      BY <1>3, <2>0 DEF Patterns, A!RiskFires
    <2>4. A!GapFires(ev) \in Seq(OtherAlert)
      BY <1>3, <2>0 DEF Patterns, A!GapFires
    <2>5. A!DegradedFires \in Seq(OtherAlert)
      BY <1>3, <2>0 DEF Patterns, A!DegradedFires
    <2> QED
      BY <2>1, <2>2, <2>3, <2>4, <2>5
  <1> DEFINE a == A!BurstFires(ev, t)
             b == a \o A!LongFires(ev, t)
             c == b \o A!SourceFires(ev)
             d == c \o A!RiskFires(ev)
             e == d \o A!GapFires(ev)
             f == e \o A!DegradedFires
  <1>5. FirstOnly(b) /\ CountedBy(b) = CountedBy(a)
    BY <1>2, <1>4, MoreAlerts
  <1>6. FirstOnly(c) /\ CountedBy(c) = CountedBy(a)
    BY <1>4, <1>5, MoreAlerts
  <1>7. FirstOnly(d) /\ CountedBy(d) = CountedBy(a)
    BY <1>4, <1>6, MoreAlerts
  <1>8. FirstOnly(e) /\ CountedBy(e) = CountedBy(a)
    BY <1>4, <1>7, MoreAlerts
  <1>9. FirstOnly(f) /\ CountedBy(f) = CountedBy(a)
    BY <1>4, <1>8, MoreAlerts
  <1> QED
    BY <1>2, <1>9

\* The rule's window with the new grant, in order.
LEMMA WindowInTime ==
  ASSUME BurstInv, ~disordered, NEW t \in Nat, lastSeen <= t,
         times' = A!WithNew(t), since' = Append(since, t), lastSeen' = t,
         Cardinality(A!WithNew(t)) <= Threshold
  PROVE  InTime'
  <1>1. /\ since \in Seq(Nat) /\ lastSeen \in Nat /\ Window \in Nat /\ Threshold \in Nat
        /\ IsFiniteSet(times) /\ \A x \in times : x.time \in Nat
        /\ \A i \in DOMAIN since :
              /\ since[i] <= lastSeen
              /\ since[i] >= lastSeen - Window => [place |-> i, time |-> since[i]] \in times
        /\ ~A!Unreported
    BY AlertConstants DEF BurstInv, AlertTypes, Tally, InTime
  <1> DEFINE n == Len(since) + 1
             w(s, i) == {j \in DOMAIN s : s[j] \in s[i] - Window .. s[i]}
  <1>2. /\ DOMAIN since = 1 .. Len(since) /\ DOMAIN since' = 1 .. n /\ n \in Nat
        /\ \A i \in DOMAIN since : since'[i] = since[i] /\ since[i] \in Nat
        /\ since'[n] = t
    BY <1>1
  <1>3. IsFiniteSet(times')
    BY <1>1, FS_Subset, FS_AddElement DEF A!WithNew, A!Kept
  <1>4. ASSUME NEW i \in DOMAIN since' PROVE since'[i] <= t /\ since'[i] \in Nat
    <2>1. CASE i = n
      BY <1>2, <2>1
    <2>2. CASE i \in DOMAIN since
      <3>1. since'[i] = since[i] /\ since[i] \in Nat /\ since[i] <= lastSeen
        BY <1>1, <1>2, <2>2
      <3> QED
        BY <1>1, <3>1
    <2> QED
      BY <1>2, <2>1, <2>2
  <1>5. ASSUME NEW i \in DOMAIN since', since'[i] >= t - Window
        PROVE  [place |-> i, time |-> since'[i]] \in times'
    <2>1. CASE i = n
      BY <1>2, <2>1 DEF A!WithNew
    <2>2. CASE i \in DOMAIN since
      <3>1. since'[i] = since[i] /\ since[i] \in Nat
        BY <1>2, <2>2
      <3>2. since[i] >= lastSeen - Window
        BY <1>1, <1>5, <3>1
      <3> DEFINE x == [place |-> i, time |-> since[i]]
      <3>3. x \in times /\ x.time = since[i]
        BY <1>1, <2>2, <3>2
      <3> HIDE DEF x
      <3>4. x \in A!Kept(t)
        BY <1>5, <3>1, <3>3 DEF A!Kept
      <3>5. x \in times'
        BY <3>4 DEF A!WithNew
      <3> QED
        BY <3>1, <3>5 DEF x
    <2> QED
      BY <1>2, <2>1, <2>2
  <1>6. ASSUME NEW i \in DOMAIN since' PROVE Cardinality(w(since', i)) <= Threshold
    <2>1. CASE since'[i] = t
      <3>1. \A j \in w(since', i) : [place |-> j, time |-> since'[j]] \in times'
        BY <1>4, <1>5, <2>1
      <3>2. w(since', i) \in SUBSET (DOMAIN since')
        OBVIOUS
      <3>3. Cardinality(w(since', i)) <= Cardinality(times') /\ IsFiniteSet(w(since', i))
        <4> HIDE DEF w
        <4>1. IsFiniteSet(DOMAIN since')
          BY <1>2, FS_Interval
        <4> QED
          BY <1>3, <3>1, <3>2, <4>1, WindowCounted, FS_Subset
      <3> HIDE DEF w
      <3> QED
        BY <1>1, <1>3, <3>3, FS_CardinalityType
    <2>2. CASE since'[i] # t
      <3>1. i \in DOMAIN since /\ since[i] = since'[i] /\ since[i] < t
        BY <1>2, <1>4, <2>2
      <3>2. ASSUME NEW j \in DOMAIN since'
            PROVE  j \in w(since', i) <=> j \in w(since, i)
        <4>1. CASE j = n
          BY <1>1, <1>2, <3>1, <4>1
        <4>2. CASE j \in DOMAIN since
          BY <1>2, <3>1, <4>2
        <4> QED
          BY <1>2, <4>1, <4>2
      <3>3. w(since', i) = w(since, i)
        BY <1>2, <3>2
      <3>4. ~(Cardinality(w(since, i)) > Threshold)
        BY <1>1, <3>1, SameCount DEF A!Unreported
      <3>5. Cardinality(w(since, i)) \in Nat
        <4>1. IsFiniteSet(DOMAIN since) /\ w(since, i) \subseteq DOMAIN since
          BY <1>1, <1>2, FS_Interval
        <4> HIDE DEF w
        <4> QED
          BY <4>1, FS_Subset, FS_CardinalityType
      <3> HIDE DEF w
      <3> QED
        BY <1>1, <3>3, <3>4, <3>5
    <2> QED
      BY <2>1, <2>2
  <1>7. ~A!Unreported'
    <2>1. \A i \in DOMAIN since' : Cardinality(w(since', i)) \in Nat
      <3>1. IsFiniteSet(DOMAIN since') /\ \A i : w(since', i) \subseteq DOMAIN since'
        BY <1>2, FS_Interval
      <3> HIDE DEF w
      <3> QED
        BY <3>1, FS_Subset, FS_CardinalityType
    <2>2. \A i \in DOMAIN since' : ~(Cardinality(w(since', i)) > Threshold)
      <3> HIDE DEF w
      <3> QED
        BY <1>1, <1>6, <2>1
    <2> QED
      BY <2>2, SameCount DEF A!Unreported
  <1> QED
    BY <1>4, <1>5, <1>7 DEF InTime

\* The rule sees an event: what it was to see it remembers, or an alert counts it
\* with what the rule remembered.
LEMMA ObserveTold == ASSUME BurstInv, NEW g \in A!Emitters, A!Observe(g) PROVE BurstInv'
  <1> DEFINE e == emitter[g]
             ev == Head(e.todo)
             t == e.now
             many == Cardinality(A!WithNew(t))
             x == A!BurstFires(ev, t) \o A!LongFires(ev, t) \o A!SourceFires(ev)
                  \o A!RiskFires(ev) \o A!GapFires(ev) \o A!DegradedFires
  <1>1. /\ e.at = "observe" /\ DOMAIN e = {"at", "todo", "now", "fires"} /\ t \in Nat
        /\ IsToSee(e) <=> A!IsFallback(ev)
        /\ UNCHANGED <<alertClock, uncounted>>
        /\ IF A!IsFallback(ev)
           THEN IF many > Threshold THEN times' = {} /\ since' = <<>>
                ELSE times' = A!WithNew(t) /\ since' = Append(since, t)
           ELSE UNCHANGED <<times, since>>
        /\ disordered' = (disordered \/ t < lastSeen)
        /\ lastSeen' = IF t > lastSeen THEN t ELSE lastSeen
    BY SameCount DEF BurstInv, AlertTypes, EmitterOK, IsToSee, A!Observe, A!ObserveBurst, A!Burst,
                     A!world, A!stream
  <1>2. /\ DOMAIN emitter' = A!Emitters /\ \A h \in A!Emitters \ {g} : emitter'[h] = emitter[h]
        /\ emitter'[g] = [e EXCEPT !.at = "fire", !.fires = x]
    BY DEF BurstInv, AlertTypes, A!Observe
  <1>3. FirstOnly(x) /\ CountedBy(x) = IF A!IsFallback(ev) /\ many > Threshold THEN many ELSE 0
    BY FiresFirst
  <1>4. /\ IsFiniteSet(A!WithNew(t)) /\ many \in Nat /\ many <= Cardinality(times) + 1
        /\ IsFiniteSet(times) /\ Cardinality(times) \in Nat
    <2>1. IsFiniteSet(times)
      BY DEF BurstInv, Tally
    <2>2. IsFiniteSet(A!Kept(t)) /\ Cardinality(A!Kept(t)) <= Cardinality(times)
      BY <2>1, FS_Subset DEF A!Kept
    <2> DEFINE y == [place |-> Len(since) + 1, time |-> t]
    <2>3. A!WithNew(t) = A!Kept(t) \cup {y}
      BY DEF A!WithNew
    <2> HIDE DEF y
    <2>4. IsFiniteSet(A!WithNew(t)) /\ many \in {Cardinality(A!Kept(t)), Cardinality(A!Kept(t)) + 1}
      BY <2>2, <2>3, FS_AddElement
    <2> QED
      BY <2>1, <2>2, <2>4, FS_CardinalityType
  <1>5. /\ EmitterOK(emitter[g])' /\ ~IsToSee(emitter'[g])
        /\ OwedBy(e) = 0 /\ OwedBy(emitter'[g]) = CountedBy(x) /\ CountedBy(x) \in Nat
    <2> DEFINE f == [e EXCEPT !.at = "fire", !.fires = x]
    <2> HIDE DEF x, many
    <2>1. f.at = "fire" /\ f.fires = x /\ f.now = t /\ DOMAIN f = {"at", "todo", "now", "fires"}
      BY <1>1
    <2>2. emitter'[g] = f
      BY <1>2
    <2> HIDE DEF f
    <2>3. EmitterOK(f) /\ ~IsToSee(f) /\ OwedBy(f) = CountedBy(x)
      BY <1>1, <1>3, <2>1 DEF EmitterOK, IsToSee, OwedBy
    <2>4. CountedBy(x) \in Nat /\ OwedBy(e) = 0
      BY <1>1, <1>3, <1>4 DEF OwedBy
    <2> QED
      BY <2>2, <2>3, <2>4
  <1> HIDE DEF x, many, t, ev
  <1>6. /\ \A h \in A!Emitters : EmitterOK(emitter[h])'
        /\ IsFiniteSet(ToSee') /\ IsFiniteSet(Marks(A!Emitters, Owed'))
        /\ Cardinality(ToSee') + (IF A!IsFallback(ev) THEN 1 ELSE 0) = Cardinality(ToSee)
        /\ Cardinality(Marks(A!Emitters, Owed'))
           = Cardinality(Marks(A!Emitters, Owed)) + CountedBy(x)
    BY <1>1, <1>2, <1>5, Handover, FS_CardinalityType DEF BurstInv, Tally
  <1>7. AlertTypes'
    <2>1. since' \in Seq(Nat) /\ \A y \in times' : y.place \in DOMAIN since' /\ y.time \in Nat
      <3>1. CASE UNCHANGED <<times, since>>
        BY <3>1 DEF BurstInv, AlertTypes
      <3>2. CASE times' = {} /\ since' = <<>>
        BY <3>2
      <3>3. CASE times' = A!WithNew(t) /\ since' = Append(since, t)
        <4>1. since \in Seq(Nat) /\ \A y \in times : y.place \in DOMAIN since /\ y.time \in Nat
          BY DEF BurstInv, AlertTypes
        <4>2. since' \in Seq(Nat) /\ DOMAIN since' = DOMAIN since \cup {Len(since) + 1}
          BY <1>1, <3>3, <4>1
        <4> QED
          BY <1>1, <3>3, <4>1, <4>2 DEF A!WithNew, A!Kept
      <3> QED
        BY <1>1, <3>1, <3>2, <3>3
    <2>2. lastSeen' \in Nat
      BY <1>1 DEF BurstInv, AlertTypes
    <2> QED
      BY <1>1, <1>2, <1>6, <2>1, <2>2 DEF BurstInv, AlertTypes
  <1>8. Tally'
    <2>1. /\ uncounted' = uncounted /\ uncounted \in Int
          /\ uncounted >= Cardinality(ToSee) + Cardinality(times) + Cardinality(Marks(A!Emitters, Owed))
          /\ Cardinality(ToSee) \in Nat /\ Cardinality(Marks(A!Emitters, Owed)) \in Nat
          /\ Cardinality(ToSee') \in Nat
      BY <1>1, <1>6, FS_CardinalityType DEF BurstInv, AlertTypes, Tally
    <2>2. IsFiniteSet(times')
          /\ Cardinality(times') + CountedBy(x)
             <= Cardinality(times) + (IF A!IsFallback(ev) THEN 1 ELSE 0)
      <3>1. CASE ~A!IsFallback(ev)
        BY <1>1, <1>3, <1>4, <3>1
      <3>2. CASE A!IsFallback(ev) /\ many > Threshold
        <4>1. IsFiniteSet(times') /\ Cardinality(times') = 0
          BY <1>1, <3>2, FS_EmptySet
        <4>2. CountedBy(x) = many
          BY <1>3, <3>2
        <4> QED
          BY <1>4, <3>2, <4>1, <4>2
      <3>3. CASE A!IsFallback(ev) /\ ~(many > Threshold)
        <4>1. times' = A!WithNew(t) /\ CountedBy(x) = 0
          BY <1>1, <1>3, <3>3
        <4> QED
          BY <1>4, <3>3, <4>1 DEF many
      <3> QED
        BY <3>1, <3>2, <3>3
    <2>3. Cardinality(times') \in Nat /\ Cardinality(times) \in Nat /\ CountedBy(x) \in Nat
      BY <1>4, <1>5, <2>2, FS_CardinalityType
    <2> QED
      BY <1>6, <2>1, <2>2, <2>3 DEF Tally
  <1>9. InTime'
    <2>1. /\ lastSeen \in Nat /\ Window \in Nat /\ Threshold \in Nat /\ since \in Seq(Nat)
      BY AlertConstants DEF BurstInv, AlertTypes
    <2> SUFFICES ASSUME ~disordered' PROVE InTime'
      BY DEF InTime
    <2>2. ~disordered /\ lastSeen <= t /\ lastSeen' = t
      <3>1. ~disordered /\ ~(t < lastSeen)
        BY <1>1, Zenon
      <3> QED
        BY <1>1, <2>1, <3>1
    <2>3. CASE ~A!IsFallback(ev)
      <3>1. UNCHANGED <<times, since>>
        BY <1>1, <2>3
      <3>2. \A i \in DOMAIN since : since[i] \in Nat
        BY <2>1
      <3>3. /\ \A i \in DOMAIN since :
                 /\ since[i] <= lastSeen
                 /\ since[i] >= lastSeen - Window => [place |-> i, time |-> since[i]] \in times
            /\ ~A!Unreported
        BY <2>2 DEF BurstInv, InTime
      <3>4. ~A!Unreported'
        BY <3>1, <3>3 DEF A!Unreported
      <3>5. ASSUME NEW i \in DOMAIN since
            PROVE  /\ since[i] <= t
                   /\ since[i] >= t - Window => [place |-> i, time |-> since[i]] \in times
        <4>1. since[i] \in Nat /\ since[i] <= lastSeen
          BY <3>2, <3>3
        <4>2. since[i] >= t - Window => since[i] >= lastSeen - Window
          BY <1>1, <2>1, <2>2, <4>1
        <4> QED
          BY <1>1, <2>1, <2>2, <3>3, <4>1, <4>2
      <3> QED
        BY <2>2, <3>1, <3>4, <3>5 DEF InTime
    <2>4. CASE A!IsFallback(ev) /\ many > Threshold
      BY <1>1, <2>4 DEF InTime, A!Unreported
    <2>5. CASE A!IsFallback(ev) /\ ~(many > Threshold)
      <3>1. times' = A!WithNew(t) /\ since' = Append(since, t) /\ many <= Threshold
        BY <1>1, <1>4, <2>1, <2>5
      <3> QED
        BY <1>1, <2>2, <3>1, WindowInTime DEF many
    <2> QED
      BY <2>3, <2>4, <2>5
  <1> QED
    BY <1>7, <1>8, <1>9 DEF BurstInv

\* What happens outside shows the rule nothing.
LEMMA OutsideTold ==
  ASSUME BurstInv, UNCHANGED <<emitter, times, since, disordered, lastSeen, uncounted>>,
         alertClock' \in Nat
  PROVE  BurstInv'
  BY DEF BurstInv, AlertTypes, EmitterOK, Tally, ToSee, Owed, InTime, A!Unreported

LEMMA AlertStep == BurstInv /\ [A!Next]_(A!vars) => BurstInv'
  <1> SUFFICES ASSUME BurstInv, [A!Next]_(A!vars) PROVE BurstInv'
    OBVIOUS
  <1>0. alertClock \in Nat /\ AlertTime \in Nat
    BY AlertConstants DEF BurstInv, AlertTypes
  <1>1. CASE UNCHANGED A!vars
    BY <1>0, <1>1, OutsideTold DEF A!vars
  <1>2. ASSUME NEW r \in Requests, A!Decide(r) PROVE BurstInv'
    <2>1. r \in A!Emitters /\ emitter[r] = A!Idle
          /\ UNCHANGED <<alertClock, times, since, disordered, lastSeen, uncounted>>
      BY <1>2 DEF A!Decide, A!Emitters, A!rulestate, A!world, A!stream
    <2>2. \E todo : emitter' = [emitter EXCEPT ![r].at = "forward", ![r].todo = todo]
      BY <1>2 DEF A!Decide
    <2> QED
      BY <2>1, <2>2, Starts
  <1>3. ASSUME NEW g \in A!Emitters, A!Emit(g) PROVE BurstInv'
    BY <1>3, HandTold, ObserveTold, FireTold DEF A!Emit
  <1>4. CASE A!Beat
    <2>1. A!Beater \in A!Emitters /\ emitter[A!Beater] = A!Idle
          /\ UNCHANGED <<alertClock, times, since, disordered, lastSeen, uncounted>>
      BY <1>4 DEF A!Beat, A!Due, A!Emitters, A!world, A!stream
    <2>2. \E todo : emitter' = [emitter EXCEPT ![A!Beater].at = "forward", ![A!Beater].todo = todo]
      BY <1>4 DEF A!Beat
    <2> QED
      BY <2>1, <2>2, Starts
  <1>5. CASE A!Hang \/ A!Watchdog \/ A!WriteLog \/ A!Change
    BY <1>0, <1>5, OutsideTold DEF A!Hang, A!Watchdog, A!WriteLog, A!Change, A!rulestate,
         A!beatstate, A!world, A!stream
  <1>6. CASE A!Pass
    <2>1. alertClock' \in Nat
      BY <1>0, <1>6 DEF A!Pass, A!Capped
    <2> QED
      BY <1>6, <2>1, OutsideTold DEF A!Pass, A!rulestate
  <1> QED
    BY <1>1, <1>2, <1>3, <1>4, <1>5, <1>6 DEF A!Next

\* Bursts are told exactly, for any requests, sources, threshold and window, and however
\* the requests interleave between reading the clock, the rule and handing the alert on:
\* alerts never count more grants than were handed on, and as long as events are observed
\* in the order of their times no window holds more grants than the threshold without an
\* alert (RuleEngine.Emit, adminFallbackBurstRule.Observe).
THEOREM AlertsCountBursts == A!Spec => []BurstsAreTold
  <1>1. A!Init => BurstInv
    BY ToldInit
  <1>2. BurstInv /\ [A!Next]_(A!vars) => BurstInv'
    BY AlertStep
  <1>3. BurstInv => BurstsAreTold
    BY ToldFollows
  <1> QED
    BY <1>1, <1>2, <1>3, PTL DEF A!Spec
=============================================================================
