------------------------------ MODULE ProxyLife ------------------------------
(***************************************************************************)
(* The life of `kbounce run`: the command checks what it was asked, opens   *)
(* the store and the audit channels, starts the server in a goroutine of    *)
(* its own and waits for a signal or for the server to fail.  The server    *)
(* starts the watchers before it listens.  On a signal the watchers are     *)
(* stopped and joined, the listener is closed, the requests in flight have  *)
(* what is left of a time limit, and the deferred closers run.              *)
(*                                                                          *)
(* The clients, the upstream and what the requests decide are external.     *)
(***************************************************************************)
EXTENDS FiniteSets

CONSTANTS
    Request,     \* requests
    Kind,        \* what they may be: "rest", "watch", "upgrade", "probe"
    Watcher,     \* the goroutines the server starts
    Config       \* how the process may be started

VARIABLES
    conf,        \* how the process was started
    cmd,         \* where the command is
    result,      \* how it ended
    open,        \* "store" and "audit", while they are open
    upstream,    \* what requests are forwarded to
    serve,       \* where the goroutine of the server is
    listened,    \* the server has listened
    shutting,    \* the server has been told to shut down
    watcher,     \* of each watcher: "off", "idle", "busy" or "ended"
    stop,        \* watchers whose channel has been closed
    signalled,   \* an interrupt or a SIGTERM has arrived
    expired,     \* the time limit of the shutdown has run out
    req,         \* of each request, its kind, where it is and what has closed
    touched      \* who used what had been closed

vars == <<conf, cmd, result, open, upstream, serve, listened, shutting, watcher, stop,
          signalled, expired, req, touched>>

command == <<conf, cmd, result, open, upstream>>
server  == <<serve, listened, shutting>>
helpers == <<watcher, stop>>
clock   == <<signalled, expired>>
-----------------------------------------------------------------------------
(* What the command checks before it serves, in this order.  A check that    *)
(* fails returns; what had been opened is closed on the way out.             *)

StageFaults ==
    [flags    |-> {"preset", "mode", "policy", "prompts", "bind", "token"},
     store    |-> {"store"},
     upstream |-> {"bundle"},
     profiles |-> {"profiles", "profile"},
     tls      |-> {"pair", "client"},
     audit    |-> {"audit"},
     disk     |-> {"disk"},
     anomaly  |-> {"anomaly"}]

NextStage ==
    [flags |-> "store", store |-> "upstream", upstream |-> "profiles", profiles |-> "tls",
     tls |-> "audit", audit |-> "disk", disk |-> "anomaly", anomaly |-> "launch"]

\* buildListenerTLSConfig: what is wrong with the key pair, or with the clients' CA.
ListenerFaults == {"keys", "clientCA"}

None == [url |-> "none", trust |-> "none"]
BundleError == [url |-> "error", trust |-> "bundle"]

\* buildTLSConfig: a pinned bundle replaces the CA of the kubeconfig; whether
\* the certificate is looked at at all is the flag's and the kubeconfig's.
TLSConfig(c, url) ==
    CASE url = "http" /\ c.bundle = "none"         -> [url |-> url, trust |-> "none"]
      [] url = "http" \/ c.bundle = "bad"          -> BundleError
      [] c.bundle = "none" /\ c.kube = "badCA"     -> None
      [] c.insecure \/ c.kube = "insecure"         -> [url |-> url, trust |-> "anything"]
      [] c.bundle = "good"                         -> [url |-> url, trust |-> "bundle"]
      [] c.kube = "ok" \/ c.flag = "none"          -> [url |-> url, trust |-> "cluster"]
      [] OTHER                                     -> [url |-> url, trust |-> "system"]

\* Resolve: the flag, the kubeconfig, the cluster the process runs in.  Every
\* error but one about the bundle leaves the proxy observing only.
Resolve(c) ==
    LET url == CASE c.flag # "none"                       -> c.flag
                 [] c.kube \in {"ok", "insecure", "badCA"} -> "https"
                 [] c.inCluster                            -> "https"
                 [] OTHER                                  -> "none"
    IN IF url \in {"http", "https"} THEN TLSConfig(c, url) ELSE None

Init ==
    /\ conf \in Config
    /\ cmd = "flags" /\ result = "none" /\ open = {} /\ upstream = None
    /\ serve = "none" /\ listened = FALSE /\ shutting = FALSE
    /\ watcher = [w \in Watcher |-> "off"] /\ stop = {}
    /\ signalled = FALSE /\ expired = FALSE
    /\ req = [r \in Request |-> [kind |-> "none", at |-> "none", ended |-> {}]]
    /\ touched = {}

\* No process: nothing happens.
Rest ==
    /\ conf = CHOOSE c \in Config : c.fault = "none"
    /\ cmd = "returned" /\ result = "none" /\ open = {} /\ upstream = None
    /\ serve = "none" /\ listened = FALSE /\ shutting = FALSE
    /\ watcher = [w \in Watcher |-> "off"] /\ stop = {}
    /\ signalled = FALSE /\ expired = FALSE
    /\ req = [r \in Request |-> [kind |-> "none", at |-> "none", ended |-> {}]]
    /\ touched = {}
-----------------------------------------------------------------------------
(* The command *)

Running == cmd # "returned"

Return(how) == cmd' = "unwind" /\ result' = how

Fails(stage) ==
    \/ conf.fault \in StageFaults[stage]
    \/ stage = "upstream" /\ Resolve(conf) = BundleError

Start ==
    /\ cmd \in DOMAIN StageFaults
    /\ IF Fails(cmd) THEN Return("refused") /\ UNCHANGED <<open, upstream>>
       ELSE /\ cmd' = NextStage[cmd]
            /\ open' = open \cup ({cmd} \cap {"store", "audit"})
            /\ upstream' = IF cmd = "upstream" THEN Resolve(conf) ELSE upstream
            /\ UNCHANGED result
    /\ UNCHANGED <<conf, server, helpers, clock, req, touched>>

Launch ==
    /\ cmd = "launch"
    /\ cmd' = "select" /\ serve' = "starting"
    /\ UNCHANGED <<conf, result, open, upstream, listened, shutting, helpers, clock, req, touched>>

\* The signals are caught from here on; before, one ends the process.
Signal ==
    /\ cmd = "select" /\ ~signalled
    /\ signalled' = TRUE
    /\ UNCHANGED <<command, server, helpers, expired, req, touched>>

\* The select: of a signal and an error that are both there it takes either.
SelectSignal ==
    /\ cmd = "select" /\ signalled
    /\ cmd' = "stopping"
    /\ UNCHANGED <<conf, result, open, upstream, server, helpers, clock, req, touched>>

SelectError ==
    /\ cmd = "select" /\ serve = "failed"
    /\ Return("failed")
    /\ UNCHANGED <<conf, open, upstream, server, helpers, clock, req, touched>>

\* The limit runs from before the watchers are stopped.
Timeout ==
    /\ cmd \in {"stopping", "joining", "draining"} /\ ~expired
    /\ expired' = TRUE
    /\ UNCHANGED <<command, server, helpers, signalled, req, touched>>

StopWatchers ==
    /\ cmd = "stopping"
    /\ stop' = {w \in Watcher : watcher[w] # "off"}
    /\ cmd' = "joining"
    /\ UNCHANGED <<conf, result, open, upstream, server, watcher, clock, req, touched>>

Joined == \A w \in Watcher : watcher[w] \in {"off", "ended"}

JoinAtOnce ==
    /\ cmd = "joining"
    /\ shutting' = TRUE /\ cmd' = "draining"
    /\ UNCHANGED <<conf, result, open, upstream, serve, listened, helpers, clock, req, touched>>

\* The watchers are waited for as long as it takes; then the listener closes.
Join ==
    /\ cmd = "joining" /\ Joined
    /\ shutting' = TRUE /\ cmd' = "draining"
    /\ UNCHANGED <<conf, result, open, upstream, serve, listened, helpers, clock, req, touched>>

\* A connection that was hijacked is the server's no more.
Hijacked == {"dial", "pipe"}
InFlight == {r \in Request : req[r].at \notin {"none", "answered"} \cup Hijacked}

Drained ==
    /\ cmd = "draining" /\ InFlight = {}
    /\ cmd' = "awaiting"
    /\ UNCHANGED <<conf, result, open, upstream, server, helpers, clock, req, touched>>

DrainWithoutLimit ==
    /\ cmd = "draining" /\ InFlight = {} /\ expired
    /\ Return("shutdownError")
    /\ UNCHANGED <<conf, open, upstream, server, helpers, clock, req, touched>>

DrainTimeout ==
    /\ cmd = "draining" /\ InFlight # {} /\ expired
    /\ Return("shutdownError")
    /\ UNCHANGED <<conf, open, upstream, server, helpers, clock, req, touched>>

Await ==
    /\ cmd = "awaiting" /\ serve \in {"closed", "failed"}
    /\ Return(IF serve = "failed" THEN "failed" ELSE "stopped")
    /\ UNCHANGED <<conf, open, upstream, server, helpers, clock, req, touched>>

\* The deferred calls: the audit channels before the store.
Unwind ==
    /\ cmd = "unwind"
    /\ CASE "audit" \in open -> open' = open \ {"audit"} /\ UNCHANGED cmd
         [] open = {"store"} -> open' = {} /\ UNCHANGED cmd
         [] OTHER            -> cmd' = "returned" /\ UNCHANGED open
    /\ UNCHANGED <<conf, result, upstream, server, helpers, clock, req, touched>>
-----------------------------------------------------------------------------
(* The goroutine of the server and the watchers *)

StartWatchers ==
    /\ Running /\ serve = "starting"
    /\ watcher' = [w \in Watcher |-> "idle"]
    /\ serve' = "binding"
    /\ UNCHANGED <<command, listened, shutting, stop, clock, req, touched>>

\* What the files and the port make of it; a server told to shut down is closed.
Bind ==
    /\ Running /\ serve = "binding"
    /\ serve' = CASE conf.fault \in ListenerFaults -> "failed"
                  [] shutting                       -> "closed"
                  [] conf.fault = "port"            -> "failed"
                  [] OTHER                          -> "serving"
    /\ listened' = (serve' = "serving")
    /\ UNCHANGED <<command, shutting, helpers, clock, req, touched>>

ServeReturns ==
    /\ Running /\ serve = "serving" /\ shutting
    /\ serve' = "closed"
    /\ UNCHANGED <<command, listened, shutting, helpers, clock, req, touched>>

\* Somebody who needs the store or the audit channels and finds them closed.
Touch(who) == touched' = IF open = {"store", "audit"} THEN touched ELSE touched \cup {who}

Tick(w) ==
    /\ Running /\ watcher[w] = "idle"
    /\ watcher' = [watcher EXCEPT ![w] = "busy"]
    /\ Touch(w)
    /\ UNCHANGED <<command, server, stop, clock, req>>

TickDone(w) ==
    /\ Running /\ watcher[w] = "busy"
    /\ watcher' = [watcher EXCEPT ![w] = "idle"]
    /\ UNCHANGED <<command, server, stop, clock, req, touched>>

WatcherEnds(w) ==
    /\ Running /\ watcher[w] = "idle" /\ w \in stop
    /\ watcher' = [watcher EXCEPT ![w] = "ended"]
    /\ UNCHANGED <<command, server, stop, clock, req, touched>>
-----------------------------------------------------------------------------
(* Requests *)

Move(r, from, to) ==
    /\ Running /\ req[r].at = from
    /\ req' = [req EXCEPT ![r].at = to]
    /\ UNCHANGED <<command, server, helpers, clock>>

Accept(r) ==
    /\ Running /\ serve = "serving" /\ ~shutting /\ req[r].at = "none"
    /\ \E k \in Kind : req' = [req EXCEPT ![r].kind = k, ![r].at = "handling"]
    /\ UNCHANGED <<command, server, helpers, clock, touched>>

\* The breaker refuses before anything is read (see DiskPressure).
Refuse(r) == req[r].kind # "probe" /\ Move(r, "handling", "answered") /\ UNCHANGED touched

\* The endpoints that evaluate nothing, /healthz among them.
Probe(r) == req[r].kind = "probe" /\ Move(r, "handling", "answered") /\ Touch(r)

\* An enforced denial answers 403, or waits for a person (see SyncPrompt).
Deny(r) ==
    /\ req[r].kind # "probe"
    /\ \E to \in {"answered", "prompt"} : Move(r, "handling", to)
    /\ Touch(r)

\* Without an upstream, and for another host, the proxy answers itself.
Where(k) == CASE k = "rest" -> "forward" [] k = "watch" -> "stream" [] OTHER -> "dial"

Allow(r) ==
    /\ req[r].kind # "probe"
    /\ \E to \in {"answered"} \cup IF upstream = None THEN {} ELSE {Where(req[r].kind)} :
           Move(r, "handling", to)
    /\ Touch(r)

\* An answer in time forwards the buffered way, whatever the request was.
PromptEnds(r) ==
    /\ \E to \in {"answered"} \cup IF upstream = None THEN {} ELSE {"forward"} :
           Move(r, "prompt", to)
    /\ Touch(r)

\* The response or an error; the client's body is read, the response written,
\* as fast as the client does.
Forwarded(r) == Move(r, "forward", "answered") /\ UNCHANGED touched

\* A watch has no time limit: it ends with the upstream or with the client.
StreamEnds(r) == Move(r, "stream", "answered") /\ UNCHANGED touched

\* Dialled and upgraded, or what went wrong is written to the connection.
Dialled(r) == (\E to \in {"answered", "pipe"} : Move(r, "dial", to)) /\ UNCHANGED touched

\* One direction of a pipe ends when its reader or its writer has closed.
DirectionEnds(r, d) ==
    /\ Running /\ req[r].at = "pipe" /\ d \notin req[r].ended
    /\ req' = [req EXCEPT ![r].ended = @ \cup {d}]
    /\ UNCHANGED <<command, server, helpers, clock, touched>>

\* Both are waited for.
PipeEnds(r) ==
    /\ req[r].ended = {"toUpstream", "toClient"}
    /\ Move(r, "pipe", "answered") /\ UNCHANGED touched
-----------------------------------------------------------------------------
CommandSteps ==
    Start \/ Launch \/ SelectSignal \/ SelectError \/ StopWatchers \/ Join \/ Drained
    \/ DrainTimeout \/ Await \/ Unwind

ServerSteps == StartWatchers \/ Bind \/ ServeReturns

RequestSteps(r) ==
    \/ Accept(r) \/ Refuse(r) \/ Probe(r) \/ Deny(r) \/ Allow(r) \/ PromptEnds(r)
    \/ Forwarded(r) \/ StreamEnds(r) \/ Dialled(r) \/ PipeEnds(r)
    \/ \E d \in {"toUpstream", "toClient"} : DirectionEnds(r, d)

Next ==
    \/ CommandSteps \/ ServerSteps \/ Signal \/ Timeout
    \/ \E w \in Watcher : Tick(w) \/ TickDone(w) \/ WatcherEnds(w)
    \/ \E r \in Request : RequestSteps(r)

\* The process runs and its timer goes off; a tick ends.  The select of a
\* watcher takes either of a tick and a closed channel, so a watcher that meets
\* the closed channel again and again takes it some time.  Nothing is asked of
\* clients, of the upstream or of the people who answer.
Fairness ==
    /\ WF_vars(CommandSteps) /\ WF_vars(ServerSteps) /\ WF_vars(Timeout)
    /\ \A w \in Watcher : WF_vars(TickDone(w)) /\ SF_vars(WatcherEnds(w))
    /\ \A r \in Request : WF_vars(PipeEnds(r))

Spec == Init /\ [][Next]_vars /\ Fairness
-----------------------------------------------------------------------------
TypeOK ==
    /\ conf \in Config /\ open \subseteq {"store", "audit"} /\ stop \subseteq Watcher
    /\ result \in {"none", "refused", "failed", "shutdownError", "stopped"}
    /\ watcher \in [Watcher -> {"off", "idle", "busy", "ended"}]
    /\ touched \subseteq Watcher \cup Request

\* A process that says it stopped, and had come to listen, left nothing behind:
\* no watcher runs, nobody has used the store or the audit channels after they
\* were closed, and every request it took has its answer or had its connection
\* taken over.  A server told to stop joins its watchers before it returns so
\* that the store is not in use when its owner closes it.
CleanStop ==
    result = "stopped" /\ listened => Joined /\ touched = {} /\ InFlight = {}

\* Once the server has listened a signal ends the process, though clients and
\* upstream never answer: the shutdown has a time limit.
StopsInTime == (cmd = "stopping" /\ listened) ~> cmd = "returned"

-----------------------------------------------------------------------------
(* What the code does not promise: MCProcessLimits.cfg *)

\* A signal before the server's goroutine runs: when the watchers start after
\* the channels were closed and before they are waited for, the wait is for ever.
SignalStops == signalled ~> cmd = "returned"

\* A signal before the server's goroutine runs finds no watcher to stop; they
\* start afterwards and outlive the shutdown.
EarlyStopIsClean == result = "stopped" => Joined /\ touched = {}

\* A server that fails to listen leaves its watchers running while the store
\* is closed.
FailureIsClean == result = "failed" => touched = {}

\* An upgraded connection is piped until both sides have closed.
EitherSideEnds ==
    \A r \in Request : req[r].ended # {} ~> (req[r].at = "answered" \/ ~Running)

\* A pinned bundle does not switch verification back on.
PinnedIsVerified == conf.bundle = "good" => upstream.trust \in {"none", "bundle"}
=============================================================================
