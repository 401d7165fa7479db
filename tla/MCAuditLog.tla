----------------------------- MODULE MCAuditLog -----------------------------
(* The log with its mishaps, or the log with the commands that look after its files.
   These only read what a mishap left, so the two are not combined: a behaviour is of
   one of them. *)
EXTENDS LogCommands

CONSTANTS Parts, LogSeconds    \* how far the clock goes in the log's part

VARIABLE part

allvars == <<part, vars, commands>>

MCInit == part \in Parts /\ Init /\ InitCommands

\* One process of the proxy, which meets with no mishap.
Quiet == mishaps'.faults = 0 /\ worker' # "down" /\ cli'.runs = 0

MCNext ==
    \/ part = "log" /\ Next /\ now' <= LogSeconds /\ UNCHANGED <<part, commands>>
    \/ part = "commands" /\ NextCommands /\ Quiet /\ UNCHANGED part

WorkStep ==
    /\ Work /\ UNCHANGED part
    /\ IF part = "log" THEN UNCHANGED commands ELSE Watch /\ Quiet

\* The fairness of AuditLog.  The commands owe nobody an answer.
MCSpec == MCInit /\ [][MCNext]_allvars /\ WF_allvars(WorkStep)
-----------------------------------------------------------------------------
\* What the verifiers, and the bundle, show (AuditLog, LogCommands).
ReadersAreRight == VerifyIsHonest /\ StricterOfTwo /\ BundlesAreSound
=============================================================================
