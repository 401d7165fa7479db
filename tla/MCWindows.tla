------------------------------ MODULE MCWindows ------------------------------
(* The two kinds of row that end by themselves when somebody looks: pause
   windows and task scopes.  They share no state, so a behaviour is one of
   either and the other stays as it began. *)
EXTENDS Pause, TLC

CONSTANTS Enders, TaskRequests, Owners, ProxyOwner, TaskDurations, MaxTasks, MaxTaskTime

VARIABLES kind, taskClock, tasks, taskCount, taskLoc

T == INSTANCE TaskScope
       WITH Requests <- TaskRequests, Durations <- TaskDurations, MaxTime <- MaxTaskTime,
            clock <- taskClock, count <- taskCount, loc <- taskLoc

ASSUME MCWindowsAssumption == ConstantsAssumption /\ T!ConstantsAssumption

taskVars == <<taskClock, tasks, taskCount, taskLoc>>

WindowsInit == kind \in {"pause", "task"} /\ Init /\ T!Init

WindowsNext ==
    \/ kind = "pause" /\ Next /\ UNCHANGED <<kind, taskVars>>
    \/ kind = "task"  /\ T!Next /\ UNCHANGED <<kind, vars>>

WindowsSpec == WindowsInit /\ [][WindowsNext]_<<kind, vars, taskVars>>

Symmetry == Permutations(Requests)
-----------------------------------------------------------------------------
\* One window at a time, and none outlives its end.  Nested windows are refused
\* (StartPause), as is a second active task of one owner (AddTask), whatever
\* expiries and ends come in between; and though nothing but lookups ends a window
\* or a task, no request is evaluated under one that had run out when it looked.
OneCurrentWindow ==
    /\ OneOpenPause /\ BypassEndsOnTime
    /\ T!OneActivePerOwner /\ T!ScopeIsCurrent

OneActivePerOwner == T!OneActivePerOwner
RefusalMeansRunning == T!RefusalMeansRunning
=============================================================================
