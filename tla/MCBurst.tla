------------------------------- MODULE MCBurst -------------------------------
(* Burst twice over the same variables: answerers racing on a small burst, and the
   detector alone, whose prompts nobody answers, with a longer clock. *)
EXTENDS Burst, TLC

CONSTANTS DetectorRequests, DetectorTime, DetectorRestarts

VARIABLE kind

D == INSTANCE Burst WITH Requests <- DetectorRequests, Decisions <- {},
                         Shapes <- Shapes \ (Blank \cup Malformed),
                         Blank <- {}, Malformed <- {}, Floored <- {},
                         MaxTime <- DetectorTime, MaxRestarts <- DetectorRestarts

ASSUME MCBurstAssumption == ConstantsAssumption /\ D!ConstantsAssumption

\* One clock unit for "10min"; a session outlives the run.
MCTtl == "10min" :> 1 @@ "3h" :> 2 @@ "session" :> 9

MCInit == \/ kind = "answers" /\ Init
          \/ kind = "detector" /\ D!Init

MCNext == /\ UNCHANGED kind
          /\ \/ kind = "answers" /\ Next
             \/ kind = "detector" /\ D!Next

MCSpec == MCInit /\ [][MCNext]_<<kind, vars>>

Symmetry == Permutations(Requests) \cup Permutations(DetectorRequests)
=============================================================================
