--------------------------- MODULE MCProfilesFile ---------------------------
(***************************************************************************)
(* The files that processes share: profiles.yaml under any two commands, and *)
(* the SQLite file under the proxy, another process, a backup and a restore. *)
(* A behaviour is of one or the other.                                       *)
(***************************************************************************)
EXTENDS ProfilesFile, TLC

CONSTANTS c1, c2, c3
CONSTANTS Parts, Openers, Proxy, Columns, Includes, MaxBorn, MaxCrashes, MaxOpens, MaxRestores

VARIABLES part, inode, path, wal, proc, backup, saver, restorer, born, crashes, opens, restores,
          disturbed, failed

S == INSTANCE StoreFile

ASSUME MCFilesAssumption == S!ConstantsAssumption

CmdSymmetry == Permutations(Cmd)
AllKinds == {"answer", "allow", "agent", "save", "install", "import", "defaults", "doctor"}
MCIncludes == {{}, {"audit", "prompts"}}
MCOddIncludes == {{}, {"prompts"}}

store == <<inode, path, wal, proc, backup, saver, restorer, born, crashes, opens, restores,
           disturbed, failed>>

MCInit ==
    /\ Init /\ S!Init
    /\ part \in Parts /\ (part = "store" => file = NoFile)

MCNext ==
    \/ part = "profiles" /\ Next /\ UNCHANGED <<part, store>>
    \/ part = "store" /\ S!Next /\ UNCHANGED <<part, vars>>

MCSpec == MCInit /\ [][MCNext]_<<part, vars, store>>
-----------------------------------------------------------------------------
\* An open store has its whole schema (StoreFile).
OpenedIsCurrent == S!OpenedIsCurrent

\* A restore that succeeds leaves the backup, and nothing else (StoreFile).
RestoredIsBackup == S!RestoredIsBackup

OpenSucceeds == S!OpenSucceeds
UnfinishedIsRefused == S!UnfinishedIsRefused
RestoredWhoeverLooks == S!RestoredWhoeverLooks
PromptsPointHome == S!PromptsPointHome
=============================================================================
