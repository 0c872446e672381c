---------------------------- MODULE MCOperations ----------------------------
(***************************************************************************)
(* The parts of the process that share nothing with each other: calendar   *)
(* jobs, access to the API, the load of model support, one pop of the      *)
(* usage queue and the normalization of passive quota signals.  A          *)
(* behaviour is one of one part, so that the state spaces add up and do    *)
(* not multiply.                                                           *)
(***************************************************************************)
EXTENDS DatabaseBackup, ApiAccess, ModelSupport, QueueClient, PassiveQuota

VARIABLE focus   \* the part a behaviour is of

allVars == <<backupVars, accessVars, supportVars, popVars, passiveVars, focus>>

\* The first account is of a type without a catalog.
MCChannelOf == [a \in Accounts |-> IF a = "a1" THEN NoChannel ELSE "x"]

MCInit ==
    /\ focus \in {"backup", "access", "support", "queue", "passive"}
    /\ BackupInit /\ AccessInit /\ SupportInit /\ PopInit /\ PassiveInit
    /\ focus = "backup" \/ interval = Min(Intervals)
    /\ focus = "access" \/ ~signed
    /\ focus = "support" \/ upstream = [a \in Accounts |-> {}]

MCNext ==
    /\ UNCHANGED focus
    /\ \/ /\ focus = "backup" /\ BackupNext
          /\ UNCHANGED <<accessVars, supportVars, popVars, passiveVars>>
       \/ /\ focus = "access" /\ AccessNext
          /\ UNCHANGED <<backupVars, supportVars, popVars, passiveVars>>
       \/ /\ focus = "support" /\ SupportNext
          /\ UNCHANGED <<backupVars, accessVars, popVars, passiveVars>>
       \/ /\ focus = "queue" /\ PopNext
          /\ UNCHANGED <<backupVars, accessVars, supportVars, passiveVars>>
       \/ /\ focus = "passive" /\ PassiveNext
          /\ UNCHANGED <<backupVars, accessVars, supportVars, popVars>>

MCSpec ==
    /\ MCInit /\ [][MCNext]_allVars
    /\ focus = "backup" => BackupFairness

\* JobsGoOn, in the behaviours that are the calendar jobs': whatever fails and
\* however the process stops, backups succeed and cleanups run again and again.
BackupJobsGoOn == focus = "backup" => JobsGoOn

=============================================================================
