------------------------------ MODULE MCOperations -----------------------------
(***************************************************************************)
(* One run for the components that do not share state: the part that moves *)
(* is chosen at the start, the others keep their first state.              *)
(***************************************************************************)
EXTENDS ReleaseRecovery, StateMigration, StorageResize, StateLock, DeployLock,
        BuildTrigger, StaticCDN, KubeTunnel, MCNamespaces, PipelineSync

VARIABLE part

Part == {"recovery", "migration", "resize", "statelock", "deploylock", "build", "cdn", "tunnels",
          "namespaces", "pipeline"}

\* A part that does not move has one first state.
RecoveryRests == part # "recovery" => kind = "base" /\ enabled /\ retain
MigrationRests ==
    part # "migration" => /\ {localState, legacy, staged} = {Absent} /\ owned
                          /\ centre = CHOOSE c \in Centres : TRUE

NamespacesRest == part # "namespaces" => config["b"] = NoDoc /\ config["a"].target = "managed"

OperationsInit ==
    /\ part \in Part
    /\ RecoveryInit /\ RecoveryRests
    /\ MigrationInit /\ MigrationRests
    /\ ResizeInit /\ StateLockInit /\ DeployLockInit /\ BuildInit /\ CDNInit
    /\ TunnelInit /\ PlanInit /\ NamespacesRest /\ PipelineInit

OperationsNext ==
    /\ UNCHANGED part
    /\ \/ part = "recovery" /\ RecoveryNext
       \/ part # "recovery" /\ UNCHANGED recoveryVars
    /\ \/ part = "migration" /\ MigrationNext
       \/ part # "migration" /\ UNCHANGED migrationVars
    /\ \/ part = "resize" /\ ResizeNext
       \/ part # "resize" /\ UNCHANGED resizeVars
    /\ \/ part = "statelock" /\ StateLockNext
       \/ part # "statelock" /\ UNCHANGED lockVars
    /\ \/ part = "deploylock" /\ DeployLockNext
       \/ part # "deploylock" /\ UNCHANGED deployLockVars
    /\ \/ part = "build" /\ ~broken /\ BuildNext
       \/ part # "build" /\ UNCHANGED buildVars
    /\ \/ part = "cdn" /\ ~upset /\ CDNNext
       \/ part # "cdn" /\ UNCHANGED cdnVars
    /\ \/ part = "tunnels" /\ TunnelNext
       \/ part # "tunnels" /\ UNCHANGED tunnelVars
    /\ \/ part = "namespaces" /\ PlanNext /\ Bounded'
       \/ part # "namespaces" /\ UNCHANGED planVars
    /\ \/ part = "pipeline" /\ ~crossed /\ PipelineNext
       \/ part # "pipeline" /\ UNCHANGED pipelineVars

operationsVars == <<part, recoveryVars, migrationVars, resizeVars, lockVars, deployLockVars,
                    buildVars, cdnVars, tunnelVars, planVars, pipelineVars>>
\* What changes: the part that moves.
Moving ==
    CASE part = "recovery" -> <<part, recoveryVars>>
      [] part = "migration" -> <<part, migrationVars>>
      [] part = "resize" -> <<part, resizeVars>>
      [] part = "statelock" -> <<part, lockVars>>
      [] part = "deploylock" -> <<part, deployLockVars>>
      [] part = "build" -> <<part, buildVars>>
      [] part = "cdn" -> <<part, cdnVars>>
      [] part = "tunnels" -> <<part, tunnelVars>>
      [] part = "namespaces" -> <<part, planVars>>
      [] part = "pipeline" -> <<part, pipelineVars>>

OperationsSpec == OperationsInit /\ [][OperationsNext]_operationsVars
===============================================================================
