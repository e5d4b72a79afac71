------------------------------- MODULE DeployLock ------------------------------
(***************************************************************************)
(* Deployments of the platform itself (internal/selfdeploy/deployer.go):   *)
(* Deploy works under a lock kept in a ConfigMap, which is created only if *)
(* there is none, expires after four hours, and is deleted by name.        *)
(* A deployment gives up after ninety minutes (cmd/platform-deploy), so a  *)
(* lock expires only after its holder has ended.  Rollback takes no lock.  *)
(***************************************************************************)
EXTENDS Naturals

CONSTANTS
    Deployers,      \* processes of cmd/platform-deploy
    MaxHolders      \* bound on the locks created

ASSUME DeployLockAssumption == MaxHolders \in Nat

VARIABLES
    held,       \* the holder's number in the ConfigMap, 0 when there is none
    expired,    \* it was created four hours ago or earlier
    holders,    \* numbers given out: host, process and nanoseconds in the code
    deploying,  \* where each process is
    holder,     \* the number each one has
    found,      \* the number each one has read
    displaced   \* a removal took away another lock than the one that was read

deployLockVars == <<held, expired, holders, deploying, holder, found, displaced>>

Nobody == 0
Working(d) == deploying[d] = "working"
Moves(d, stage) == deploying' = [deploying EXCEPT ![d] = stage]

\* acquireDeployLock: the ConfigMap is created, or the deployment goes on to `otherwise`.
CreateLock(d, otherwise) ==
    IF held = Nobody
      THEN holders < MaxHolders /\ holders' = holders + 1
           /\ held' = holders' /\ expired' = FALSE
           /\ holder' = [holder EXCEPT ![d] = holders'] /\ Moves(d, "working")
      ELSE Moves(d, otherwise) /\ UNCHANGED <<held, expired, holders, holder>>

StartDeploy(d) ==
    /\ deploying[d] = "idle"
    /\ CreateLock(d, "refused")
    /\ UNCHANGED <<found, displaced>>

\* Mutant: the age of the lock is not asked.
ReadAnyHolder(d) ==
    /\ deploying[d] = "refused"
    /\ IF held # Nobody THEN Moves(d, "expired") /\ found' = [found EXCEPT ![d] = held]
       ELSE Moves(d, "idle") /\ UNCHANGED found
    /\ UNCHANGED <<held, expired, holders, holder, displaced>>
\* A lock that has gone meanwhile, or is younger, ends the attempt.
ReadHolder(d) ==
    /\ deploying[d] = "refused"
    /\ IF held # Nobody /\ expired
         THEN Moves(d, "expired") /\ found' = [found EXCEPT ![d] = held]
         ELSE Moves(d, "idle") /\ UNCHANGED found
    /\ UNCHANGED <<held, expired, holders, holder, displaced>>

\* kubectl delete configmap <name> --ignore-not-found
Delete(d, next) ==
    /\ held' = Nobody
    /\ displaced' = (displaced \/ held \notin {Nobody, found[d]})
    /\ Moves(d, next)

RemoveExpired(d) ==
    /\ deploying[d] = "expired"
    /\ Delete(d, "create") \/ (Moves(d, "idle") /\ UNCHANGED <<held, displaced>>)
    /\ UNCHANGED <<expired, holders, holder, found>>

CreateAgain(d) ==
    /\ deploying[d] = "create"
    /\ CreateLock(d, "idle")
    /\ UNCHANGED <<found, displaced>>

\* The deferred release: only the own lock is removed, after it was read.
EndDeploy(d) ==
    /\ Working(d)
    /\ IF held = holder[d] THEN Moves(d, "release") /\ found' = [found EXCEPT ![d] = held]
       ELSE Moves(d, "idle") /\ UNCHANGED found
    /\ UNCHANGED <<held, expired, holders, holder, displaced>>

ReleaseLock(d) ==
    /\ deploying[d] = "release"
    /\ Delete(d, "idle") \/ (Moves(d, "idle") /\ UNCHANGED <<held, displaced>>)
    /\ UNCHANGED <<expired, holders, holder, found>>

Killed(d) ==
    /\ deploying[d] # "idle"
    /\ Moves(d, "idle")
    /\ UNCHANGED <<held, expired, holders, holder, found, displaced>>

\* Four hours after its creation; its holder has given up long before.
ExpireLock ==
    /\ held # Nobody /\ ~expired
    /\ \A d \in Deployers : deploying[d] \in {"working", "release"} => holder[d] # held
    /\ expired' = TRUE
    /\ UNCHANGED <<held, holders, deploying, holder, found, displaced>>

DeployLockInit ==
    /\ held = Nobody /\ expired = FALSE /\ holders = 0
    /\ deploying = [d \in Deployers |-> "idle"]
    /\ holder = [d \in Deployers |-> Nobody] /\ found = [d \in Deployers |-> Nobody]
    /\ displaced = FALSE

DeployLockNext ==
    \/ \E d \in Deployers : \/ StartDeploy(d) \/ ReadHolder(d) \/ RemoveExpired(d)
                            \/ CreateAgain(d) \/ EndDeploy(d) \/ ReleaseLock(d) \/ Killed(d)
    \/ ExpireLock

DeployLockSpec == DeployLockInit /\ [][DeployLockNext]_deployLockVars

-------------------------------------------------------------------------------
(* Properties.                                                             *)

DeployLockTypeOK ==
    /\ held \in Nat /\ holders \in Nat /\ expired \in BOOLEAN /\ displaced \in BOOLEAN
    /\ deploying \in [Deployers -> {"idle", "refused", "expired", "create", "working", "release"}]
    /\ holder \in [Deployers -> Nat] /\ found \in [Deployers -> Nat]

\* "so that old and new images do not overwrite each other": one deployment at a
\* time, as long as no removal took away another lock than the one it had read.
\* Two that read the same expired lock are what breaks it.
OneDeployment ==
    ~displaced => \A c, d \in Deployers : Working(c) /\ Working(d) => c = d
===============================================================================
