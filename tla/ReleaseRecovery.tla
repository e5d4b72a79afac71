---------------------------- MODULE ReleaseRecovery ----------------------------
(***************************************************************************)
(* What a deployment does to a Helm release that an earlier one left       *)
(* half-way (internal/runner/deployment.go): before Terraform applies, the *)
(* runner lists the Terraform state and the Helm releases, and rolls back, *)
(* uninstalls or leaves each enabled component that is not settled.        *)
(*                                                                         *)
(* One component is followed through many jobs, edits of its configuration *)
(* and installations by hand.  Components do not affect one another.       *)
(* Terraform and Helm are external; each command is a step that begins and *)
(* a step that ends, and the job can be interrupted between them.          *)
(***************************************************************************)
EXTENDS Naturals

CONSTANTS
    Kinds,          \* the kinds of component considered
    MaxTries,        \* bound on the jobs run
    MaxEdits        \* bound on edits of the document and installations by hand

Kind == {"data",        \* mysql, redis, activemq, mongodb, rabbitmq, redisinsight, ...
         "console",     \* bytebase, which may also be reinstalled when tracked
         "stack",       \* clickvisual_stack, efk_stack
         "monitoring",  \* prometheus, loki
         "custom",      \* any other chart of the catalogue
         "base"}        \* consul, etcd

ASSUME ReleaseRecoveryAssumption ==
    /\ Kinds \subseteq Kind
    /\ MaxTries \in Nat
    /\ MaxEdits \in Nat

VARIABLES
    kind,
    enabled,    \* components.catalog.<key>.enabled of the document
    retain,     \* values.storage.retainOnDelete of the document
    status,     \* what `helm list` says of the release
    stable,     \* `helm history` has a deployed or superseded revision
    tracked,    \* the Terraform state has the release
    volume,     \* its claims: none, new, or with the data of a release that ran
    kept,       \* the retention policy the installed objects were created with
    step,         \* where the job is
    seen,       \* what it has listed
    tries, edits

document     == <<enabled, retain>>
cluster == <<status, stable, volume, kept>>
recoveryVars == <<kind, document, cluster, tracked, step, seen, tries, edits>>

Pending == {"pending-install", "pending-upgrade", "pending-rollback"}
ReleaseStatus  == Pending \cup {"none", "deployed", "failed", "uninstalling"}
\* `helm list --deployed --failed --pending` does not name the other ones.
Listed(s) == IF s = "uninstalling" THEN "none" ELSE s

Unseen == [enabled |-> FALSE, retain |-> FALSE, status |-> "none", tracked |-> FALSE]

-------------------------------------------------------------------------------
(* The runner's decisions.                                                 *)

DataService == {"data", "console"}

\* The claims of an interrupted first installation may go with it.
Fresh(s) == kind \in DataService /\ s.status = "pending-install"

\* trackedCatalogReleaseSupportsPVCPreservingReinstall
SupportsReinstall(s) == kind \in {"console", "stack"} /\ s.retain

\* reconcileInterruptedBaseServices, or the loop over
\* trackedInterruptedCatalogRepairs: releases the state knows of.
TrackedRepair(s) ==
    IF kind = "base"
      THEN IF s.status \notin Pending THEN "apply"
           ELSE IF stable THEN "rollback" ELSE "refuse"
      ELSE IF s.status \notin Pending THEN "apply"
           ELSE IF stable THEN "rollback"
           ELSE IF SupportsReinstall(s) THEN "verify" ELSE "refuse"

\* Mutant: a healthy release that Terraform does not know of is repaired too.
UntrackedRepairAll(s) ==
    IF kind = "custom" \/ (kind \in DataService /\ ~s.retain) THEN "apply"
    ELSE IF s.status = "none" THEN "apply" ELSE "remove"
\* interruptedDataServiceRepairs: releases the state does not know of.
UntrackedRepair(s) ==
    IF kind = "custom" \/ (kind \in DataService /\ ~s.retain) THEN "apply"
    ELSE IF s.status \in Pending \cup {"failed"} THEN "remove"
    ELSE IF s.status = "deployed" THEN "refuse" ELSE "apply"

\* Mutant: only failed releases are looked at.
RepairFailedOnly(s) ==
    IF ~s.enabled \/ s.status # "failed" THEN "apply"
    ELSE IF s.tracked \/ kind = "base" THEN TrackedRepair(s) ELSE UntrackedRepair(s)
Repair(s) ==
    IF ~s.enabled \/ s.status = "none" THEN "apply"
    ELSE IF s.tracked \/ kind = "base" THEN TrackedRepair(s) ELSE UntrackedRepair(s)

-------------------------------------------------------------------------------
(* A job: deploy for a base service, platform for the others.              *)

StopHere == step' = "idle" /\ seen' = Unseen

\* Run loads the document; the state and the releases are listed.
Inspect ==
    /\ step = "idle" /\ tries < MaxTries
    /\ tries' = tries + 1
    /\ seen' = [enabled |-> enabled, retain |-> retain,
                status |-> Listed(status), tracked |-> tracked]
    /\ step' = "listed"
    /\ UNCHANGED <<kind, document, cluster, tracked, edits>>

Decide ==
    /\ step = "listed"
    /\ IF Repair(seen) = "refuse" THEN StopHere
       ELSE step' = Repair(seen) /\ UNCHANGED seen
    /\ UNCHANGED <<kind, document, cluster, tracked, tries, edits>>

\* Mutant: what the cluster says of the claims is not asked.
TrustConfiguration ==
    /\ step = "verify"
    /\ step' = "remove" /\ UNCHANGED seen
    /\ UNCHANGED <<kind, document, cluster, tracked, tries, edits>>
\* verifyTrackedCatalogPVCProtection: the objects in the cluster, and not only
\* the document, must retain the claims.
VerifyProtection ==
    /\ step = "verify"
    /\ IF kept \/ (kind = "stack" /\ volume = "none") THEN step' = "remove" /\ UNCHANGED seen ELSE StopHere
    /\ UNCHANGED <<kind, document, cluster, tracked, tries, edits>>

\* helm rollback <release> <revision> --wait --cleanup-on-fail
RollBack ==
    /\ step = "rollback"
    /\ status' = "pending-rollback" /\ step' = "rolling"
    /\ UNCHANGED <<kind, document, stable, volume, kept, tracked, seen, tries, edits>>

RolledBack ==
    /\ step = "rolling"
    /\ \/ status' = "deployed" /\ step' = "apply" /\ UNCHANGED seen
       \/ status' = "failed" /\ StopHere
    /\ UNCHANGED <<kind, document, stable, volume, kept, tracked, tries, edits>>

\* helm uninstall <release> --wait
Uninstall ==
    /\ step = "remove"
    /\ status' = "uninstalling" /\ step' = "removing"
    /\ UNCHANGED <<kind, document, stable, volume, kept, tracked, seen, tries, edits>>

Gone == status' = "none" /\ stable' = FALSE /\ kept' = FALSE
        /\ volume' = IF kept THEN volume ELSE "none"

Uninstalled ==
    /\ step = "removing"
    /\ Gone
    /\ step' = IF ~seen.tracked /\ Fresh(seen) /\ volume # "none" THEN "claims" ELSE "apply"
    /\ UNCHANGED <<kind, document, tracked, seen, tries, edits>>

\* kubectl delete persistentvolumeclaim of the names listed for the release.
DeleteClaims ==
    /\ step = "claims"
    /\ volume' = "none"
    /\ step' = "apply"
    /\ UNCHANGED <<kind, document, status, stable, kept, tracked, seen, tries, edits>>

-------------------------------------------------------------------------------
(* Terraform's helm_release, which reads the document's file again.        *)

\* Nothing to change, the name is in use, or another operation holds it.
ApplyStops ==
    /\ step = "apply"
    /\ \/ ~enabled /\ ~tracked
       \/ enabled /\ ~tracked /\ status # "none"
       \/ tracked /\ status \in Pending \cup {"uninstalling"}
    /\ StopHere
    /\ UNCHANGED <<kind, document, cluster, tracked, tries, edits>>

ApplyInstall ==
    /\ step = "apply" /\ enabled /\ status = "none"
    /\ status' = "pending-install" /\ stable' = FALSE
    /\ volume' = IF volume = "none" THEN "new" ELSE volume
    /\ kept' = retain
    /\ step' = "installing"
    /\ tracked' \in {tracked, FALSE}     \* a refresh that finds it gone may be saved
    /\ UNCHANGED <<kind, document, seen, tries, edits>>

ApplyUpgrade ==
    /\ step = "apply" /\ enabled /\ tracked /\ status \in {"deployed", "failed"}
    /\ status' = "pending-upgrade"
    /\ kept' = retain
    /\ step' = "upgrading"
    /\ UNCHANGED <<kind, document, stable, volume, tracked, seen, tries, edits>>

\* A failed installation is recorded in the state or not.
Applied ==
    /\ step \in {"installing", "upgrading"}
    /\ \/ /\ status' = "deployed" /\ stable' = TRUE
          /\ volume' = "data" /\ tracked' = TRUE
       \/ /\ status' = "failed" /\ tracked' \in {tracked, TRUE}
          /\ UNCHANGED <<stable, volume>>
    /\ StopHere
    /\ UNCHANGED <<kind, document, kept, tries, edits>>

ApplyDestroy ==
    /\ step = "apply" /\ ~enabled /\ tracked
    /\ status \in {"deployed", "failed", "none"}
    /\ Gone /\ tracked' = FALSE
    /\ StopHere
    /\ UNCHANGED <<kind, document, tries, edits>>

\* A cancel, the deadline or the death of the process ends the job where it is.
InterruptRecovery ==
    /\ step # "idle"
    /\ StopHere
    /\ UNCHANGED <<kind, document, cluster, tracked, tries, edits>>

-------------------------------------------------------------------------------
(* Around the jobs.                                                        *)

\* A save of the environment, also while a job runs.
EditDocument ==
    /\ edits < MaxEdits /\ edits' = edits + 1
    /\ enabled' \in BOOLEAN /\ retain' \in BOOLEAN
    /\ UNCHANGED <<kind, cluster, tracked, step, seen, tries>>

\* Somebody installs the chart without the platform, between two jobs.
InstallByHand ==
    /\ edits < MaxEdits /\ edits' = edits + 1
    /\ step = "idle" /\ status = "none" /\ ~tracked
    /\ status' = "deployed" /\ stable' = TRUE /\ volume' = "data"
    /\ kept' \in BOOLEAN
    /\ UNCHANGED <<kind, document, tracked, step, seen, tries>>

RecoveryInit ==
    /\ kind \in Kinds
    /\ enabled \in BOOLEAN /\ retain \in BOOLEAN
    /\ status = "none" /\ stable = FALSE /\ tracked = FALSE
    /\ volume = "none" /\ kept = FALSE
    /\ step = "idle" /\ seen = Unseen
    /\ tries = 0 /\ edits = 0

Recover == \/ Inspect \/ Decide \/ VerifyProtection \/ RollBack \/ RolledBack
           \/ Uninstall \/ Uninstalled \/ DeleteClaims
TerraformApply   == \/ ApplyStops \/ ApplyInstall \/ ApplyUpgrade \/ Applied \/ ApplyDestroy
RecoveryNext    == Recover \/ TerraformApply \/ InterruptRecovery \/ EditDocument \/ InstallByHand

RecoverySpec == RecoveryInit /\ [][RecoveryNext]_recoveryVars

-------------------------------------------------------------------------------
(* Properties.                                                             *)

RecoveryTypeOK ==
    /\ kind \in Kinds
    /\ enabled \in BOOLEAN /\ retain \in BOOLEAN
    /\ status \in ReleaseStatus /\ stable \in BOOLEAN /\ tracked \in BOOLEAN
    /\ volume \in {"none", "new", "data"} /\ kept \in BOOLEAN
    /\ step \in {"idle", "listed", "rollback", "rolling", "verify", "remove", "removing",
               "claims", "apply", "installing", "upgrading"}
    /\ seen \in [enabled : BOOLEAN, retain : BOOLEAN, status : ReleaseStatus, tracked : BOOLEAN]
    /\ tries \in 0 .. MaxTries /\ edits \in 0 .. MaxEdits

\* "so the platform never deletes a running service": what a retry uninstalls is
\* not a release that Helm reports as deployed, and no rollback is asked of one
\* without a successful revision.
RunningReleasesStay ==
    /\ step = "remove" => status # "deployed"
    /\ step = "rollback" => stable

\* The recovery clears Helm's operation lock: Terraform never meets a release of
\* a component the recovery knows that an earlier job left pending.
Recoverable == \/ tracked \/ kind = "base"
               \/ kind \in DataService /\ seen.retain
               \/ kind \in {"stack", "monitoring"}
TerraformMeetsNoPending ==
    (step = "apply" /\ seen.enabled /\ Recoverable) => status \notin Pending

\* Volumes with data outlive the recovery of a release Terraform knows, whatever
\* the document says meanwhile of their retention, and the recovery of every
\* component whose claims may hold what was installed by hand.
LosesData == volume = "data" /\ volume' # "data"
RecoveryKeepsVolumes ==
    [][LosesData => /\ step = "removing" => ~seen.tracked
                    /\ step = "claims" => kind \in DataService]_recoveryVars
===============================================================================
