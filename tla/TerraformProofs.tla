--------------------------- MODULE TerraformProofs ----------------------------
(***************************************************************************)
(* What a job that is cut off or fails half-way may never do to what it    *)
(* works on, for every value of the constants: the Helm releases it        *)
(* recovers, the copies of a Terraform state it moves to the central       *)
(* bucket, the volumes it resizes, and the namespaces it shares with other *)
(* environments of the cluster.                                            *)
(***************************************************************************)
EXTENDS ReleaseRecovery, StateMigration, StorageResize, ComponentPlan, TLAPS

-------------------------------------------------------------------------------
(* Releases.  Between the listing and Terraform nobody else touches one:   *)
(* what the job has seen is still true when it acts on it.                 *)

USE ReleaseRecoveryAssumption
USE DEF Kind, Pending, ReleaseStatus, DataService

\* The job has listed the state, and Terraform has not begun.
Preparing == step \in {"listed", "rollback", "rolling", "verify", "remove", "removing",
                       "claims", "apply"}

\* What was seen of the state is the state; what was seen of Helm is what Helm
\* says until the job's own first command.
SeenIsTrue ==
    /\ Preparing => seen.tracked = tracked
    /\ step \in {"listed", "rollback", "verify", "remove"} => seen.status = Listed(status)

\* Which releases each command is given.
CommandsAreDue ==
    /\ step = "rollback" => stable
    /\ step = "verify" => seen.status \in Pending
    /\ step = "remove" => seen.status \in Pending \cup {"failed"}
    /\ step \in {"remove", "removing"} /\ seen.tracked => kept \/ volume = "none"
    /\ step = "claims" => kind \in DataService /\ ~seen.tracked /\ status = "none"

RecoveryInv ==
    /\ RecoveryTypeOK /\ SeenIsTrue /\ CommandsAreDue /\ TerraformMeetsNoPending

\* RecoveryTypeOK in two parts: what is counted, and the rest.
Counted == tries \in 0 .. MaxTries /\ edits \in 0 .. MaxEdits
Flagged ==
    /\ kind \in Kinds
    /\ enabled \in BOOLEAN /\ retain \in BOOLEAN
    /\ status \in ReleaseStatus /\ stable \in BOOLEAN /\ tracked \in BOOLEAN
    /\ volume \in {"none", "new", "data"} /\ kept \in BOOLEAN
    /\ step \in {"idle", "listed", "rollback", "rolling", "verify", "remove", "removing",
                 "claims", "apply", "installing", "upgrading"}
    /\ seen \in [enabled : BOOLEAN, retain : BOOLEAN, status : ReleaseStatus, tracked : BOOLEAN]

\* The type invariant in two parts.
LEMMA TypeParts == RecoveryTypeOK <=> Counted /\ Flagged
BY Zenon DEF RecoveryTypeOK, Counted, Flagged

\* The same of the next state.
LEMMA TypePartsNext == RecoveryTypeOK' <=> Counted' /\ Flagged'
BY Zenon DEF RecoveryTypeOK, Counted, Flagged

\* A job that has nothing left to do keeps the types.
LEMMA UnseenIsTyped ==
    Unseen \in [enabled : BOOLEAN, retain : BOOLEAN, status : ReleaseStatus, tracked : BOOLEAN]
<1>1. FALSE \in BOOLEAN /\ "none" \in ReleaseStatus
  OBVIOUS
<1> QED BY <1>1 DEF Unseen

\* Nothing installed, no job: the invariant holds.
LEMMA RecoveryStarts == RecoveryInit => RecoveryInv
<1> SUFFICES ASSUME RecoveryInit PROVE RecoveryInv
  OBVIOUS
<1> USE DEF RecoveryInit, Unseen
<1>1. RecoveryTypeOK
  <2>1. Counted
    BY DEF Counted
  <2>2. stable \in BOOLEAN /\ tracked \in BOOLEAN /\ kept \in BOOLEAN
    BY Zenon
  <2>3. seen \in [enabled : BOOLEAN, retain : BOOLEAN, status : ReleaseStatus, tracked : BOOLEAN]
    BY UnseenIsTyped, Zenon
  <2>4. Flagged
    BY <2>2, <2>3 DEF Flagged
  <2> QED BY <2>1, <2>4, TypeParts
<1>2. SeenIsTrue /\ CommandsAreDue /\ TerraformMeetsNoPending
  BY DEF SeenIsTrue, CommandsAreDue, TerraformMeetsNoPending, Preparing
<1> QED BY <1>1, <1>2 DEF RecoveryInv

\* A job that stops has nothing left to keep.
LEMMA StopsHere ==
    ASSUME RecoveryTypeOK', StopHere
    PROVE  RecoveryInv'
BY DEF StopHere, RecoveryInv, SeenIsTrue, CommandsAreDue, TerraformMeetsNoPending, Preparing

\* The listing names what Helm and the state hold.
LEMMA InspectStep == RecoveryInv /\ Inspect => RecoveryInv'
<1> SUFFICES ASSUME RecoveryInv, Inspect PROVE RecoveryInv'
  OBVIOUS
<1> USE DEF Inspect, document, cluster
<1>1. Listed(status) \in ReleaseStatus
  BY DEF RecoveryInv, RecoveryTypeOK, Listed
<1>2. RecoveryTypeOK'
  BY <1>1 DEF RecoveryInv, RecoveryTypeOK
<1>3. SeenIsTrue'
  BY DEF RecoveryInv, SeenIsTrue, Preparing, Listed
<1>4. CommandsAreDue' /\ TerraformMeetsNoPending'
  BY DEF CommandsAreDue, TerraformMeetsNoPending
<1> QED BY <1>2, <1>3, <1>4 DEF RecoveryInv

\* What each decision says of the release that was seen.
LEMMA Decisions ==
    ASSUME RecoveryTypeOK, step = "listed"
    PROVE  /\ Repair(seen) \in {"apply", "rollback", "verify", "remove", "refuse"}
           /\ Repair(seen) = "rollback" => stable
           /\ Repair(seen) = "verify" => seen.status \in Pending
           /\ Repair(seen) = "remove" => seen.status \in Pending \cup {"failed"} /\ ~seen.tracked
           /\ Repair(seen) = "apply" /\ seen.enabled /\ seen.status \in Pending
                => /\ ~seen.tracked /\ kind # "base"
                   /\ kind = "custom" \/ (kind \in DataService /\ ~seen.retain)
BY DEF RecoveryTypeOK, Repair, TrackedRepair, UntrackedRepair, SupportsReinstall

\* A decision is about the release as it still is.
LEMMA DecideStep == RecoveryInv /\ Decide => RecoveryInv'
<1> SUFFICES ASSUME RecoveryInv, Decide PROVE RecoveryInv'
  OBVIOUS
<1> USE DEF Decide, document, cluster
<1>1. Repair(seen) \in {"apply", "rollback", "verify", "remove", "refuse"}
  BY Decisions DEF RecoveryInv
<1>2. RecoveryTypeOK'
  <2>1. Counted' /\ Flagged
    BY TypeParts DEF RecoveryInv, Counted
  <2>2. Flagged'
    BY <1>1, <2>1, UnseenIsTyped DEF Flagged, StopHere
  <2> QED BY <2>1, <2>2, TypePartsNext
<1>3. CASE Repair(seen) = "refuse"
  BY <1>2, <1>3, StopsHere
<1>4. CASE Repair(seen) # "refuse"
  <2> USE <1>4
  <2>1. step = "listed" /\ step' = Repair(seen) /\ seen' = seen
    OBVIOUS
  <2>2. SeenIsTrue'
    BY <1>1, <2>1 DEF RecoveryInv, SeenIsTrue, Preparing, Listed
  <2>3. CommandsAreDue'
    BY <1>1, <2>1, Decisions DEF RecoveryInv, CommandsAreDue
  <2>4. status \in Pending => seen.status = status
    BY <2>1 DEF RecoveryInv, SeenIsTrue, Listed
  <2>5. seen.tracked = tracked
    BY <2>1 DEF RecoveryInv, SeenIsTrue, Preparing
  <2>6. TerraformMeetsNoPending'
    BY <1>1, <2>1, <2>4, <2>5, Decisions DEF RecoveryInv, TerraformMeetsNoPending, Recoverable
  <2> QED BY <1>2, <2>2, <2>3, <2>6 DEF RecoveryInv
<1> QED BY <1>3, <1>4

\* Only a release whose claims outlive it is uninstalled while the state has it.
LEMMA VerifyStep == RecoveryInv /\ VerifyProtection => RecoveryInv'
<1> SUFFICES ASSUME RecoveryInv, VerifyProtection PROVE RecoveryInv'
  OBVIOUS
<1> USE DEF VerifyProtection, document, cluster
<1>1. RecoveryTypeOK'
  <2>1. Counted' /\ Flagged
    BY TypeParts DEF RecoveryInv, Counted
  <2>2. Flagged'
    BY <2>1, UnseenIsTyped DEF Flagged, StopHere
  <2> QED BY <2>1, <2>2, TypePartsNext
<1>2. CASE StopHere
  BY <1>1, <1>2, StopsHere
<1>3. CASE /\ step' = "remove" /\ UNCHANGED seen
           /\ kept \/ (kind = "stack" /\ volume = "none")
  <2>1. SeenIsTrue'
    BY <1>3 DEF RecoveryInv, SeenIsTrue, Preparing, Listed
  <2>2. CommandsAreDue' /\ TerraformMeetsNoPending'
    BY <1>3 DEF RecoveryInv, CommandsAreDue, TerraformMeetsNoPending
  <2> QED BY <1>1, <2>1, <2>2 DEF RecoveryInv
<1> QED BY <1>2, <1>3

\* The commands of the recovery: none leaves a pending release to Terraform.
LEMMA CommandStep ==
    ASSUME RecoveryInv, RollBack \/ RolledBack \/ Uninstall \/ Uninstalled \/ DeleteClaims
    PROVE  RecoveryInv'
<1> USE DEF document, cluster
<1>1. RecoveryTypeOK'
  <2>1. Flagged /\ Counted
    BY TypeParts DEF RecoveryInv
  <2>2. Counted'
    BY <2>1 DEF Counted, RollBack, RolledBack, Uninstall, Uninstalled, DeleteClaims
  <2>3. ASSUME RollBack \/ Uninstall \/ DeleteClaims PROVE Flagged'
    BY <2>1, <2>3 DEF Flagged, RollBack, Uninstall, DeleteClaims
  <2>4. ASSUME RolledBack PROVE Flagged'
    BY <2>1, <2>4, UnseenIsTyped DEF Flagged, RolledBack, StopHere
  <2>5. ASSUME Uninstalled PROVE Flagged'
    <3>1. stable' \in BOOLEAN /\ kept' \in BOOLEAN
      BY <2>5, Zenon DEF Uninstalled, Gone
    <3> QED BY <2>1, <2>5, <3>1 DEF Flagged, Uninstalled, Gone
  <2>6. Flagged'
    BY <2>3, <2>4, <2>5
  <2> QED BY <2>2, <2>6, TypePartsNext
<1>2. CASE RollBack
  BY <1>1, <1>2 DEF RollBack, RecoveryInv, SeenIsTrue, CommandsAreDue,
                    TerraformMeetsNoPending, Preparing
<1>3. CASE RolledBack
  <2>1. CASE StopHere
    BY <1>1, <2>1, StopsHere
  <2>2. CASE status' = "deployed" /\ step' = "apply" /\ UNCHANGED seen
    BY <1>1, <1>3, <2>2 DEF RolledBack, RecoveryInv, SeenIsTrue, CommandsAreDue,
                            TerraformMeetsNoPending, Preparing
  <2> QED BY <1>3, <2>1, <2>2 DEF RolledBack
<1>4. CASE Uninstall
  BY <1>1, <1>4 DEF Uninstall, RecoveryInv, SeenIsTrue, CommandsAreDue,
                    TerraformMeetsNoPending, Preparing
<1>5. CASE Uninstalled
  BY <1>1, <1>5 DEF Uninstalled, Gone, Fresh, RecoveryInv, SeenIsTrue, CommandsAreDue,
                    TerraformMeetsNoPending, Preparing
<1>6. CASE DeleteClaims
  BY <1>1, <1>6 DEF DeleteClaims, RecoveryInv, SeenIsTrue, CommandsAreDue,
                    TerraformMeetsNoPending, Preparing
<1> QED BY <1>2, <1>3, <1>4, <1>5, <1>6

\* Terraform's own steps and the end of the job leave the preparation behind.
LEMMA ApplyStep ==
    ASSUME RecoveryInv, TerraformApply \/ InterruptRecovery
    PROVE  RecoveryInv'
<1> USE DEF document, cluster
<1>1. RecoveryTypeOK'
  <2>1. Flagged /\ Counted
    BY TypeParts DEF RecoveryInv
  <2>2. Counted'
    BY <2>1 DEF Counted, TerraformApply, ApplyStops, ApplyInstall, ApplyUpgrade, Applied,
                ApplyDestroy, InterruptRecovery
  <2>3. ASSUME ApplyStops \/ InterruptRecovery PROVE Flagged'
    BY <2>1, <2>3, UnseenIsTyped DEF Flagged, ApplyStops, InterruptRecovery, StopHere
  <2>4. ASSUME ApplyInstall PROVE Flagged'
    <3>1. stable' \in BOOLEAN /\ tracked' \in BOOLEAN /\ kept' \in BOOLEAN
      BY <2>1, <2>4, Zenon DEF Flagged, ApplyInstall
    <3> QED BY <2>1, <2>4, <3>1 DEF Flagged, ApplyInstall
  <2>5. ASSUME ApplyUpgrade PROVE Flagged'
    BY <2>1, <2>5 DEF Flagged, ApplyUpgrade
  <2>6. ASSUME Applied PROVE Flagged'
    <3>1. stable' \in BOOLEAN /\ tracked' \in BOOLEAN
      BY <2>1, <2>6, Zenon DEF Flagged, Applied
    <3> QED BY <2>1, <2>6, <3>1, UnseenIsTyped, ZenonT(60) DEF Flagged, Applied, StopHere
  <2>7. ASSUME ApplyDestroy PROVE Flagged'
    <3>1. stable' \in BOOLEAN /\ tracked' \in BOOLEAN /\ kept' \in BOOLEAN
      BY <2>1, <2>7, Zenon DEF Flagged, ApplyDestroy, Gone
    <3> QED BY <2>1, <2>7, <3>1, UnseenIsTyped DEF Flagged, ApplyDestroy, Gone, StopHere
  <2>8. Flagged'
    BY <2>3, <2>4, <2>5, <2>6, <2>7 DEF TerraformApply
  <2> QED BY <2>2, <2>8, TypePartsNext
<1>2. CASE StopHere
  BY <1>1, <1>2, StopsHere
<1>3. CASE step' \in {"installing", "upgrading"}
  BY <1>1, <1>3 DEF RecoveryInv, SeenIsTrue, CommandsAreDue, TerraformMeetsNoPending, Preparing
<1> QED BY <1>2, <1>3 DEF TerraformApply, ApplyStops, ApplyInstall, ApplyUpgrade, Applied,
                          ApplyDestroy, InterruptRecovery

\* Around the jobs: the release changes only while no job is there.
LEMMA AroundStep ==
    ASSUME RecoveryInv, EditDocument \/ InstallByHand
    PROVE  RecoveryInv'
<1> USE DEF document, cluster
<1>1. RecoveryTypeOK'
  <2>1. Flagged /\ Counted
    BY TypeParts DEF RecoveryInv
  <2>2. Counted'
    BY <2>1 DEF Counted, EditDocument, InstallByHand
  <2>3. ASSUME EditDocument PROVE Flagged'
    BY <2>1, <2>3 DEF Flagged, EditDocument
  <2>4. ASSUME InstallByHand PROVE Flagged'
    <3>1. stable' \in BOOLEAN
      BY <2>4, Zenon DEF InstallByHand
    <3> QED BY <2>1, <2>4, <3>1 DEF Flagged, InstallByHand
  <2> QED BY <2>2, <2>3, <2>4, TypePartsNext
<1>2. SeenIsTrue'
  BY DEF RecoveryInv, SeenIsTrue, Preparing, EditDocument, InstallByHand, Listed
<1>3. CommandsAreDue'
  BY DEF RecoveryInv, CommandsAreDue, EditDocument, InstallByHand
<1>4. TerraformMeetsNoPending'
  BY DEF RecoveryInv, TerraformMeetsNoPending, Recoverable, EditDocument, InstallByHand
<1> QED BY <1>1, <1>2, <1>3, <1>4 DEF RecoveryInv

\* No step leads out of the invariant.
LEMMA RecoveryKeeps == RecoveryInv /\ [RecoveryNext]_recoveryVars => RecoveryInv'
<1> SUFFICES ASSUME RecoveryInv, [RecoveryNext]_recoveryVars PROVE RecoveryInv'
  OBVIOUS
<1>1. CASE UNCHANGED recoveryVars
  BY <1>1 DEF recoveryVars, document, cluster, RecoveryInv, RecoveryTypeOK, SeenIsTrue,
              CommandsAreDue, TerraformMeetsNoPending, Recoverable, Preparing, Listed
<1> QED BY <1>1, InspectStep, DecideStep, VerifyStep, CommandStep, ApplyStep, AroundStep
        DEF RecoveryNext, Recover

\* Every reachable state satisfies the invariant.
THEOREM RecoveryInductive == RecoverySpec => []RecoveryInv
BY RecoveryStarts, RecoveryKeeps, PTL DEF RecoverySpec

\* Every variable of the recovery stays in its set.
THEOREM RecoveryTypes == RecoverySpec => []RecoveryTypeOK
<1>1. RecoveryInv => RecoveryTypeOK
  BY DEF RecoveryInv
<1> QED BY RecoveryInductive, <1>1, PTL

\* No retry uninstalls a release that Helm reports as deployed, and none rolls
\* back to a revision that never succeeded.
THEOREM ReleasesStay == RecoverySpec => []RunningReleasesStay
<1>1. RecoveryInv => RunningReleasesStay
  BY DEF RecoveryInv, SeenIsTrue, CommandsAreDue, RunningReleasesStay, Listed
<1> QED BY RecoveryInductive, <1>1, PTL

\* Terraform never meets a release of a component the recovery knows that an
\* earlier job left pending.
THEOREM NoPendingIsLeft == RecoverySpec => []TerraformMeetsNoPending
<1>1. RecoveryInv => TerraformMeetsNoPending
  BY DEF RecoveryInv
<1> QED BY RecoveryInductive, <1>1, PTL

\* Volumes with data outlive the recovery of every release the state has, and
\* claims are deleted only of data services that never ran.
THEOREM VolumesStay == RecoverySpec => RecoveryKeepsVolumes
<1>1. RecoveryInv /\ [RecoveryNext]_recoveryVars
        => [LosesData => /\ step = "removing" => ~seen.tracked
                         /\ step = "claims" => kind \in DataService]_recoveryVars
  <2> SUFFICES ASSUME RecoveryInv, RecoveryNext, LosesData, step = "removing", seen.tracked
               PROVE  FALSE
    BY DEF RecoveryInv, CommandsAreDue
  <2>1. kept /\ volume = "data" /\ volume' # "data"
    BY DEF LosesData, RecoveryInv, CommandsAreDue
  <2> QED BY <2>1 DEF RecoveryNext, Recover, TerraformApply, Inspect, Decide, VerifyProtection,
            RollBack, RolledBack, Uninstall, Uninstalled, DeleteClaims, Gone, ApplyStops,
            ApplyInstall, ApplyUpgrade, Applied, ApplyDestroy, InterruptRecovery,
            EditDocument, InstallByHand, document, cluster
<1> QED BY RecoveryInductive, <1>1, PTL DEF RecoveryKeepsVolumes, RecoverySpec

-------------------------------------------------------------------------------
(* States.  The invariant says at each stage of a job which of the copies  *)
(* is the current one.                                                     *)

HIDE DEF Kind, Pending, ReleaseStatus, DataService
USE StateMigrationAssumption

State == [lineage : Lineages \cup Centres \cup {"none"}, serial : Nat, content : Content]
OldCopy == OldState \cup {Absent}
AtBucket == {"migrate", "archive", "retire", "record", "plan"}
Stages == {"none", "local", "legacy", "restage", "workspace"} \cup AtBucket

MigrationTypeOK ==
    /\ localState \in OldCopy /\ staged \in OldCopy /\ legacy \in OldCopy /\ orphan \in OldCopy
    /\ remote \in [Centres -> State]
    /\ archives \subseteq OldCopy
    /\ world \in State
    /\ metadata \in Centres \cup {"none"}
    /\ owned \in BOOLEAN
    /\ centre \in Centres /\ proposal \in Centres \cup {"none"}
    /\ backend \in Centres \cup {"none"} /\ stage \in Stages /\ applies \in Nat

\* Where a job is tells which copies it has passed.
JobIsTrue ==
    /\ stage # "none" => backend \in Centres
    /\ stage \notin {"none", "local"} => localState = Absent
    /\ stage = "restage" => staged = Absent
    /\ stage \in AtBucket => remote[backend] # Absent
    /\ stage = "retire" => staged \in archives
    /\ stage \in {"record", "plan"} => staged = Absent

\* A bucket's state has been written; the world is never a fresh workspace, which a push
\* may replace.
BucketsAreTrue == \A b \in Centres : remote[b] = Absent \/ remote[b].serial >= 1
WorldIsReal == world = Absent \/ world.content # "empty" \/ world.serial > 1

\* Before Terraform has run: the old copies of the world's lineage are not newer.
Newest(c) ==
    c.lineage = world.lineage => /\ c.serial <= world.serial
                                 /\ c.serial = world.serial => c = world
OldIsOlder ==
    /\ Newest(localState) /\ Newest(staged) /\ Newest(legacy)
    /\ world = Absent => {localState, staged, legacy} = {Absent}
    /\ world \in OldCopy

NewWorkspace(b) == [lineage |-> b, serial |-> 1, content |-> "empty"]
OnlyIn(b) == \A c \in Centres \ {b} : remote[c] = Absent

\* No copy has resources, so none is ever pushed.
Bare(b) ==
    ~Managed(world) /\ ~Managed(localState) /\ ~Managed(staged) /\ ~Managed(legacy) /\ ~Managed(remote[b])
Settled(b) == remote[b] = world \/ Bare(b)

\* The world is still on its way into the bucket.
OnItsWay(b) ==
    /\ remote[b] \in {Absent, NewWorkspace(b)} /\ metadata # b
    /\ stage \in {"none", "local"} => world \in {localState, staged, legacy}
    /\ stage = "legacy" => world \in {staged, legacy}
    /\ stage = "restage" => world = legacy
    /\ stage \in {"workspace", "migrate"} => world = staged /\ legacy \in {Absent, world}
    /\ stage \notin AtBucket \ {"migrate"}

MigrationInv ==
    /\ MigrationTypeOK /\ JobIsTrue /\ BucketsAreTrue /\ WorldIsReal
    /\ WorldIsDescribed /\ MetadataNamesState
    /\ applies > 0 => world # Absent /\ \E b \in Centres : remote[b] = world
    /\ applies = 0 => /\ OldIsOlder
                      /\ orphan = Absent =>
                            \A b \in Centres : OnlyIn(b) => Settled(b) \/ OnItsWay(b)
\* What the other lemmas need of the absent copy, the old copies and a fresh workspace.
LEMMA AbsentCopy ==
    /\ Absent \in State /\ Absent \in OldCopy /\ OldCopy \subseteq State /\ ~Managed(Absent)
    /\ \A c \in OldCopy : c = Absent \/ (c.lineage \in Lineages /\ c.serial >= 1 /\ c.content # "empty")
    /\ Absent.lineage = "none" /\ Absent.serial = 0
    /\ \A b \in Centres : NewWorkspace(b) \in State /\ NewWorkspace(b).serial = 1 /\ NewWorkspace(b) # Absent
                            /\ ~Managed(NewWorkspace(b)) /\ NewWorkspace(b).content = "empty"
BY DEF Absent, State, OldCopy, OldState, Content, Managed, NewWorkspace

\* A place that gives its copy away, or takes another old one, keeps the world the newest.
LEMMA OldStays ==
    ASSUME MigrationTypeOK, OldIsOlder, UNCHANGED <<legacy, world>>,
           localState' \in {Absent, localState, staged, legacy},
           staged' \in {Absent, localState, staged, legacy}
    PROVE  OldIsOlder'
<1>1. Newest(Absent)
  BY AbsentCopy DEF Newest, OldIsOlder, MigrationTypeOK
<1>2. /\ Newest(localState') /\ Newest(staged') /\ Newest(legacy')
      /\ world = Absent => {localState', staged', legacy'} = {Absent}
  BY <1>1 DEF OldIsOlder
<1> QED BY <1>2 DEF OldIsOlder, Newest

\* Copies move, and neither a bucket nor the world changes.
LEMMA CopiesMove ==
    ASSUME MigrationInv, UNCHANGED <<legacy, remote, world, applies>>, MigrationTypeOK', JobIsTrue',
           localState' \in {Absent, localState, staged, legacy},
           staged' \in {Absent, localState, staged, legacy},
           \A c \in {localState, staged, legacy, orphan} \cup archives :
               c = Absent \/ c \in {localState', staged', legacy', orphan'} \cup archives',
           metadata' \in {metadata, "none"} \/ remote[metadata'] # Absent,
           orphan' = Absent => orphan = Absent,
           applies = 0 /\ orphan' = Absent =>
              \A b \in Centres : OnlyIn(b) /\ OnItsWay(b) /\ ~Settled(b) =>
                 /\ metadata' # b
                 /\ stage' \in {"none", "local"} => world \in {localState', staged', legacy}
                 /\ stage' = "legacy" => world \in {staged', legacy}
                 /\ stage' = "restage" => world = legacy
                 /\ stage' \in {"workspace", "migrate"} => world = staged' /\ legacy \in {Absent, world}
                 /\ stage' \notin AtBucket \ {"migrate"}
    PROVE  MigrationInv'
<1>1. BucketsAreTrue' /\ WorldIsReal'
  BY DEF MigrationInv, BucketsAreTrue, WorldIsReal
<1>2. WorldIsDescribed'
  BY DEF MigrationInv, WorldIsDescribed, Copies
<1>3. MetadataNamesState'
  BY DEF MigrationInv, MetadataNamesState
<1>4. applies' > 0 => world' # Absent /\ \E b \in Centres : remote'[b] = world'
  BY DEF MigrationInv
<1>5. applies' = 0 => OldIsOlder'
  BY OldStays DEF MigrationInv
<1>6. ASSUME applies' = 0, orphan' = Absent, NEW b \in Centres, \A c \in Centres \ {b} : remote'[c] = Absent
      PROVE  (Settled(b) \/ OnItsWay(b))'
  <2>1. OnlyIn(b)
    BY <1>6 DEF OnlyIn
  <2>2. CASE Settled(b)
    BY <2>2, AbsentCopy DEF Settled, Bare
  <2>3. CASE OnItsWay(b) /\ ~Settled(b)
    BY <1>6, <2>1, <2>3 DEF OnItsWay
  <2> QED BY <1>6, <2>1, <2>2, <2>3 DEF MigrationInv
<1> QED BY <1>1, <1>2, <1>3, <1>4, <1>5, <1>6 DEF MigrationInv, OnlyIn

\* Opening a backend moves no copy.
LEMMA OpenBackendStep == MigrationInv /\ OpenBackend => MigrationInv'
<1> SUFFICES ASSUME MigrationInv, OpenBackend PROVE MigrationInv'
  OBVIOUS
<1> USE DEF OpenBackend, files, admin
<1>1. MigrationTypeOK'
  BY DEF MigrationInv, MigrationTypeOK, Stages
<1>2. JobIsTrue'
  BY DEF MigrationInv, MigrationTypeOK, JobIsTrue, AtBucket
<1>3. \A b \in Centres : OnItsWay(b) => metadata # b /\ world \in {localState, staged, legacy}
  BY DEF OnItsWay
<1> QED BY <1>1, <1>2, <1>3, CopiesMove DEF AtBucket

\* The workspace file is moved, or a different staged copy ends the job.
LEMMA StageLocalStep == MigrationInv /\ StageLocal => MigrationInv'
<1> SUFFICES ASSUME MigrationInv, StageLocal PROVE MigrationInv'
  OBVIOUS
<1>0. /\ UNCHANGED <<orphan, archives, legacy, remote, world, metadata, owned, centre, proposal, applies>>
      /\ stage = "local"
      /\ \/ stage' = "legacy" /\ localState' = Absent /\ backend' = backend
            /\ \/ localState = Absent /\ staged' = staged
               \/ staged \in {Absent, localState} /\ staged' = localState
         \/ stage' = "none" /\ backend' = "none" /\ staged' = staged /\ localState' = localState
  BY DEF StageLocal, admin, MoveTo, MovedAway, Abandon
<1>1. MigrationTypeOK'
  BY <1>0, AbsentCopy DEF MigrationInv, MigrationTypeOK, Stages
<1>2. JobIsTrue'
  BY <1>0 DEF MigrationInv, MigrationTypeOK, JobIsTrue, AtBucket
<1>3. \A b \in Centres : OnItsWay(b) => metadata # b /\ world \in {localState, staged, legacy}
  BY <1>0 DEF OnItsWay
<1>4. applies = 0 /\ world = Absent => \A b \in Centres : ~OnItsWay(b) \/ Settled(b)
  BY AbsentCopy DEF MigrationInv, OldIsOlder, OnItsWay, Settled, Bare, NewWorkspace
<1> QED BY <1>0, <1>1, <1>2, <1>3, <1>4, CopiesMove DEF AtBucket

\* A job of another environment moves the workspace to where it can be found.
LEMMA StageByOtherStep == MigrationInv /\ StageByOther => MigrationInv'
<1> SUFFICES ASSUME MigrationInv, StageByOther PROVE MigrationInv'
  OBVIOUS
<1>0. /\ UNCHANGED <<archives, legacy, remote, world, metadata, owned, centre, proposal, backend, stage, applies>>
      /\ stage = "none" /\ localState # Absent
      /\ \/ orphan' = orphan /\ staged \in {Absent, localState} /\ staged' = localState /\ localState' = Absent
         \/ orphan' = orphan /\ staged' = staged /\ localState' = localState
         \/ staged' = staged /\ orphan \in {Absent, localState} /\ orphan' = localState /\ localState' = Absent
  BY DEF StageByOther, admin, MoveTo, MovedAway, MigrationInv, JobIsTrue
<1>1. MigrationTypeOK'
  BY <1>0, AbsentCopy DEF MigrationInv, MigrationTypeOK
<1>2. JobIsTrue'
  BY <1>0 DEF MigrationInv, JobIsTrue, AtBucket
<1>3. \A b \in Centres : OnItsWay(b) => metadata # b /\ world \in {localState, staged, legacy}
  BY <1>0 DEF OnItsWay
<1>4. applies = 0 /\ world = Absent => \A b \in Centres : ~OnItsWay(b) \/ Settled(b)
  BY AbsentCopy DEF MigrationInv, OldIsOlder, OnItsWay, Settled, Bare, NewWorkspace
<1> QED BY <1>0, <1>1, <1>2, <1>3, <1>4, CopiesMove DEF AtBucket

\* A staged copy is superseded by the same or a newer legacy state, which is the world if
\* the staged one was.
LEMMA CompareLegacyStep == MigrationInv /\ CompareLegacy => MigrationInv'
<1> SUFFICES ASSUME MigrationInv, CompareLegacy PROVE MigrationInv'
  OBVIOUS
<1>0. /\ UNCHANGED <<localState, orphan, legacy, remote, world, metadata, owned, centre, proposal, applies>>
      /\ stage = "legacy"
      /\ \/ /\ metadata = backend \/ legacy = Absent
            /\ stage' = "workspace" /\ staged' = staged /\ archives' = archives /\ backend' = backend
         \/ stage' = "none" /\ backend' = "none" /\ staged' = staged /\ archives' = archives
         \/ /\ legacy # Absent /\ ~LegacyConflict
            /\ stage' = "restage" /\ backend' = backend /\ staged' = Absent
            /\ archives' = archives \cup ({staged} \ {Absent})
  BY DEF CompareLegacy, admin, Abandon
<1>1. MigrationTypeOK'
  BY <1>0, AbsentCopy DEF MigrationInv, MigrationTypeOK, Stages
<1>2. JobIsTrue'
  BY <1>0 DEF MigrationInv, MigrationTypeOK, JobIsTrue, AtBucket
<1>3. ASSUME applies = 0, NEW b \in Centres, OnlyIn(b), OnItsWay(b), ~Settled(b)
      PROVE  /\ world \in {staged, legacy} /\ metadata # b /\ world # Absent
             /\ metadata = backend => metadata = "none"
  <2>1. world \in {staged, legacy} /\ metadata # b /\ remote[b] \in {Absent, NewWorkspace(b)}
    BY <1>0, <1>3 DEF OnItsWay
  <2>2. world # Absent
    BY <1>3, <2>1, AbsentCopy DEF MigrationInv, OldIsOlder, Settled, Bare
  <2>3. metadata # "none" => FALSE
    BY <1>3, <2>1 DEF MigrationInv, MetadataNamesState, OnlyIn, MigrationTypeOK
  <2> QED BY <2>1, <2>2, <2>3
<1>4. backend # "none"
  BY <1>0 DEF MigrationInv, JobIsTrue
<1>5. applies = 0 /\ staged # Absent /\ legacy # Absent /\ ~LegacyConflict /\ world = staged => world = legacy
  BY DEF MigrationInv, OldIsOlder, Newest, LegacyConflict, MigrationTypeOK, OldCopy, OldState
<1>6. ASSUME applies = 0, NEW b \in Centres, OnlyIn(b), OnItsWay(b), ~Settled(b)
      PROVE  /\ metadata' # b
             /\ stage' \in {"none", "local"} => world \in {localState', staged', legacy}
             /\ stage' = "legacy" => world \in {staged', legacy}
             /\ stage' = "restage" => world = legacy
             /\ stage' \in {"workspace", "migrate"} => world = staged' /\ legacy \in {Absent, world}
             /\ stage' \notin AtBucket \ {"migrate"}
  BY <1>0, <1>3, <1>4, <1>5, <1>6 DEF AtBucket
<1> QED BY <1>0, <1>1, <1>2, <1>6, CopiesMove

\* The copy that gets staged is the one of the old remote backend.
LEMMA StageLegacyStep == MigrationInv /\ StageLegacy => MigrationInv'
<1> SUFFICES ASSUME MigrationInv, StageLegacy PROVE MigrationInv'
  OBVIOUS
<1>0. /\ UNCHANGED <<localState, orphan, archives, legacy, remote, world, metadata, owned, centre, proposal,
                     backend, applies>>
      /\ stage = "restage" /\ staged = Absent /\ stage' = "workspace" /\ staged' = legacy
  BY DEF StageLegacy, admin, MigrationInv, JobIsTrue
<1>1. MigrationTypeOK'
  BY <1>0, AbsentCopy DEF MigrationInv, MigrationTypeOK, Stages
<1>2. JobIsTrue'
  BY <1>0 DEF MigrationInv, JobIsTrue, AtBucket
<1>3. \A b \in Centres : OnItsWay(b) => metadata # b /\ world = legacy
  BY <1>0 DEF OnItsWay
<1> QED BY <1>0, <1>1, <1>2, <1>3, CopiesMove DEF AtBucket

\* What is archived stays staged until it is retired.
LEMMA ArchiveStagedStep == MigrationInv /\ ArchiveStaged => MigrationInv'
<1> SUFFICES ASSUME MigrationInv, ArchiveStaged PROVE MigrationInv'
  OBVIOUS
<1>0. /\ UNCHANGED <<localState, staged, orphan, legacy, remote, world, metadata, owned, centre, proposal,
                     backend, applies>>
      /\ stage = "archive" /\ stage' = "retire" /\ archives' = archives \cup {staged}
  BY DEF ArchiveStaged, admin
<1>1. MigrationTypeOK'
  BY <1>0, AbsentCopy DEF MigrationInv, MigrationTypeOK, Stages, AtBucket
<1>2. JobIsTrue'
  BY <1>0 DEF MigrationInv, JobIsTrue, AtBucket
<1>3. \A b \in Centres : ~OnItsWay(b)
  BY <1>0 DEF OnItsWay, AtBucket
<1> QED BY <1>0, <1>1, <1>2, <1>3, CopiesMove

\* The staged copy is removed after it has been archived.
LEMMA RetireStagedStep == MigrationInv /\ RetireStaged => MigrationInv'
<1> SUFFICES ASSUME MigrationInv, RetireStaged PROVE MigrationInv'
  OBVIOUS
<1>0. /\ UNCHANGED <<localState, orphan, archives, legacy, remote, world, metadata, owned, centre, proposal,
                     backend, applies>>
      /\ stage = "retire" /\ stage' = "record" /\ staged \in archives /\ staged' = Absent
  BY DEF RetireStaged, admin, MigrationInv, JobIsTrue
<1>1. MigrationTypeOK'
  BY <1>0, AbsentCopy DEF MigrationInv, MigrationTypeOK, Stages, AtBucket
<1>2. JobIsTrue'
  BY <1>0 DEF MigrationInv, JobIsTrue, AtBucket
<1>3. \A b \in Centres : ~OnItsWay(b)
  BY <1>0 DEF OnItsWay, AtBucket
<1> QED BY <1>0, <1>1, <1>2, <1>3, CopiesMove

\* The metadata names the bucket whose workspace the job has selected.
LEMMA RecordMetadataStep == MigrationInv /\ RecordMetadata => MigrationInv'
<1> SUFFICES ASSUME MigrationInv, RecordMetadata PROVE MigrationInv'
  OBVIOUS
<1>0. /\ UNCHANGED <<localState, staged, orphan, archives, legacy, remote, world, owned, centre, proposal,
                     backend, applies>>
      /\ stage = "record" /\ stage' = "plan" /\ metadata' = backend /\ backend \in Centres
      /\ remote[backend] # Absent
  BY DEF RecordMetadata, admin, files, MigrationInv, JobIsTrue, AtBucket
<1>1. MigrationTypeOK'
  BY <1>0, AbsentCopy DEF MigrationInv, MigrationTypeOK, Stages, AtBucket
<1>2. JobIsTrue'
  BY <1>0 DEF MigrationInv, JobIsTrue, AtBucket
<1>3. \A b \in Centres : ~OnItsWay(b)
  BY <1>0 DEF OnItsWay, AtBucket
<1> QED BY <1>0, <1>1, <1>2, <1>3, CopiesMove

\* The end of a job at any step leaves the world where the next one finds it.
LEMMA InterruptStep == MigrationInv /\ InterruptMigration => MigrationInv'
<1> SUFFICES ASSUME MigrationInv, InterruptMigration PROVE MigrationInv'
  OBVIOUS
<1>0. /\ UNCHANGED <<localState, staged, orphan, archives, legacy, remote, world, metadata, owned, centre,
                     proposal, applies>>
      /\ stage # "none" /\ stage' = "none" /\ backend' = "none"
  BY DEF InterruptMigration, admin, files, Abandon
<1>1. MigrationTypeOK'
  BY <1>0 DEF MigrationInv, MigrationTypeOK, Stages
<1>2. JobIsTrue'
  BY <1>0 DEF MigrationInv, JobIsTrue, AtBucket
<1>3. stage \in {"local", "legacy", "restage", "workspace"} \cup AtBucket
  BY <1>0 DEF MigrationInv, MigrationTypeOK, Stages
<1>4. \A b \in Centres : OnItsWay(b) => metadata # b /\ world \in {localState, staged, legacy}
  BY <1>3 DEF OnItsWay, AtBucket
<1> QED BY <1>0, <1>1, <1>2, <1>4, CopiesMove DEF AtBucket

\* What goes on around the jobs moves no copy.
LEMMA AdminSteps ==
    MigrationInv /\ ((\E b \in Centres : CheckCentre(b)) \/ SaveCentre \/ CreateOwner \/ LoseMetadata)
        => MigrationInv'
<1> SUFFICES ASSUME MigrationInv, (\E b \in Centres : CheckCentre(b)) \/ SaveCentre \/ CreateOwner \/ LoseMetadata
             PROVE  MigrationInv'
  OBVIOUS
<1>0. /\ UNCHANGED <<localState, staged, orphan, archives, legacy, remote, world, stage, backend, applies>>
      /\ owned' \in {TRUE, owned} /\ metadata' \in {metadata, "none"}
      /\ proposal' \in Centres \cup {"none", proposal} /\ centre' \in {centre, proposal}
      /\ centre' = proposal => centre' = centre \/ proposal # "none"
  BY DEF CheckCentre, SaveCentre, CreateOwner, LoseMetadata, admin, files
<1>1. TRUE \in BOOLEAN
  BY Zenon
<1>2. MigrationTypeOK'
  BY <1>0, <1>1 DEF MigrationInv, MigrationTypeOK
<1>3. JobIsTrue'
  BY <1>0 DEF MigrationInv, JobIsTrue
<1>4. \A b \in Centres : OnItsWay(b) =>
         /\ metadata' # b
         /\ stage' \in {"none", "local"} => world \in {localState', staged', legacy}
         /\ stage' = "legacy" => world \in {staged', legacy}
         /\ stage' = "restage" => world = legacy
         /\ stage' \in {"workspace", "migrate"} => world = staged' /\ legacy \in {Absent, world}
         /\ stage' \notin AtBucket \ {"migrate"}
  BY <1>0 DEF OnItsWay
<1> QED BY <1>0, <1>2, <1>3, <1>4, CopiesMove

\* A workspace that is not there yet is made.
LEMMA SelectWorkspaceStep == MigrationInv /\ SelectWorkspace => MigrationInv'
<1> SUFFICES ASSUME MigrationInv, SelectWorkspace PROVE MigrationInv'
  OBVIOUS
<1>0. /\ UNCHANGED <<localState, staged, orphan, archives, legacy, world, metadata, owned, centre,
                     proposal, backend, applies>>
      /\ stage = "workspace" /\ stage' = "migrate"
      /\ remote' = [remote EXCEPT ![backend] = IF @ = Absent THEN NewWorkspace(backend) ELSE @]
  BY DEF SelectWorkspace, admin, files, Pristine, NewWorkspace
<1>1. /\ remote' \in [Centres -> State] /\ backend \in Centres /\ remote'[backend] # Absent
      /\ \A b \in Centres : b # backend \/ remote[b] # Absent => remote'[b] = remote[b]
      /\ remote'[backend] \in {remote[backend], NewWorkspace(backend)}
  <2>1. backend \in Centres /\ remote \in [Centres -> State]
    BY <1>0 DEF MigrationInv, JobIsTrue, MigrationTypeOK
  <2> QED BY <1>0, <2>1, AbsentCopy
<1>2. MigrationTypeOK' /\ JobIsTrue'
  BY <1>0, <1>1 DEF MigrationInv, MigrationTypeOK, JobIsTrue, AtBucket, Stages
<1>3. BucketsAreTrue' /\ WorldIsReal'
  BY <1>0, <1>1, AbsentCopy DEF MigrationInv, BucketsAreTrue, WorldIsReal
<1>4. WorldIsDescribed'
  BY <1>0, <1>1 DEF MigrationInv, WorldIsDescribed, Copies
<1>5. MetadataNamesState'
  BY <1>0, <1>1 DEF MigrationInv, MetadataNamesState, MigrationTypeOK
<1>6. applies' > 0 => world' # Absent /\ \E b \in Centres : remote'[b] = world'
  BY <1>0, <1>1 DEF MigrationInv
<1>7. applies' = 0 => OldIsOlder'
  BY <1>0 DEF MigrationInv, OldIsOlder, Newest
<1>8. ASSUME applies' = 0, orphan' = Absent, NEW b \in Centres, \A c \in Centres \ {b} : remote'[c] = Absent
      PROVE  (Settled(b) \/ OnItsWay(b))'
  <2>1. OnlyIn(b) /\ b = backend
    BY <1>1, <1>8 DEF OnlyIn
  <2>2. Settled(b) \/ OnItsWay(b)
    BY <1>0, <1>8, <2>1 DEF MigrationInv
  <2>3. CASE Settled(b)
    <3>1. CASE remote[b] = Absent
      BY <1>0, <1>1, <1>8, <2>1, <2>3, <3>1, AbsentCopy DEF Settled, Bare, MigrationInv, OldIsOlder
    <3>2. CASE remote[b] # Absent
      BY <1>0, <1>1, <2>1, <2>3, <3>2 DEF Settled, Bare
    <3> QED BY <3>1, <3>2
  <2>4. CASE OnItsWay(b)
    BY <1>0, <1>1, <2>1, <2>4 DEF OnItsWay, AtBucket
  <2> QED BY <2>2, <2>3, <2>4
<1> QED BY <1>2, <1>3, <1>4, <1>5, <1>6, <1>7, <1>8 DEF MigrationInv, OnlyIn

\* The staged copy is pushed into a fresh workspace, or is not needed there.
LEMMA MigrateStep == MigrationInv /\ Migrate => MigrationInv'
<1> SUFFICES ASSUME MigrationInv, Migrate PROVE MigrationInv'
  OBVIOUS
<1>0. /\ UNCHANGED <<localState, staged, orphan, archives, legacy, world, metadata, owned, centre,
                     proposal, applies>>
      /\ stage = "migrate" /\ backend \in Centres /\ remote[backend] # Absent /\ localState = Absent
      /\ remote[backend] \in State /\ staged \in OldCopy
  BY DEF Migrate, admin, files, MigrationInv, JobIsTrue, AtBucket, MigrationTypeOK
<1>1. CASE /\ UNCHANGED remote
           /\ \/ stage' \in {"record", "archive"} /\ backend' = backend
              \/ stage' = "none" /\ backend' = "none"
           /\ stage' = "record" => staged = Absent
           /\ stage' = "archive" => Decision(staged, remote[backend]) = "archive"
  <2>1. MigrationTypeOK'
    BY <1>0, <1>1 DEF MigrationInv, MigrationTypeOK, Stages, AtBucket
  <2>2. JobIsTrue'
    BY <1>0, <1>1 DEF MigrationInv, JobIsTrue, AtBucket
  <2>3. ASSUME applies = 0, NEW b \in Centres, OnlyIn(b), OnItsWay(b), ~Settled(b)
        PROVE  stage' = "none" /\ world = staged /\ metadata # b
    <3>1. b = backend /\ world = staged /\ legacy \in {Absent, world} /\ metadata # b /\ remote[b] = NewWorkspace(b)
      BY <1>0, <2>3 DEF OnlyIn, OnItsWay
    <3>2. Managed(world) /\ Managed(staged) /\ staged # Absent
      BY <1>0, <2>3, <3>1, AbsentCopy DEF Settled, Bare
    <3>3. Decision(staged, remote[backend]) = "push"
      BY <3>1, <3>2, AbsentCopy DEF Decision
    <3> QED BY <1>1, <3>1, <3>2, <3>3
  <2> QED BY <1>0, <1>1, <2>1, <2>2, <2>3, CopiesMove DEF AtBucket
<1>2. CASE /\ staged # Absent /\ Decision(staged, remote[backend]) = "push"
           /\ remote' = [remote EXCEPT ![backend] = staged]
           /\ stage' = "archive" /\ backend' = backend
  <2>1. /\ remote' \in [Centres -> State] /\ remote'[backend] = staged
        /\ \A b \in Centres : b # backend => remote'[b] = remote[b]
    BY <1>0, <1>2, AbsentCopy DEF MigrationInv, MigrationTypeOK
  <2>2. /\ remote[backend].content = "empty" /\ remote[backend].serial <= 1
        /\ Managed(staged)
    BY <1>2 DEF Decision
  <2>3. remote[backend] # world
    BY <1>0, <2>2 DEF MigrationInv, WorldIsReal, State
  <2>4. MigrationTypeOK' /\ JobIsTrue'
    BY <1>0, <1>2, <2>1 DEF MigrationInv, MigrationTypeOK, JobIsTrue, AtBucket, Stages
  <2>5. BucketsAreTrue' /\ WorldIsReal'
    BY <1>0, <1>2, <2>1, AbsentCopy DEF MigrationInv, BucketsAreTrue, WorldIsReal
  <2>6. WorldIsDescribed'
    BY <1>0, <2>1, <2>3 DEF MigrationInv, WorldIsDescribed, Copies
  <2>7. MetadataNamesState'
    BY <1>0, <1>2, <2>1 DEF MigrationInv, MetadataNamesState, MigrationTypeOK
  <2>8. applies' > 0 => world' # Absent /\ \E b \in Centres : remote'[b] = world'
    BY <1>0, <2>1, <2>3 DEF MigrationInv
  <2>9. applies' = 0 => OldIsOlder'
    BY <1>0 DEF MigrationInv, OldIsOlder, Newest
  <2>10. ASSUME applies' = 0, orphan' = Absent, NEW b \in Centres, \A c \in Centres \ {b} : remote'[c] = Absent
         PROVE  (Settled(b) \/ OnItsWay(b))'
    <3>1. OnlyIn(b) /\ b = backend
      BY <1>0, <1>2, <2>1, <2>10 DEF OnlyIn
    <3>2. Settled(b) \/ OnItsWay(b)
      BY <1>0, <2>10, <3>1 DEF MigrationInv
    <3>3. ~Settled(b)
      BY <2>2, <2>3, <3>1 DEF Settled, Bare
    <3>4. remote'[b] = world'
      BY <1>0, <2>1, <3>1, <3>2, <3>3 DEF OnItsWay
    <3> QED BY <3>4 DEF Settled
  <2> QED BY <2>4, <2>5, <2>6, <2>7, <2>8, <2>9, <2>10 DEF MigrationInv, OnlyIn
<1> QED BY <1>1, <1>2 DEF Migrate, Abandon

\* Terraform writes the state of a bucket with the next serial.
LEMMA StateGoesOn ==
    ASSUME NEW s \in State, NEW c \in Content
    PROVE  LET t == [s EXCEPT !.serial = @ + 1, !.content = c] IN
           t \in State /\ t.serial = s.serial + 1
<1> DEFINE n == s.serial + 1
           d == [s EXCEPT !.serial = n]
<1>1. n \in Nat
  BY DEF State
<1> HIDE DEF n, Content
<1>2. d \in State /\ d.serial = n
  BY <1>1 DEF State
<1> HIDE DEF d
<1>3. [d EXCEPT !.content = c] \in State /\ [d EXCEPT !.content = c].serial = d.serial
  BY <1>2 DEF State
<1> QED BY <1>2, <1>3 DEF n, d

\* The state that Terraform writes is the one that describes the world.
LEMMA RunTerraformStep == MigrationInv /\ RunTerraform => MigrationInv'
<1> SUFFICES ASSUME MigrationInv, RunTerraform PROVE MigrationInv'
  OBVIOUS
<1>0. /\ UNCHANGED <<localState, staged, orphan, archives, legacy, metadata, owned, centre, proposal>>
      /\ stage = "plan" /\ backend \in Centres /\ remote[backend] # Absent /\ remote \in [Centres -> State]
      /\ stage' = "none" /\ backend' = "none" /\ applies' = applies + 1 /\ applies \in Nat
      /\ world' = remote'[backend] /\ remote[backend].serial >= 1
  BY DEF RunTerraform, admin, files, Abandon, MigrationInv, JobIsTrue, AtBucket, MigrationTypeOK, BucketsAreTrue
<1>1. PICK c \in Content :
        remote' = [remote EXCEPT ![backend].serial = @ + 1, ![backend].content = c]
  BY DEF RunTerraform
<1>2. /\ remote' \in [Centres -> State] /\ remote'[backend].serial > 1
      /\ \A b \in Centres : b # backend => remote'[b] = remote[b]
  <2>1. remote[backend] \in State /\ c \in Content
    BY <1>0, <1>1
  <2>2. /\ [remote[backend] EXCEPT !.serial = @ + 1, !.content = c] \in State
        /\ [remote[backend] EXCEPT !.serial = @ + 1, !.content = c].serial = remote[backend].serial + 1
    BY <2>1, StateGoesOn
  <2>4. remote'[backend] = [remote[backend] EXCEPT !.serial = @ + 1, !.content = c]
    BY <1>0, <1>1
  <2>5. /\ DOMAIN remote' = Centres /\ \A b \in Centres : b # backend => remote'[b] = remote[b]
        /\ remote' = [b \in Centres |-> remote'[b]]
    BY <1>0, <1>1
  <2>6. \A b \in Centres : remote'[b] \in State
    BY <1>0, <2>2, <2>4, <2>5
  <2>7. remote'[backend].serial > 1
    BY <1>0, <2>1, <2>2, <2>4 DEF State
  <2> QED BY <2>5, <2>6, <2>7
<1>3. world' \in State /\ world'.serial > 1 /\ world' # Absent
  BY <1>0, <1>2, AbsentCopy
<1>4. MigrationTypeOK' /\ JobIsTrue'
  BY <1>0, <1>2, <1>3 DEF MigrationInv, MigrationTypeOK, JobIsTrue, AtBucket, Stages
<1>5. BucketsAreTrue' /\ WorldIsReal'
  BY <1>0, <1>2, <1>3 DEF MigrationInv, BucketsAreTrue, WorldIsReal, State
<1>6. WorldIsDescribed'
  BY <1>0 DEF WorldIsDescribed, Copies
<1>7. MetadataNamesState'
  BY <1>0, <1>2, AbsentCopy DEF MigrationInv, MetadataNamesState, MigrationTypeOK
<1>8. applies' > 0
  BY <1>0
<1> QED BY <1>0, <1>3, <1>4, <1>5, <1>6, <1>7, <1>8 DEF MigrationInv

\* The copies of an old deployment, and nothing in the buckets.
LEMMA MigrationInitially == MigrationInit => MigrationInv
<1> SUFFICES ASSUME MigrationInit PROVE MigrationInv
  OBVIOUS
<1>0. /\ localState \in OldCopy /\ staged \in OldCopy /\ legacy \in OldCopy
      /\ world \in {localState, legacy, staged}
  BY DEF MigrationInit, OldCopy
<1>1. MigrationTypeOK
  BY <1>0, AbsentCopy DEF MigrationInit, MigrationTypeOK, Stages
<1>2. JobIsTrue
  BY DEF MigrationInit, JobIsTrue, AtBucket
<1>3. BucketsAreTrue /\ WorldIsReal
  BY <1>0, AbsentCopy DEF MigrationInit, BucketsAreTrue, WorldIsReal
<1>4. WorldIsDescribed /\ MetadataNamesState
  BY <1>0 DEF MigrationInit, WorldIsDescribed, Copies, MetadataNamesState
<1>5. OldIsOlder
  <2>1. \A c \in {localState, legacy, staged} : Newest(c)
    BY <1>0 DEF MigrationInit, Newest
  <2>2. world = Absent => {localState, staged, legacy} = {Absent}
    BY DEF MigrationInit
  <2> QED BY <1>0, <2>1, <2>2 DEF OldIsOlder
<1>6. \A b \in Centres : OnItsWay(b)
  BY <1>0 DEF MigrationInit, OnItsWay, AtBucket
<1>7. applies = 0
  BY DEF MigrationInit
<1> QED BY <1>1, <1>2, <1>3, <1>4, <1>5, <1>6, <1>7 DEF MigrationInv

\* Every state keeps the invariant.
THEOREM MigrationInvariant == MigrationSpec => []MigrationInv
<1>1. MigrationInv /\ [MigrationNext]_migrationVars => MigrationInv'
  <2> SUFFICES ASSUME MigrationInv, [MigrationNext]_migrationVars PROVE MigrationInv'
    OBVIOUS
  <2>1. CASE UNCHANGED migrationVars
    <3>1. /\ UNCHANGED <<localState, staged, orphan, archives, legacy, remote, world, metadata, owned, centre,
                         proposal, backend, stage, applies>>
      BY <2>1 DEF migrationVars, admin, files
    <3>2. MigrationTypeOK' /\ JobIsTrue'
      BY <3>1 DEF MigrationInv, MigrationTypeOK, JobIsTrue
    <3>3. \A b \in Centres : OnItsWay(b) =>
            /\ metadata' # b
            /\ stage' \in {"none", "local"} => world \in {localState', staged', legacy}
            /\ stage' = "legacy" => world \in {staged', legacy}
            /\ stage' = "restage" => world = legacy
            /\ stage' \in {"workspace", "migrate"} => world = staged' /\ legacy \in {Absent, world}
            /\ stage' \notin AtBucket \ {"migrate"}
      BY <3>1 DEF OnItsWay
    <3> QED BY <3>1, <3>2, <3>3, CopiesMove
  <2>2. CASE Relocate
    BY <2>2, OpenBackendStep, StageLocalStep, CompareLegacyStep, StageLegacyStep, SelectWorkspaceStep,
       MigrateStep, ArchiveStagedStep, RetireStagedStep, RecordMetadataStep, RunTerraformStep,
       InterruptStep DEF Relocate
  <2>3. CASE Around
    BY <2>3, StageByOtherStep, AdminSteps DEF Around
  <2> QED BY <2>1, <2>2, <2>3 DEF MigrationNext
<1> QED BY <1>1, MigrationInitially, PTL DEF MigrationSpec

\* Whatever step a job dies at, some copy describes the world, and the metadata file names
\* a bucket that has a state.
THEOREM StatesAreAccountedForHolds == MigrationSpec => []StatesAreAccountedFor
<1>1. MigrationInv => StatesAreAccountedFor
  BY DEF MigrationInv, StatesAreAccountedFor
<1> QED BY <1>1, MigrationInvariant, PTL

\* Terraform runs on the state that describes the world.
THEOREM RunsOnCurrentStateHolds == MigrationSpec => []RunsOnCurrentState
<1>1. MigrationInv => RunsOnCurrentState
  <2> SUFFICES ASSUME MigrationInv, stage = "plan", orphan = Absent,
                      \A b \in Centres \ {backend} : remote[b] = Absent
               PROVE  Current
    BY DEF RunsOnCurrentState
  <2>1. backend \in Centres /\ OnlyIn(backend) /\ applies \in Nat
    BY DEF MigrationInv, JobIsTrue, OnlyIn, MigrationTypeOK
  <2>2. CASE applies = 0
    <3>1. Settled(backend)
      BY <2>1, <2>2 DEF MigrationInv, OnItsWay, AtBucket
    <3> QED BY <3>1 DEF Settled, Bare, Current
  <2>3. CASE applies > 0
    BY <2>1, <2>3 DEF MigrationInv, Current
  <2> QED BY <2>1, <2>2, <2>3
<1> QED BY <1>1, MigrationInvariant, PTL

-------------------------------------------------------------------------------
(* Volumes, when at most one command of a job fails: the way back drops    *)
(* the errors of its commands, so that nothing undoes a second one.        *)

USE StorageResizeAssumption

Forward == {"stop", "drain", "copy", "switch", "save", "start", "ready"}
Back == {"unscale", "unswitch", "restart"}
Stage == {"idle", "inspect", "expand"} \cup Forward \cup Back
Report == {"none", "done", "failed", "migrated", "restored", "rolled back"}
Document == [claim : [Workloads -> Claims], size : Sizes]
JobRecord == [at : Stage, target : Sizes, todo : SUBSET Workloads, pending : SUBSET Workloads,
              scaled : SUBSET Workloads, switched : SUBSET Workloads,
              replicas : [Workloads -> Nat], doc : Document, original : Document,
              fault : Forward \cup {"none"}, failures : Nat, cancelled : BOOLEAN,
              report : Report]

ResizeTypeOK ==
    /\ attached \in [Workloads -> Claims] /\ scale \in [Workloads -> Nat]
    /\ mounted \in [Workloads -> Claims \cup {NoPod}]
    /\ data \in [Workloads -> [Claims -> Nat]] /\ accepted \in [Workloads -> Nat]
    /\ size \in [Workloads -> [Claims -> Sizes]]
    /\ saved \in Document /\ job \in JobRecord
    /\ resizes \in Claims /\ disturbed \in BOOLEAN

\* A job that nothing disturbs fails once, and not on its way back.
ResizeIsTrue(j) == ~j.cancelled /\ (j.at \in Back => j.failures >= 1)

\* Where a workload, its claims and the document are at each stage of a job:
\* a is the claim it is attached to, s its replicas, m what its pod has mounted,
\* d the writes its claims hold, n the claim of the job, c the document's claim.
WorkloadIsTrue(w, j, a, s, m, d, n, c) ==
    /\ j.at \in {"idle", "inspect", "expand"} => c = a /\ s = 1
    /\ j.at \in {"inspect", "expand"} \cup Forward => j.doc.claim[w] = a
    /\ j.at = "inspect" => j.original.claim[w] = a /\ w \notin j.scaled /\ w \notin j.switched
    /\ j.at \in Forward =>
          /\ j.replicas[w] = 1
          /\ w \notin j.switched => a = j.original.claim[w]
          /\ w \in j.switched => a = n
          /\ w \notin j.scaled => s = 1
          /\ w \in j.scaled <=> w \in j.pending /\ (j.at = "stop" => w \notin j.todo)
          /\ w \in j.todo => w \in j.pending
    /\ j.at \in {"stop", "drain", "copy"} => w \notin j.switched
    /\ j.at \in {"stop", "drain", "copy", "switch", "save"} =>
          c = j.original.claim[w] /\ (w \in j.scaled => s = 0)
    /\ j.at \in {"copy", "switch", "save"} => (w \in j.scaled => m = NoPod)
    /\ j.at = "copy" => (w \in j.scaled /\ w \notin j.todo => d[n] = d[a])
    /\ j.at \in {"switch", "save"} => (w \in j.scaled => d[n] = d[j.original.claim[w]])
    /\ j.at = "switch" => (w \in j.switched <=> w \in j.pending /\ w \notin j.todo)
    /\ j.at \in Forward => (w \in j.switched => w \in j.scaled)
    /\ j.at \in {"start", "ready"} => c = a
    /\ j.at = "start" => (w \notin j.todo => s = 1)
    /\ j.at = "ready" => s = 1
    /\ j.at \in Back =>
          /\ j.replicas[w] = 1
          /\ w \notin j.scaled => s = 1
          /\ w \in j.switched => w \in j.scaled
          /\ j.fault \notin {"save", "start", "ready"} => c = j.original.claim[w]
    /\ j.at = "unscale" => /\ IF w \in j.switched THEN a = n ELSE a = j.original.claim[w]
                           /\ w \in j.todo => w \in j.scaled
    /\ j.at = "unswitch" => IF w \in j.todo THEN a = n ELSE a = j.original.claim[w]
    /\ j.at = "unswitch" => (w \in j.todo => w \in j.switched)
    /\ j.at \in {"unscale", "unswitch"} /\ j.fault \notin {"start", "ready"} =>
          (w \in j.scaled => s = 0 /\ m = NoPod /\ d[n] = d[j.original.claim[w]])
    /\ j.at = "restart" => a = j.original.claim[w] /\ (w \notin j.todo => s = 1)

ResizeInv ==
    /\ ResizeTypeOK
    /\ ~disturbed =>
          /\ ResizeIsTrue(job)
          /\ \A w \in Workloads :
                WorkloadIsTrue(w, job, attached[w], scale[w], mounted[w], data[w], resizes, saved.claim[w])

\* A job record whose at changes keeps the rest.
LEMMA AtSet ==
    ASSUME NEW q \in JobRecord, NEW x \in Stage
    PROVE  LET d == [q EXCEPT !.at = x] IN
           /\ d \in JobRecord /\ d.at = x
           /\ d.target = q.target /\ d.todo = q.todo /\ d.pending = q.pending /\ d.scaled = q.scaled /\ d.switched = q.switched /\ d.replicas = q.replicas
           /\ d.doc = q.doc /\ d.original = q.original /\ d.fault = q.fault /\ d.failures = q.failures /\ d.cancelled = q.cancelled /\ d.report = q.report
BY DEF JobRecord

\* A job record whose todo changes keeps the rest.
LEMMA TodoSet ==
    ASSUME NEW q \in JobRecord, NEW x \in SUBSET Workloads
    PROVE  LET d == [q EXCEPT !.todo = x] IN
           /\ d \in JobRecord /\ d.todo = x
           /\ d.at = q.at /\ d.target = q.target /\ d.pending = q.pending /\ d.scaled = q.scaled /\ d.switched = q.switched /\ d.replicas = q.replicas
           /\ d.doc = q.doc /\ d.original = q.original /\ d.fault = q.fault /\ d.failures = q.failures /\ d.cancelled = q.cancelled /\ d.report = q.report
BY DEF JobRecord

\* A job record whose pending changes keeps the rest.
LEMMA PendingSet ==
    ASSUME NEW q \in JobRecord, NEW x \in SUBSET Workloads
    PROVE  LET d == [q EXCEPT !.pending = x] IN
           /\ d \in JobRecord /\ d.pending = x
           /\ d.at = q.at /\ d.target = q.target /\ d.todo = q.todo /\ d.scaled = q.scaled /\ d.switched = q.switched /\ d.replicas = q.replicas
           /\ d.doc = q.doc /\ d.original = q.original /\ d.fault = q.fault /\ d.failures = q.failures /\ d.cancelled = q.cancelled /\ d.report = q.report
BY DEF JobRecord

\* A job record whose scaled changes keeps the rest.
LEMMA ScaledSet ==
    ASSUME NEW q \in JobRecord, NEW x \in SUBSET Workloads
    PROVE  LET d == [q EXCEPT !.scaled = x] IN
           /\ d \in JobRecord /\ d.scaled = x
           /\ d.at = q.at /\ d.target = q.target /\ d.todo = q.todo /\ d.pending = q.pending /\ d.switched = q.switched /\ d.replicas = q.replicas
           /\ d.doc = q.doc /\ d.original = q.original /\ d.fault = q.fault /\ d.failures = q.failures /\ d.cancelled = q.cancelled /\ d.report = q.report
BY DEF JobRecord

\* A job record whose switched changes keeps the rest.
LEMMA SwitchedSet ==
    ASSUME NEW q \in JobRecord, NEW x \in SUBSET Workloads
    PROVE  LET d == [q EXCEPT !.switched = x] IN
           /\ d \in JobRecord /\ d.switched = x
           /\ d.at = q.at /\ d.target = q.target /\ d.todo = q.todo /\ d.pending = q.pending /\ d.scaled = q.scaled /\ d.replicas = q.replicas
           /\ d.doc = q.doc /\ d.original = q.original /\ d.fault = q.fault /\ d.failures = q.failures /\ d.cancelled = q.cancelled /\ d.report = q.report
BY DEF JobRecord

\* A job record whose replicas changes keeps the rest.
LEMMA ReplicasSet ==
    ASSUME NEW q \in JobRecord, NEW x \in [Workloads -> Nat]
    PROVE  LET d == [q EXCEPT !.replicas = x] IN
           /\ d \in JobRecord /\ d.replicas = x
           /\ d.at = q.at /\ d.target = q.target /\ d.todo = q.todo /\ d.pending = q.pending /\ d.scaled = q.scaled /\ d.switched = q.switched
           /\ d.doc = q.doc /\ d.original = q.original /\ d.fault = q.fault /\ d.failures = q.failures /\ d.cancelled = q.cancelled /\ d.report = q.report
BY DEF JobRecord

\* A job record whose doc changes keeps the rest.
LEMMA DocSet ==
    ASSUME NEW q \in JobRecord, NEW x \in Document
    PROVE  LET d == [q EXCEPT !.doc = x] IN
           /\ d \in JobRecord /\ d.doc = x
           /\ d.at = q.at /\ d.target = q.target /\ d.todo = q.todo /\ d.pending = q.pending /\ d.scaled = q.scaled /\ d.switched = q.switched
           /\ d.replicas = q.replicas /\ d.original = q.original /\ d.fault = q.fault /\ d.failures = q.failures /\ d.cancelled = q.cancelled /\ d.report = q.report
BY DEF JobRecord

\* A job record whose fault changes keeps the rest.
LEMMA FaultSet ==
    ASSUME NEW q \in JobRecord, NEW x \in Forward \cup {"none"}
    PROVE  LET d == [q EXCEPT !.fault = x] IN
           /\ d \in JobRecord /\ d.fault = x
           /\ d.at = q.at /\ d.target = q.target /\ d.todo = q.todo /\ d.pending = q.pending /\ d.scaled = q.scaled /\ d.switched = q.switched
           /\ d.replicas = q.replicas /\ d.doc = q.doc /\ d.original = q.original /\ d.failures = q.failures /\ d.cancelled = q.cancelled /\ d.report = q.report
BY DEF JobRecord

\* A job record whose failures changes keeps the rest.
LEMMA FailuresSet ==
    ASSUME NEW q \in JobRecord, NEW x \in Nat
    PROVE  LET d == [q EXCEPT !.failures = x] IN
           /\ d \in JobRecord /\ d.failures = x
           /\ d.at = q.at /\ d.target = q.target /\ d.todo = q.todo /\ d.pending = q.pending /\ d.scaled = q.scaled /\ d.switched = q.switched
           /\ d.replicas = q.replicas /\ d.doc = q.doc /\ d.original = q.original /\ d.fault = q.fault /\ d.cancelled = q.cancelled /\ d.report = q.report
BY DEF JobRecord

\* A job record whose cancelled changes keeps the rest.
LEMMA CancelledSet ==
    ASSUME NEW q \in JobRecord, NEW x \in BOOLEAN
    PROVE  LET d == [q EXCEPT !.cancelled = x] IN
           /\ d \in JobRecord /\ d.cancelled = x
           /\ d.at = q.at /\ d.target = q.target /\ d.todo = q.todo /\ d.pending = q.pending /\ d.scaled = q.scaled /\ d.switched = q.switched
           /\ d.replicas = q.replicas /\ d.doc = q.doc /\ d.original = q.original /\ d.fault = q.fault /\ d.failures = q.failures /\ d.report = q.report
BY DEF JobRecord


\* A job proceeds.
LEMMA GoesTo ==
    ASSUME job \in JobRecord, NEW where \in Stage, NEW todo \in SUBSET Workloads
    PROVE  LET d == To(where, todo) IN
           /\ d \in JobRecord /\ d.at = where /\ d.todo = todo
           /\ d.target = job.target /\ d.pending = job.pending /\ d.scaled = job.scaled
           /\ d.switched = job.switched /\ d.replicas = job.replicas /\ d.doc = job.doc
           /\ d.original = job.original /\ d.fault = job.fault /\ d.failures = job.failures
           /\ d.cancelled = job.cancelled /\ d.report = job.report
<1> DEFINE d1 == [job EXCEPT !.at = where]
           d2 == [d1 EXCEPT !.todo = todo]
<1>1. To(where, todo) = d2
  BY DEF To, JobRecord
<1>2. /\ d1 \in JobRecord /\ d1.at = where
      /\ d1.target = job.target /\ d1.pending = job.pending /\ d1.scaled = job.scaled
      /\ d1.switched = job.switched /\ d1.replicas = job.replicas /\ d1.doc = job.doc
      /\ d1.original = job.original /\ d1.fault = job.fault /\ d1.failures = job.failures
      /\ d1.cancelled = job.cancelled /\ d1.report = job.report
  BY AtSet
<1> HIDE DEF d1
<1>3. /\ d2 \in JobRecord /\ d2.at = d1.at /\ d2.todo = todo
      /\ d2.target = d1.target /\ d2.pending = d1.pending /\ d2.scaled = d1.scaled
      /\ d2.switched = d1.switched /\ d2.replicas = d1.replicas /\ d2.doc = d1.doc
      /\ d2.original = d1.original /\ d2.fault = d1.fault /\ d2.failures = d1.failures
      /\ d2.cancelled = d1.cancelled /\ d2.report = d1.report
  BY <1>2, TodoSet
<1> HIDE DEF d2
<1> QED BY <1>1, <1>2, <1>3

\* A job counts a failure.
LEMMA Fails ==
    ASSUME NEW q \in JobRecord, q.cancelled = job.cancelled
    PROVE  LET d == Failed(q) IN
           /\ d \in JobRecord /\ d.at = q.at /\ d.todo = q.todo
           /\ d.target = q.target /\ d.pending = q.pending /\ d.scaled = q.scaled
           /\ d.switched = q.switched /\ d.replicas = q.replicas /\ d.doc = q.doc
           /\ d.original = q.original /\ d.fault = q.fault
           /\ d.cancelled = q.cancelled /\ d.report = q.report
           /\ ~q.cancelled => d.failures >= 1
<1> DEFINE n == q.failures + 1
<1>1. q.failures \in Nat /\ n \in Nat /\ n >= 1
  BY DEF JobRecord
<1>2. Failed(q) = IF job.cancelled THEN q ELSE [q EXCEPT !.failures = n]
  BY DEF Failed
<1> HIDE DEF n
<1> QED BY <1>1, <1>2, FailuresSet

\* A job gives up.
LEMMA GivesUp ==
    ASSUME job \in JobRecord, NEW where \in Forward
    PROVE  LET d == GiveUp(where) IN
           /\ d \in JobRecord /\ d.todo = job.scaled /\ d.fault = where
           /\ d.at = IF where \in {"stop", "drain", "copy"} THEN "restart" ELSE "unscale"
           /\ d.target = job.target /\ d.pending = job.pending /\ d.scaled = job.scaled
           /\ d.switched = job.switched /\ d.replicas = job.replicas /\ d.doc = job.doc
           /\ d.original = job.original
           /\ d.cancelled = job.cancelled /\ d.report = job.report
           /\ ~job.cancelled => d.failures >= 1
<1> DEFINE back == IF where \in {"stop", "drain", "copy"} THEN "restart" ELSE "unscale"
           d1 == To(back, job.scaled)
           d2 == [d1 EXCEPT !.fault = where]
<1>0. back \in Stage /\ where \in Forward \cup {"none"} /\ job.scaled \in SUBSET Workloads
  BY DEF Stage, Back, JobRecord
<1>1. GiveUp(where) = Failed(d2)
  BY DEF GiveUp
<1> HIDE DEF back
<1>2. /\ d1 \in JobRecord /\ d1.at = back /\ d1.todo = job.scaled
      /\ d1.target = job.target /\ d1.pending = job.pending /\ d1.scaled = job.scaled
      /\ d1.switched = job.switched /\ d1.replicas = job.replicas /\ d1.doc = job.doc
      /\ d1.original = job.original /\ d1.failures = job.failures
      /\ d1.cancelled = job.cancelled /\ d1.report = job.report
  BY <1>0, GoesTo
<1> HIDE DEF d1
<1>3. /\ d2 \in JobRecord /\ d2.at = d1.at /\ d2.todo = d1.todo /\ d2.fault = where
      /\ d2.target = d1.target /\ d2.pending = d1.pending /\ d2.scaled = d1.scaled
      /\ d2.switched = d1.switched /\ d2.replicas = d1.replicas /\ d2.doc = d1.doc
      /\ d2.original = d1.original /\ d2.failures = d1.failures
      /\ d2.cancelled = d1.cancelled /\ d2.report = d1.report
  BY <1>0, <1>2, FaultSet
<1> HIDE DEF d2
<1> QED BY <1>1, <1>2, <1>3, Fails DEF back

\* The record of no job is the record of a job.
LEMMA NoJobIsOne ==
    /\ NoJob \in JobRecord /\ NoJob.at = "idle" /\ ~NoJob.cancelled /\ NoJob.doc = FirstDocument
    /\ NoJob.scaled = {} /\ NoJob.switched = {} /\ NoJob.pending = {} /\ NoJob.todo = {}
<1>1. FALSE \in BOOLEAN
  BY Zenon
<1>2. FirstDocument \in Document
  BY DEF FirstDocument, Document, Claims, Sizes
<1> HIDE DEF FirstDocument
<1>3. [w \in Workloads |-> 1] \in [Workloads -> Nat]
  OBVIOUS
<1> DEFINE ones == [w \in Workloads |-> 1]
<1> HIDE DEF ones
<1> QED BY <1>1, <1>2, <1>3 DEF NoJob, JobRecord, Stage, Sizes, Report, ones

\* What is left of a job that has ended.
LEMMA EndsSo ==
    ASSUME NEW report \in Report
    PROVE  Ends(report) \in JobRecord /\ Ends(report).at = "idle" /\ ~Ends(report).cancelled
<1>1. NoJob \in JobRecord /\ NoJob.at = "idle" /\ ~NoJob.cancelled
  BY NoJobIsOne
<1> HIDE DEF NoJob
<1> QED BY <1>1 DEF Ends, JobRecord

\* Nothing in a job that has ended depends on its record.
LEMMA IdleIsTrue ==
    ASSUME NEW j, j.at = "idle", ~j.cancelled, NEW w \in Workloads, NEW a, NEW s, NEW m, NEW d, NEW n
    PROVE  ResizeIsTrue(j) /\ (s = 1 => WorkloadIsTrue(w, j, a, s, m, d, n, a))
BY DEF ResizeIsTrue, WorkloadIsTrue, Forward, Back

\* What ResizeInv says, in parts.
LEMMA ResizeKnows ==
    ASSUME ResizeInv
    PROVE  /\ ResizeTypeOK /\ job \in JobRecord
           /\ job.todo \in SUBSET Workloads /\ job.scaled \in SUBSET Workloads
           /\ job.switched \in SUBSET Workloads /\ job.pending \in SUBSET Workloads
           /\ job.doc \in Document /\ job.original \in Document /\ saved \in Document
           /\ job.target \in Sizes
           /\ ~disturbed => /\ ResizeIsTrue(job) /\ ~job.cancelled
                            /\ \A w \in Workloads : WorkloadIsTrue(w, job, attached[w], scale[w], mounted[w],
                                                                   data[w], resizes, saved.claim[w])
BY DEF ResizeInv, ResizeTypeOK, JobRecord, ResizeIsTrue

\* One failure at most.
LEMMA NotTwice ==
    ASSUME ResizeInv, MaxFailures <= 1, ~disturbed, job.at \in Back
    PROVE  ~CanFail
<1>1. ~job.cancelled /\ job.failures >= 1
  BY ResizeKnows DEF ResizeIsTrue
<1>2. job.failures \in Nat
  BY ResizeKnows DEF JobRecord
<1> QED BY <1>1, <1>2 DEF CanFail

\* Giving up does not change where the workloads are.
LEMMA BackIsTrue ==
    ASSUME ResizeInv, ~disturbed, NEW where \in Forward, job.at = where
    PROVE  /\ ResizeIsTrue(GiveUp(where))
           /\ \A w \in Workloads : WorkloadIsTrue(w, GiveUp(where), attached[w], scale[w], mounted[w],
                                                  data[w], resizes, saved.claim[w])
<1> DEFINE d == GiveUp(where)
<1>1. /\ d \in JobRecord /\ d.todo = job.scaled /\ d.fault = where
      /\ d.at = IF where \in {"stop", "drain", "copy"} THEN "restart" ELSE "unscale"
      /\ d.scaled = job.scaled /\ d.switched = job.switched /\ d.replicas = job.replicas
      /\ d.original = job.original /\ ~d.cancelled /\ d.failures >= 1
  BY ResizeKnows, GivesUp
<1> HIDE DEF d
<1>2. ResizeIsTrue(d)
  BY <1>1 DEF ResizeIsTrue
<1>3. ASSUME NEW w \in Workloads
      PROVE  WorkloadIsTrue(w, d, attached[w], scale[w], mounted[w], data[w], resizes, saved.claim[w])
  <2>1. WorkloadIsTrue(w, job, attached[w], scale[w], mounted[w], data[w], resizes, saved.claim[w])
    BY ResizeKnows
  <2> QED BY <1>1, <2>1 DEF WorkloadIsTrue, Forward, Back
<1> QED BY <1>2, <1>3 DEF d

\* A stage that fails goes the way back from where it is, or ends the job.
LEMMA GiveUpStep ==
    ASSUME ResizeInv, NEW where \in Forward, job.at = where, job' = GiveUp(where),
           UNCHANGED <<attached, scale, cloud, saved, resizes, disturbed>>
    PROVE  ResizeInv'
<1>1. ResizeTypeOK'
  BY ResizeKnows, GivesUp DEF ResizeTypeOK, cloud
<1> QED BY <1>1, BackIsTrue DEF ResizeInv, cloud

\* A job that has ended leaves the workloads started and on the document's claims.
LEMMA EndStep ==
    ASSUME ResizeInv, NEW report \in Report, job' = Ends(report), saved' \in Document,
           UNCHANGED <<attached, scale, cloud, resizes>>, disturbed' \in BOOLEAN,
           ~disturbed' => \A w \in Workloads : saved'.claim[w] = attached[w] /\ scale[w] = 1
    PROVE  ResizeInv'
<1>1. job' \in JobRecord /\ job'.at = "idle" /\ ~job'.cancelled
  BY EndsSo
<1>2. ResizeTypeOK'
  BY <1>1, ResizeKnows DEF ResizeTypeOK, cloud
<1>3. ASSUME ~disturbed', NEW w \in Workloads
      PROVE  ResizeIsTrue(job') /\ WorkloadIsTrue(w, job', attached'[w], scale'[w], mounted'[w],
                                               data'[w], resizes', saved'.claim[w])
  BY <1>1, <1>3, IdleIsTrue DEF cloud
<1>4. ResizeIsTrue(job')
  BY <1>1 DEF ResizeIsTrue, Back
<1> QED BY <1>2, <1>3, <1>4 DEF ResizeInv

\* A job begins with the document of the row.
LEMMA SubmitResizeStep ==
    ASSUME ResizeInv, SubmitResize
    PROVE  ResizeInv'
<1>1. PICK target \in Sizes :
         job' = [NoJob EXCEPT !.at = "inspect", !.target = target, !.doc = saved, !.original = saved]
  BY DEF SubmitResize
<1>2. /\ job.at = "idle" /\ resizes < MaxResizes /\ resizes' = resizes + 1
      /\ UNCHANGED <<attached, scale, cloud, saved, disturbed>>
  BY DEF SubmitResize, At
<1>3. /\ job' \in JobRecord /\ job'.at = "inspect" /\ ~job'.cancelled /\ job'.doc = saved
      /\ job'.original = saved /\ job'.scaled = {} /\ job'.switched = {}
  <2>1. /\ NoJob \in JobRecord /\ ~NoJob.cancelled /\ NoJob.scaled = {} /\ NoJob.switched = {}
        /\ "inspect" \in Stage /\ saved \in Document
    BY NoJobIsOne, ResizeKnows DEF Stage
  <2> HIDE DEF NoJob
  <2> QED BY <1>1, <2>1 DEF JobRecord
<1>4. ResizeTypeOK'
  BY <1>2, <1>3, ResizeKnows DEF ResizeTypeOK, cloud, Claims
<1>5. ASSUME ~disturbed', NEW w \in Workloads
      PROVE  WorkloadIsTrue(w, job', attached'[w], scale'[w], mounted'[w], data'[w], resizes', saved'.claim[w])
  <2>1. WorkloadIsTrue(w, job, attached[w], scale[w], mounted[w], data[w], resizes, saved.claim[w])
    BY <1>2, <1>5, ResizeKnows
  <2>2. saved.claim[w] = attached[w] /\ scale[w] = 1
    BY <1>2, <2>1 DEF WorkloadIsTrue
  <2> QED BY <1>2, <1>3, <2>2 DEF WorkloadIsTrue, Forward, Back
<1>6. ResizeIsTrue(job')
  BY <1>3 DEF ResizeIsTrue, Back
<1> QED BY <1>4, <1>5, <1>6 DEF ResizeInv

\* Before the workloads are stopped they are where the document says.
LEMMA BeforeStop ==
    ASSUME ResizeInv, ~disturbed, job.at \in {"idle", "inspect", "expand"}, NEW w \in Workloads
    PROVE  /\ saved.claim[w] = attached[w] /\ scale[w] = 1
           /\ job.at \in {"inspect", "expand"} => job.doc.claim[w] = attached[w]
           /\ job.at = "inspect" => /\ job.original.claim[w] = attached[w]
                                    /\ w \notin job.scaled /\ w \notin job.switched
BY ResizeKnows DEF WorkloadIsTrue

\* Inspecting decides which workloads are behind the size and whether they shrink.
LEMMA InspectStorageStep ==
    ASSUME ResizeInv, InspectStorage
    PROVE  ResizeInv'
<1>1. /\ job.at = "inspect" /\ UNCHANGED <<attached, scale, cloud, resizes, disturbed>>
      /\ Behind \in SUBSET Workloads
  BY DEF InspectStorage, At, Behind
<1>0. /\ ResizeTypeOK /\ job \in JobRecord /\ job.target \in Sizes /\ saved \in Document
      /\ attached \in [Workloads -> Claims] /\ scale \in [Workloads -> Nat]
  BY ResizeKnows DEF ResizeTypeOK
<1>2. ASSUME NEW claims \in {attached, saved.claim}, saved' = [claim |-> claims, size |-> job.target],
             job' = Ends("done")
      PROVE  ResizeInv'
  <2>1. saved' \in Document /\ saved'.claim = claims
    BY <1>0, <1>2 DEF Document
  <2>2. ~disturbed' => \A w \in Workloads : saved'.claim[w] = attached[w] /\ scale[w] = 1
    BY <1>1, <1>2, <2>1, BeforeStop
  <2> QED BY <1>0, <1>1, <1>2, <2>1, <2>2, EndStep DEF Report, ResizeTypeOK
<1>3. ASSUME job' = Ends("failed"), UNCHANGED saved
      PROVE  ResizeInv'
  <2>2. ~disturbed' => \A w \in Workloads : saved'.claim[w] = attached[w] /\ scale[w] = 1
    BY <1>1, <1>3, BeforeStop
  <2> QED BY <1>0, <1>1, <1>3, <2>2, EndStep DEF Report, ResizeTypeOK
<1>4. ASSUME UNCHANGED saved, job' = [To("stop", Behind) EXCEPT !.pending = Behind, !.replicas = scale,
                                                              !.doc.claim = attached]
      PROVE  ResizeInv'
  <2> DEFINE d1 == To("stop", Behind)
             d2 == [d1 EXCEPT !.pending = Behind]
             d3 == [d2 EXCEPT !.replicas = scale]
             x == [d3.doc EXCEPT !.claim = attached]
             d4 == [d3 EXCEPT !.doc = x]
  <2>1. /\ d1 \in JobRecord /\ d1.at = "stop" /\ d1.todo = Behind /\ d1.scaled = job.scaled
        /\ d1.switched = job.switched /\ d1.doc = job.doc /\ d1.original = job.original
        /\ d1.cancelled = job.cancelled
    <3>1. "stop" \in Stage
      BY DEF Stage, Forward
    <3> QED BY <1>0, <1>1, <3>1, GoesTo
  <2>2. job' = [d1 EXCEPT !.pending = Behind, !.replicas = scale, !.doc.claim = attached]
    BY <1>4
  <2> HIDE DEF d1
  <2>3. /\ d2 \in JobRecord /\ d2.at = "stop" /\ d2.todo = Behind /\ d2.scaled = job.scaled
        /\ d2.switched = job.switched /\ d2.doc = job.doc /\ d2.original = job.original
        /\ d2.cancelled = job.cancelled /\ d2.pending = Behind
    BY <1>1, <2>1, PendingSet
  <2> HIDE DEF d2
  <2>4. /\ d3 \in JobRecord /\ d3.at = "stop" /\ d3.todo = Behind /\ d3.scaled = job.scaled
        /\ d3.switched = job.switched /\ d3.doc = job.doc /\ d3.original = job.original
        /\ d3.cancelled = job.cancelled /\ d3.pending = Behind /\ d3.replicas = scale
    BY <1>0, <2>3, ReplicasSet
  <2>5. job' = d4
    BY <2>1, <2>2, <2>3, <2>4 DEF d2, JobRecord
  <2> HIDE DEF d3
  <2>6. x \in Document /\ x.claim = attached
    BY <1>0, <2>4 DEF JobRecord, Document
  <2> HIDE DEF x
  <2>7. /\ d4 \in JobRecord /\ d4.at = "stop" /\ d4.todo = Behind /\ d4.scaled = job.scaled
        /\ d4.switched = job.switched /\ d4.doc = x /\ d4.original = job.original
        /\ d4.cancelled = job.cancelled /\ d4.pending = Behind /\ d4.replicas = scale
    BY <2>4, <2>6, DocSet
  <2> HIDE DEF d4
  <2>8. ResizeTypeOK'
    BY <1>0, <1>1, <1>4, <2>5, <2>7 DEF ResizeTypeOK, cloud
  <2>9. ASSUME ~disturbed'
        PROVE  /\ ResizeIsTrue(job')
               /\ \A w \in Workloads : WorkloadIsTrue(w, job', attached'[w], scale'[w], mounted'[w], data'[w],
                                                      resizes', saved'.claim[w])
    <3>1. ~job.cancelled
      BY <1>1, <2>9, ResizeKnows
    <3>2. ResizeIsTrue(job')
      BY <2>5, <2>7, <3>1 DEF ResizeIsTrue, Back
    <3>3. ASSUME NEW w \in Workloads
          PROVE  WorkloadIsTrue(w, job', attached'[w], scale'[w], mounted'[w], data'[w], resizes', saved'.claim[w])
      <4>1. /\ saved.claim[w] = attached[w] /\ scale[w] = 1 /\ job.original.claim[w] = attached[w]
            /\ w \notin job.scaled /\ w \notin job.switched
        BY <1>1, <2>9, BeforeStop
      <4> QED BY <1>1, <1>4, <2>5, <2>6, <2>7, <4>1, ZenonT(60) DEF WorkloadIsTrue, Forward, Back
    <3> QED BY <3>2, <3>3
  <2> QED BY <2>8, <2>9 DEF ResizeInv
<1>5. ASSUME UNCHANGED saved, job' = [To("expand", Behind) EXCEPT !.pending = Behind]
      PROVE  ResizeInv'
  <2> DEFINE d1 == To("expand", Behind)
             d2 == [d1 EXCEPT !.pending = Behind]
  <2>1. d1 \in JobRecord /\ d1.at = "expand" /\ d1.doc = job.doc /\ d1.cancelled = job.cancelled
    <3>1. "expand" \in Stage
      BY DEF Stage
    <3> QED BY <1>0, <1>1, <3>1, GoesTo
  <2> HIDE DEF d1
  <2>2. d2 \in JobRecord /\ d2.at = "expand" /\ d2.doc = job.doc /\ d2.cancelled = job.cancelled
    BY <1>1, <2>1, PendingSet
  <2>3. job' = d2
    BY <1>5 DEF d1
  <2> HIDE DEF d2
  <2>4. ResizeTypeOK'
    BY <1>0, <1>1, <1>5, <2>2, <2>3 DEF ResizeTypeOK, cloud
  <2>5. ASSUME ~disturbed', NEW w \in Workloads
        PROVE  WorkloadIsTrue(w, job', attached'[w], scale'[w], mounted'[w], data'[w], resizes', saved'.claim[w])
    <3>1. saved.claim[w] = attached[w] /\ scale[w] = 1 /\ job.doc.claim[w] = attached[w]
      BY <1>1, <2>5, BeforeStop
    <3> QED BY <1>1, <1>5, <2>2, <2>3, <3>1 DEF WorkloadIsTrue, Forward, Back
  <2>6. ~disturbed' => ResizeIsTrue(job')
    BY <1>1, <2>2, <2>3, ResizeKnows DEF ResizeIsTrue, Back
  <2> QED BY <2>4, <2>5, <2>6 DEF ResizeInv
<1> QED BY <1>2, <1>3, <1>4, <1>5 DEF InspectStorage

\* A job that cannot inspect has changed nothing.
LEMMA InspectFailsStep ==
    ASSUME ResizeInv, InspectFails
    PROVE  ResizeInv'
<1>1. /\ job.at = "inspect" /\ job' = Ends("failed")
      /\ UNCHANGED <<attached, scale, cloud, saved, resizes, disturbed>>
  BY DEF InspectFails, At
<1>2. ~disturbed' => \A w \in Workloads : saved'.claim[w] = attached[w] /\ scale[w] = 1
  BY <1>1, BeforeStop
<1> QED BY <1>1, <1>2, ResizeKnows, EndStep DEF Report, ResizeTypeOK

\* A document with another size.
LEMMA SizeSet ==
    ASSUME NEW x \in Document, NEW n \in Sizes
    PROVE  LET d == [x EXCEPT !.size = n] IN d \in Document /\ d.claim = x.claim
BY DEF Document

\* A job that only grows claims saves its document first; the claims stay the same ones.
LEMMA SaveExpansionStep ==
    ASSUME ResizeInv, SaveExpansion
    PROVE  ResizeInv'
<1>1. /\ job.at = "expand" /\ UNCHANGED <<attached, scale, cloud, resizes, disturbed>>
  BY DEF SaveExpansion, At
<1>2. CASE saved' = [job.doc EXCEPT !.size = job.target] /\ UNCHANGED job
  <2>1. saved' \in Document /\ saved'.claim = job.doc.claim
    BY <1>2, SizeSet, ResizeKnows
  <2>2. ResizeTypeOK'
    BY <1>1, <1>2, <2>1, ResizeKnows DEF ResizeTypeOK, cloud
  <2>3. ASSUME ~disturbed', NEW w \in Workloads
        PROVE  WorkloadIsTrue(w, job', attached'[w], scale'[w], mounted'[w], data'[w], resizes', saved'.claim[w])
    <3>1. saved.claim[w] = attached[w] /\ job.doc.claim[w] = attached[w]
      BY <1>1, <2>3, BeforeStop
    <3>2. WorkloadIsTrue(w, job, attached[w], scale[w], mounted[w], data[w], resizes, saved.claim[w])
      BY <1>1, <2>3, ResizeKnows
    <3> QED BY <1>1, <1>2, <2>1, <3>1, <3>2 DEF cloud
  <2> QED BY <1>1, <1>2, <2>2, <2>3, ResizeKnows DEF ResizeInv
<1>3. CASE UNCHANGED saved /\ job' = Ends("failed")
  <2>1. ~disturbed' => \A w \in Workloads : saved'.claim[w] = attached[w] /\ scale[w] = 1
    BY <1>1, <1>3, BeforeStop
  <2> QED BY <1>1, <1>3, <2>1, ResizeKnows, EndStep DEF Report, ResizeTypeOK
<1> QED BY <1>2, <1>3 DEF SaveExpansion

\* A claim that grows is the same claim.
LEMMA ExpandClaimStep ==
    ASSUME ResizeInv, NEW w \in Workloads, ExpandClaim(w)
    PROVE  ResizeInv'
<1>1. /\ job.at = "expand" /\ UNCHANGED <<attached, scale, mounted, data, accepted, saved, resizes, disturbed>>
      /\ ResizeTypeOK
  BY ResizeKnows DEF ExpandClaim, At
<1>2. size' \in [Workloads -> [Claims -> Sizes]]
  <2>1. /\ size \in [Workloads -> [Claims -> Sizes]] /\ job.target \in Sizes /\ attached[w] \in Claims
    BY <1>1, ResizeKnows DEF ResizeTypeOK
  <2> DEFINE x == [size[w] EXCEPT ![attached[w]] = job.target]
  <2>2. x \in [Claims -> Sizes]
    BY <2>1
  <2>3. size' = size \/ size' = [size EXCEPT ![w] = x]
    BY <2>1 DEF ExpandClaim
  <2> HIDE DEF x
  <2> QED BY <2>1, <2>2, <2>3
<1>3. job' = To("expand", job.todo \ {w}) \/ \E report \in Report : job' = Ends(report)
  BY DEF ExpandClaim, Report
<1>4. /\ job' \in JobRecord
      /\ \/ job'.at = "idle" /\ ~job'.cancelled
         \/ job'.at = "expand" /\ job'.doc = job.doc /\ job'.cancelled = job.cancelled
  <2>1. CASE job' = To("expand", job.todo \ {w})
    <3> DEFINE todo == job.todo \ {w}
    <3>1. "expand" \in Stage /\ todo \in SUBSET Workloads /\ job' = To("expand", todo)
      BY <2>1, ResizeKnows DEF Stage
    <3> HIDE DEF todo
    <3> QED BY <3>1, GoesTo, ResizeKnows
  <2> QED BY <1>3, <2>1, EndsSo
<1>5. ResizeTypeOK'
  BY <1>1, <1>2, <1>4 DEF ResizeTypeOK
<1>6. ASSUME ~disturbed', NEW u \in Workloads
      PROVE  WorkloadIsTrue(u, job', attached'[u], scale'[u], mounted'[u], data'[u], resizes', saved'.claim[u])
  <2>1. saved.claim[u] = attached[u] /\ scale[u] = 1 /\ job.doc.claim[u] = attached[u]
    BY <1>1, <1>6, BeforeStop
  <2> QED BY <1>1, <1>4, <2>1 DEF WorkloadIsTrue, Forward, Back
<1>7. ~disturbed' => ResizeIsTrue(job')
  BY <1>1, <1>4, ResizeKnows DEF ResizeIsTrue, Back
<1> QED BY <1>5, <1>6, <1>7 DEF ResizeInv

\* A step of a job in its stage: every workload is where the new record says.
LEMMA JobStep ==
    ASSUME ResizeInv, job' \in JobRecord, ~job.cancelled => ~job'.cancelled,
           ~disturbed /\ job'.at \in Back => job'.failures >= 1,
           UNCHANGED <<resizes, accepted>>, disturbed' \in BOOLEAN, disturbed => disturbed',
           saved' \in Document, attached' \in [Workloads -> Claims], scale' \in [Workloads -> Nat],
           mounted' \in [Workloads -> Claims \cup {NoPod}], data' \in [Workloads -> [Claims -> Nat]],
           size' \in [Workloads -> [Claims -> Sizes]],
           \A w \in Workloads : ~disturbed' =>
              WorkloadIsTrue(w, job', attached'[w], scale'[w], mounted'[w], data'[w], resizes, saved'.claim[w])
    PROVE  ResizeInv'
<1>1. ResizeTypeOK'
  BY ResizeKnows DEF ResizeTypeOK
<1>2. ~disturbed' => ResizeIsTrue(job')
  BY ResizeKnows DEF ResizeIsTrue
<1> QED BY <1>1, <1>2 DEF ResizeInv

\* The types of the state.
LEMMA TypesKnown ==
    ASSUME ResizeInv
    PROVE  /\ attached \in [Workloads -> Claims] /\ scale \in [Workloads -> Nat]
           /\ mounted \in [Workloads -> Claims \cup {NoPod}] /\ data \in [Workloads -> [Claims -> Nat]]
           /\ size \in [Workloads -> [Claims -> Sizes]] /\ saved \in Document /\ job \in JobRecord
           /\ resizes \in Claims /\ disturbed \in BOOLEAN
BY DEF ResizeInv, ResizeTypeOK

\* A workload that has been scaled down is one of the scaled.
LEMMA StopWorkloadStep ==
    ASSUME ResizeInv, NEW w \in Workloads, StopWorkload(w)
    PROVE  ResizeInv'
<1>1. /\ job.at = "stop" /\ w \in job.todo /\ UNCHANGED <<attached, cloud, saved, resizes, disturbed>>
  BY DEF StopWorkload, At
<1>2. CASE job' = GiveUp("stop") /\ UNCHANGED scale
  BY <1>1, <1>2, GiveUpStep DEF Forward
<1>3. CASE /\ scale' = [scale EXCEPT ![w] = 0]
           /\ job' = [To(IF job.todo = {w} THEN "drain" ELSE "stop", job.todo \ {w}) EXCEPT !.scaled = @ \cup {w}]
  <2> DEFINE where == IF job.todo = {w} THEN "drain" ELSE "stop"
             todo == job.todo \ {w}
             d1 == To(where, todo)
             scaled == job.scaled \cup {w}
             d2 == [d1 EXCEPT !.scaled = scaled]
  <2>1. where \in Stage /\ todo \in SUBSET Workloads /\ scaled \in SUBSET Workloads
    BY ResizeKnows DEF Stage, Forward
  <2>0. job' = [d1 EXCEPT !.scaled = @ \cup {w}]
    BY <1>3
  <2> HIDE DEF where, todo
  <2>2. /\ d1 \in JobRecord /\ d1.at = where /\ d1.todo = todo
        /\ d1.target = job.target /\ d1.pending = job.pending /\ d1.scaled = job.scaled
        /\ d1.switched = job.switched /\ d1.replicas = job.replicas /\ d1.doc = job.doc
        /\ d1.original = job.original /\ d1.fault = job.fault /\ d1.failures = job.failures
        /\ d1.cancelled = job.cancelled /\ d1.report = job.report
    BY <2>1, ResizeKnows, GoesTo
  <2>3. job' = d2
    BY <2>0, <2>2 DEF JobRecord
  <2> HIDE DEF d1, scaled
  <2>4. /\ d2 \in JobRecord /\ d2.at = where /\ d2.todo = todo /\ d2.scaled = scaled
        /\ d2.target = job.target /\ d2.pending = job.pending
        /\ d2.switched = job.switched /\ d2.replicas = job.replicas /\ d2.doc = job.doc
        /\ d2.original = job.original /\ d2.fault = job.fault /\ d2.failures = job.failures
        /\ d2.cancelled = job.cancelled /\ d2.report = job.report
    BY <2>1, <2>2, ScaledSet
  <2> HIDE DEF d2
  <2>5. /\ scale' \in [Workloads -> Nat] /\ scale'[w] = 0 /\ \A u \in Workloads \ {w} : scale'[u] = scale[u]
    BY <1>3, TypesKnown
  <2>6. ASSUME NEW u \in Workloads, ~disturbed'
        PROVE  WorkloadIsTrue(u, job', attached'[u], scale'[u], mounted'[u], data'[u], resizes, saved'.claim[u])
    <3>1. WorkloadIsTrue(u, job, attached[u], scale[u], mounted[u], data[u], resizes, saved.claim[u])
      BY <1>1, <2>6, ResizeKnows
    <3>2. UNCHANGED <<attached, mounted, data, saved>>
      BY <1>1 DEF cloud
    <3>3. CASE u = w
      BY <1>1, <2>3, <2>4, <2>5, <3>1, <3>2, <3>3 DEF WorkloadIsTrue, Forward, Back, where, todo, scaled
    <3>4. CASE u # w
      BY <1>1, <2>3, <2>4, <2>5, <3>1, <3>2, <3>4 DEF WorkloadIsTrue, Forward, Back, where, todo, scaled
    <3> QED BY <3>3, <3>4
  <2>7. where \notin Back
    BY DEF where, Back
  <2> QED BY <1>1, <2>3, <2>4, <2>5, <2>6, <2>7, TypesKnown, JobStep DEF cloud
<1> QED BY <1>2, <1>3 DEF StopWorkload

\* Copying starts when no pod of the stopped workloads is left.
LEMMA DrainStep ==
    ASSUME ResizeInv, Drain
    PROVE  ResizeInv'
<1>1. /\ job.at = "drain" /\ UNCHANGED <<attached, scale, cloud, saved, resizes, disturbed>>
  BY DEF Drain, At
<1>2. CASE job' = GiveUp("drain")
  BY <1>1, <1>2, GiveUpStep DEF Forward
<1>3. CASE (\A w \in job.pending : mounted[w] = NoPod) /\ job' = To("copy", job.pending)
  <2>1. "copy" \in Stage /\ job.pending \in SUBSET Workloads
    BY ResizeKnows DEF Stage, Forward
  <2> DEFINE d == To("copy", job.pending)
  <2>2. /\ d \in JobRecord /\ d.at = "copy" /\ d.todo = job.pending
        /\ d.target = job.target /\ d.pending = job.pending /\ d.scaled = job.scaled
        /\ d.switched = job.switched /\ d.replicas = job.replicas /\ d.doc = job.doc
        /\ d.original = job.original /\ d.fault = job.fault /\ d.failures = job.failures
        /\ d.cancelled = job.cancelled /\ d.report = job.report
    BY <2>1, ResizeKnows, GoesTo
  <2>3. job' = d
    BY <1>3
  <2> HIDE DEF d
  <2>4. ASSUME NEW u \in Workloads, ~disturbed'
        PROVE  WorkloadIsTrue(u, job', attached'[u], scale'[u], mounted'[u], data'[u], resizes, saved'.claim[u])
    <3>1. WorkloadIsTrue(u, job, attached[u], scale[u], mounted[u], data[u], resizes, saved.claim[u])
      BY <1>1, <2>4, ResizeKnows
    <3>2. UNCHANGED <<attached, scale, mounted, data, saved>>
      BY <1>1 DEF cloud
    <3> QED BY <1>1, <1>3, <2>2, <2>3, <3>1, <3>2 DEF WorkloadIsTrue, Forward, Back
  <2> QED BY <1>1, <2>2, <2>3, <2>4, TypesKnown, JobStep DEF cloud, Back
<1> QED BY <1>2, <1>3 DEF Drain

\* The copy has the data of the claim: no pod writes to either.
LEMMA CopyVolumeStep ==
    ASSUME ResizeInv, NEW w \in Workloads, CopyVolume(w)
    PROVE  ResizeInv'
<1>1. /\ job.at = "copy" /\ w \in job.todo
      /\ UNCHANGED <<attached, scale, mounted, accepted, saved, resizes, disturbed>>
  BY DEF CopyVolume, At
<1>2. CASE job' = GiveUp("copy") /\ UNCHANGED <<data, size>>
  BY <1>1, <1>2, GiveUpStep DEF Forward, cloud
<1>3. CASE /\ data' = [data EXCEPT ![w][resizes] = data[w][attached[w]]]
           /\ size' = [size EXCEPT ![w][resizes] = job.target]
           /\ job' = IF job.todo = {w} THEN To("switch", job.pending) ELSE To("copy", job.todo \ {w})
  <2> DEFINE where == IF job.todo = {w} THEN "switch" ELSE "copy"
             todo == IF job.todo = {w} THEN job.pending ELSE job.todo \ {w}
             d == To(where, todo)
  <2>1. where \in Stage /\ todo \in SUBSET Workloads /\ job' = d
    BY <1>3, ResizeKnows DEF Stage, Forward
  <2> HIDE DEF where, todo
  <2>2. /\ d \in JobRecord /\ d.at = where /\ d.todo = todo
        /\ d.target = job.target /\ d.pending = job.pending /\ d.scaled = job.scaled
        /\ d.switched = job.switched /\ d.replicas = job.replicas /\ d.doc = job.doc
        /\ d.original = job.original /\ d.fault = job.fault /\ d.failures = job.failures
        /\ d.cancelled = job.cancelled /\ d.report = job.report
    BY <2>1, ResizeKnows, GoesTo
  <2> HIDE DEF d
  <2>3. /\ data \in [Workloads -> [Claims -> Nat]] /\ size \in [Workloads -> [Claims -> Sizes]]
        /\ job.target \in Sizes /\ resizes \in Claims /\ attached[w] \in Claims
    BY TypesKnown, ResizeKnows
  <2>4. /\ data' \in [Workloads -> [Claims -> Nat]] /\ data'[w][resizes] = data[w][attached[w]]
        /\ \A c \in Claims \ {resizes} : data'[w][c] = data[w][c]
        /\ \A u \in Workloads \ {w} : data'[u] = data[u]
    <3> DEFINE x == [data[w] EXCEPT ![resizes] = data[w][attached[w]]]
    <3>1. /\ x \in [Claims -> Nat] /\ x[resizes] = data[w][attached[w]]
          /\ \A c \in Claims \ {resizes} : x[c] = data[w][c]
      BY <2>3
    <3>2. data' = [data EXCEPT ![w] = x]
      BY <1>3, <2>3
    <3> HIDE DEF x
    <3> QED BY <2>3, <3>1, <3>2
  <2>5. size' \in [Workloads -> [Claims -> Sizes]]
    <3> DEFINE x == [size[w] EXCEPT ![resizes] = job.target]
    <3>1. x \in [Claims -> Sizes]
      BY <2>3
    <3>2. size' = [size EXCEPT ![w] = x]
      BY <1>3, <2>3
    <3> HIDE DEF x
    <3> QED BY <2>3, <3>1, <3>2
  <2>6. ASSUME NEW u \in Workloads, ~disturbed'
        PROVE  WorkloadIsTrue(u, job', attached'[u], scale'[u], mounted'[u], data'[u], resizes, saved'.claim[u])
    <3>1. WorkloadIsTrue(u, job, attached[u], scale[u], mounted[u], data[u], resizes, saved.claim[u])
      BY <1>1, <2>6, ResizeKnows
    <3>2. attached[u] \in Claims /\ (attached[u] = job.original.claim[u])
      BY <1>1, <3>1, TypesKnown DEF WorkloadIsTrue, Forward
    <3>3. CASE u = w
      <4>1. data'[u][resizes] = data'[u][attached[u]]
        BY <2>4, <3>2, <3>3
      <4> QED BY <1>1, <2>1, <2>2, <3>1, <3>2, <3>3, <4>1 DEF WorkloadIsTrue, Forward, Back, where, todo
    <3>4. CASE u # w
      BY <1>1, <2>1, <2>2, <2>4, <3>1, <3>2, <3>4 DEF WorkloadIsTrue, Forward, Back, where, todo
    <3> QED BY <3>3, <3>4
  <2>7. where \notin Back
    BY DEF where, Back
  <2> QED BY <1>1, <2>1, <2>2, <2>4, <2>5, <2>6, <2>7, TypesKnown, JobStep
<1> QED BY <1>2, <1>3 DEF CopyVolume

\* A document with another claim of one workload.
LEMMA ClaimSet ==
    ASSUME NEW x \in Document, NEW w \in Workloads, NEW c \in Claims
    PROVE  LET d == [x EXCEPT !.claim[w] = c] IN
           d \in Document /\ d.claim[w] = c /\ \A u \in Workloads \ {w} : d.claim[u] = x.claim[u]
BY DEF Document

\* A workload is switched to a claim that was copied while it stood still.
LEMMA SwitchClaimStep ==
    ASSUME ResizeInv, NEW w \in Workloads, SwitchClaim(w)
    PROVE  ResizeInv'
<1>1. /\ job.at = "switch" /\ w \in job.todo /\ UNCHANGED <<scale, cloud, saved, resizes>>
  BY DEF SwitchClaim, At
<1>2. CASE job' = GiveUp("switch") /\ UNCHANGED <<attached, disturbed>>
  BY <1>1, <1>2, GiveUpStep DEF Forward
<1>3. CASE job' = GiveUp("switch") /\ attached' = [attached EXCEPT ![w] = resizes] /\ disturbed' = TRUE
  <2>1. job' \in JobRecord
    BY <1>3, GivesUp, ResizeKnows DEF Forward
  <2>2. disturbed' \in BOOLEAN
    BY <1>3, Zenon
  <2>3. attached' \in [Workloads -> Claims]
    BY <1>3, TypesKnown
  <2> QED BY <1>1, <1>3, <2>1, <2>2, <2>3, TypesKnown, ResizeKnows DEF ResizeInv, ResizeTypeOK, cloud
<1>4. CASE /\ attached' = [attached EXCEPT ![w] = resizes] /\ UNCHANGED disturbed
           /\ job' = [To(IF job.todo = {w} THEN "save" ELSE "switch", job.todo \ {w})
                        EXCEPT !.switched = @ \cup {w}, !.doc.claim[w] = resizes]
  <2> DEFINE where == IF job.todo = {w} THEN "save" ELSE "switch"
             todo == job.todo \ {w}
             d1 == To(where, todo)
             switched == job.switched \cup {w}
             d2 == [d1 EXCEPT !.switched = switched]
             x == [job.doc EXCEPT !.claim[w] = resizes]
             d3 == [d2 EXCEPT !.doc = x]
  <2>1. where \in Stage /\ todo \in SUBSET Workloads /\ switched \in SUBSET Workloads
    BY ResizeKnows DEF Stage, Forward
  <2>0. job' = [d1 EXCEPT !.switched = @ \cup {w}, !.doc.claim[w] = resizes]
    BY <1>4
  <2> HIDE DEF where, todo
  <2>2. /\ d1 \in JobRecord /\ d1.at = where /\ d1.todo = todo
        /\ d1.target = job.target /\ d1.pending = job.pending /\ d1.scaled = job.scaled
        /\ d1.switched = job.switched /\ d1.replicas = job.replicas /\ d1.doc = job.doc
        /\ d1.original = job.original /\ d1.fault = job.fault /\ d1.failures = job.failures
        /\ d1.cancelled = job.cancelled /\ d1.report = job.report
    BY <2>1, ResizeKnows, GoesTo
  <2> HIDE DEF d1
  <2>4. /\ d2 \in JobRecord /\ d2.at = where /\ d2.todo = todo /\ d2.scaled = job.scaled
        /\ d2.target = job.target /\ d2.pending = job.pending
        /\ d2.switched = switched /\ d2.replicas = job.replicas /\ d2.doc = job.doc
        /\ d2.original = job.original /\ d2.fault = job.fault /\ d2.failures = job.failures
        /\ d2.cancelled = job.cancelled /\ d2.report = job.report
    BY <2>1, <2>2, SwitchedSet
  <2>3. job' = d3
    <3>1. job' = [[d1 EXCEPT !.switched = switched] EXCEPT !.doc.claim[w] = resizes]
      BY <2>0, <2>2 DEF JobRecord
    <3>2. job' = [d2 EXCEPT !.doc.claim[w] = resizes]
      BY <3>1
    <3> HIDE DEF d2
    <3> QED BY <2>4, <3>2
  <2> HIDE DEF d2, switched
  <2>5. x \in Document /\ x.claim[w] = resizes /\ \A u \in Workloads \ {w} : x.claim[u] = job.doc.claim[u]
    BY ClaimSet, ResizeKnows, TypesKnown
  <2> HIDE DEF x
  <2>6. /\ d3 \in JobRecord /\ d3.at = where /\ d3.todo = todo /\ d3.scaled = job.scaled
        /\ d3.target = job.target /\ d3.pending = job.pending
        /\ d3.switched = switched /\ d3.replicas = job.replicas /\ d3.doc = x
        /\ d3.original = job.original /\ d3.fault = job.fault /\ d3.failures = job.failures
        /\ d3.cancelled = job.cancelled /\ d3.report = job.report
    BY <2>4, <2>5, DocSet
  <2> HIDE DEF d3
  <2>7. /\ attached' \in [Workloads -> Claims] /\ attached'[w] = resizes
        /\ \A u \in Workloads \ {w} : attached'[u] = attached[u]
    BY <1>4, TypesKnown
  <2>8. ASSUME NEW u \in Workloads, ~disturbed'
        PROVE  WorkloadIsTrue(u, job', attached'[u], scale'[u], mounted'[u], data'[u], resizes, saved'.claim[u])
    <3>1. WorkloadIsTrue(u, job, attached[u], scale[u], mounted[u], data[u], resizes, saved.claim[u])
      BY <1>1, <1>4, <2>8, ResizeKnows
    <3>2. UNCHANGED <<scale, mounted, data, saved>>
      BY <1>1 DEF cloud
    <3>3. CASE u = w
      BY <1>1, <2>3, <2>5, <2>6, <2>7, <3>1, <3>2, <3>3 DEF WorkloadIsTrue, Forward, Back, where, todo, switched
    <3>4. CASE u # w
      BY <1>1, <2>3, <2>5, <2>6, <2>7, <3>1, <3>2, <3>4 DEF WorkloadIsTrue, Forward, Back, where, todo, switched
    <3> QED BY <3>3, <3>4
  <2>9. where \notin Back
    BY DEF where, Back
  <2> QED BY <1>1, <1>4, <2>3, <2>6, <2>7, <2>8, <2>9, TypesKnown, JobStep DEF cloud
<1> QED BY <1>2, <1>3, <1>4 DEF SwitchClaim

\* The document that names the new claims is saved after every workload has been switched.
LEMMA SaveSwitchStep ==
    ASSUME ResizeInv, SaveSwitch
    PROVE  ResizeInv'
<1>1. job.at = "save" /\ UNCHANGED <<attached, scale, cloud, resizes, disturbed>>
  BY DEF SaveSwitch, At
<1>2. CASE job' = GiveUp("save") /\ UNCHANGED saved
  BY <1>1, <1>2, GiveUpStep DEF Forward
<1>3. CASE saved' = [job.doc EXCEPT !.size = job.target] /\ job' = To("start", job.pending)
  <2>1. "start" \in Stage /\ job.pending \in SUBSET Workloads
    BY ResizeKnows DEF Stage, Forward
  <2> DEFINE d == To("start", job.pending)
  <2>2. /\ d \in JobRecord /\ d.at = "start" /\ d.todo = job.pending
        /\ d.target = job.target /\ d.pending = job.pending /\ d.scaled = job.scaled
        /\ d.switched = job.switched /\ d.replicas = job.replicas /\ d.doc = job.doc
        /\ d.original = job.original /\ d.fault = job.fault /\ d.failures = job.failures
        /\ d.cancelled = job.cancelled /\ d.report = job.report
    BY <2>1, ResizeKnows, GoesTo
  <2>3. job' = d
    BY <1>3
  <2> HIDE DEF d
  <2>4. saved' \in Document /\ saved'.claim = job.doc.claim
    BY <1>3, SizeSet, ResizeKnows
  <2>5. ASSUME NEW u \in Workloads, ~disturbed'
        PROVE  WorkloadIsTrue(u, job', attached'[u], scale'[u], mounted'[u], data'[u], resizes, saved'.claim[u])
    <3>1. WorkloadIsTrue(u, job, attached[u], scale[u], mounted[u], data[u], resizes, saved.claim[u])
      BY <1>1, <2>5, ResizeKnows
    <3>2. UNCHANGED <<attached, scale, mounted, data>>
      BY <1>1 DEF cloud
    <3> QED BY <1>1, <2>2, <2>3, <2>4, <3>1, <3>2 DEF WorkloadIsTrue, Forward, Back
  <2> QED BY <1>1, <2>2, <2>3, <2>4, <2>5, TypesKnown, JobStep DEF cloud, Back
<1> QED BY <1>2, <1>3 DEF SaveSwitch

\* A workload starts on the claim it is attached to.
LEMMA StartWorkloadStep ==
    ASSUME ResizeInv, NEW w \in Workloads, StartWorkload(w)
    PROVE  ResizeInv'
<1>1. job.at = "start" /\ w \in job.todo /\ UNCHANGED <<attached, cloud, saved, resizes, disturbed>>
  BY DEF StartWorkload, At
<1>2. CASE job' = GiveUp("start") /\ UNCHANGED scale
  BY <1>1, <1>2, GiveUpStep DEF Forward
<1>3. CASE /\ scale' = [scale EXCEPT ![w] = job.replicas[w]]
           /\ job' = To(IF job.todo = {w} THEN "ready" ELSE "start", job.todo \ {w})
  <2> DEFINE where == IF job.todo = {w} THEN "ready" ELSE "start"
             todo == job.todo \ {w}
             d == To(where, todo)
  <2>1. where \in Stage /\ todo \in SUBSET Workloads /\ job' = d
    BY <1>3, ResizeKnows DEF Stage, Forward
  <2> HIDE DEF where, todo
  <2>2. /\ d \in JobRecord /\ d.at = where /\ d.todo = todo
        /\ d.target = job.target /\ d.pending = job.pending /\ d.scaled = job.scaled
        /\ d.switched = job.switched /\ d.replicas = job.replicas /\ d.doc = job.doc
        /\ d.original = job.original /\ d.fault = job.fault /\ d.failures = job.failures
        /\ d.cancelled = job.cancelled /\ d.report = job.report
    BY <2>1, ResizeKnows, GoesTo
  <2> HIDE DEF d
  <2>3. job.replicas[w] \in Nat
    BY ResizeKnows DEF JobRecord
  <2>4. /\ scale' \in [Workloads -> Nat] /\ scale'[w] = job.replicas[w]
        /\ \A u \in Workloads \ {w} : scale'[u] = scale[u]
    BY <1>3, <2>3, TypesKnown
  <2>5. ASSUME NEW u \in Workloads, ~disturbed'
        PROVE  WorkloadIsTrue(u, job', attached'[u], scale'[u], mounted'[u], data'[u], resizes, saved'.claim[u])
    <3>1. WorkloadIsTrue(u, job, attached[u], scale[u], mounted[u], data[u], resizes, saved.claim[u])
      BY <1>1, <2>5, ResizeKnows
    <3>2. UNCHANGED <<attached, mounted, data, saved>>
      BY <1>1 DEF cloud
    <3>3. CASE u = w
      BY <1>1, <2>1, <2>2, <2>4, <3>1, <3>2, <3>3 DEF WorkloadIsTrue, Forward, Back, where, todo
    <3>4. CASE u # w
      BY <1>1, <2>1, <2>2, <2>4, <3>1, <3>2, <3>4 DEF WorkloadIsTrue, Forward, Back, where, todo
    <3> QED BY <3>3, <3>4
  <2>6. where \notin Back
    BY DEF where, Back
  <2> QED BY <1>1, <2>1, <2>2, <2>4, <2>5, <2>6, TypesKnown, JobStep DEF cloud
<1> QED BY <1>2, <1>3 DEF StartWorkload

\* A job that ends as migrated has started every workload.
LEMMA AwaitReadyStep ==
    ASSUME ResizeInv, AwaitReady
    PROVE  ResizeInv'
<1>1. job.at = "ready" /\ UNCHANGED <<attached, scale, cloud, saved, resizes, disturbed>>
  BY DEF AwaitReady, At
<1>2. CASE job' = GiveUp("ready")
  BY <1>1, <1>2, GiveUpStep DEF Forward
<1>3. CASE job' = Ends("migrated")
  <2>1. ASSUME ~disturbed', NEW w \in Workloads
        PROVE  saved'.claim[w] = attached[w] /\ scale[w] = 1
    <3>1. WorkloadIsTrue(w, job, attached[w], scale[w], mounted[w], data[w], resizes, saved.claim[w])
      BY <1>1, <2>1, ResizeKnows
    <3> QED BY <1>1, <3>1 DEF WorkloadIsTrue
  <2> QED BY <1>1, <1>3, <2>1, TypesKnown, EndStep DEF Report
<1> QED BY <1>2, <1>3 DEF AwaitReady

\* A step of the way back, which fails only when the job was cancelled.
LEMMA BackStep ==
    ASSUME ResizeInv, MaxFailures <= 1, job.at \in Back, NEW where \in Stage, NEW todo \in SUBSET Workloads,
           \/ job' = To(where, todo)
           \/ CanFail /\ job' = Failed(To(where, todo)),
           UNCHANGED <<cloud, saved, resizes, disturbed>>,
           attached' \in [Workloads -> Claims], scale' \in [Workloads -> Nat],
           ~disturbed /\ job' = To(where, todo) =>
              \A w \in Workloads : WorkloadIsTrue(w, To(where, todo), attached'[w], scale'[w], mounted[w],
                                                  data[w], resizes, saved.claim[w])
    PROVE  ResizeInv'
<1> DEFINE d == To(where, todo)
<1>1. d \in JobRecord /\ d.failures = job.failures /\ d.cancelled = job.cancelled
  BY GoesTo, ResizeKnows
<1>2. /\ Failed(d) \in JobRecord /\ Failed(d).cancelled = job.cancelled
  BY <1>1, Fails
<1> HIDE DEF d
<1>3. ~disturbed => job' = d
  BY NotTwice DEF d
<1>4. ~disturbed => job.failures >= 1
  BY ResizeKnows DEF ResizeIsTrue
<1>5. job' \in JobRecord /\ job'.cancelled = job.cancelled
  BY <1>1, <1>2 DEF d
<1>6. ~disturbed /\ job'.at \in Back => job'.failures >= 1
  BY <1>1, <1>3, <1>4
<1>7. \A w \in Workloads : ~disturbed' =>
         WorkloadIsTrue(w, job', attached'[w], scale'[w], mounted'[w], data'[w], resizes, saved'.claim[w])
  BY <1>3 DEF d, cloud
<1> QED BY <1>5, <1>6, <1>7, TypesKnown, JobStep DEF cloud

\* Undoing scales a workload down again that had started.
LEMMA UnscaleStep ==
    ASSUME ResizeInv, MaxFailures <= 1, NEW w \in Workloads, Unscale(w)
    PROVE  ResizeInv'
<1> DEFINE where == IF job.todo = {w} THEN "unswitch" ELSE job.at
           todo == IF job.todo = {w} THEN job.switched ELSE job.todo \ {w}
           d == To(where, todo)
<1>1. /\ job.at = "unscale" /\ w \in job.todo /\ UNCHANGED <<attached, cloud, saved, resizes, disturbed>>
      /\ \/ scale' = [scale EXCEPT ![w] = 0] /\ job' = d
         \/ CanFail /\ job' = Failed(d) /\ UNCHANGED scale
  BY DEF Unscale, At, Tried
<1>2. where \in Stage /\ todo \in SUBSET Workloads /\ job.at \in Back
  BY <1>1, ResizeKnows DEF Stage, Back
<1> HIDE DEF where, todo
<1>3. /\ d \in JobRecord /\ d.at = where /\ d.todo = todo
      /\ d.pending = job.pending /\ d.scaled = job.scaled
      /\ d.switched = job.switched /\ d.replicas = job.replicas /\ d.doc = job.doc
      /\ d.original = job.original /\ d.fault = job.fault
  BY <1>2, ResizeKnows, GoesTo
<1> HIDE DEF d
<1>4. scale' \in [Workloads -> Nat]
  BY <1>1, TypesKnown
<1>5. ASSUME ~disturbed, NEW u \in Workloads
      PROVE  WorkloadIsTrue(u, d, attached'[u], scale'[u], mounted[u], data[u], resizes, saved.claim[u])
  <2>0. scale' = [scale EXCEPT ![w] = 0]
    BY <1>1, <1>2, <1>5, NotTwice
  <2>1. WorkloadIsTrue(u, job, attached[u], scale[u], mounted[u], data[u], resizes, saved.claim[u])
    BY <1>5, ResizeKnows
  <2>2. scale'[u] = (IF u = w THEN 0 ELSE scale[u]) /\ attached' = attached
    BY <1>1, <2>0, TypesKnown
  <2>3. u = w => u \in job.scaled \/ u \notin job.scaled
    OBVIOUS
  <2> QED BY <1>1, <1>3, <2>1, <2>2 DEF WorkloadIsTrue, Forward, Back, where, todo
<1> QED BY <1>1, <1>2, <1>4, <1>5, TypesKnown, BackStep DEF d

\* Undoing attaches a workload to the claim of the original document.
LEMMA UnswitchStep ==
    ASSUME ResizeInv, MaxFailures <= 1, NEW w \in Workloads, Unswitch(w)
    PROVE  ResizeInv'
<1> DEFINE todo == job.todo \ {w}
           d == To("unswitch", todo)
<1>1. /\ job.at = "unswitch" /\ w \in job.todo /\ UNCHANGED <<scale, cloud, saved, resizes, disturbed>>
      /\ \/ attached' = [attached EXCEPT ![w] = job.original.claim[w]] /\ job' = d
         \/ CanFail /\ job' = Failed(d) /\ UNCHANGED attached
  BY DEF Unswitch, At
<1>2. "unswitch" \in Stage /\ todo \in SUBSET Workloads /\ job.at \in Back
  BY <1>1, ResizeKnows DEF Stage, Back
<1> HIDE DEF todo
<1>3. /\ d \in JobRecord /\ d.at = "unswitch" /\ d.todo = todo
      /\ d.pending = job.pending /\ d.scaled = job.scaled
      /\ d.switched = job.switched /\ d.replicas = job.replicas /\ d.doc = job.doc
      /\ d.original = job.original /\ d.fault = job.fault
  BY <1>2, ResizeKnows, GoesTo
<1> HIDE DEF d
<1>0. job.original.claim[w] \in Claims
  BY ResizeKnows DEF Document
<1>4. attached' \in [Workloads -> Claims]
  BY <1>0, <1>1, TypesKnown
<1>5. ASSUME ~disturbed, NEW u \in Workloads
      PROVE  WorkloadIsTrue(u, d, attached'[u], scale'[u], mounted[u], data[u], resizes, saved.claim[u])
  <2>0. attached' = [attached EXCEPT ![w] = job.original.claim[w]]
    BY <1>1, <1>2, <1>5, NotTwice
  <2>1. WorkloadIsTrue(u, job, attached[u], scale[u], mounted[u], data[u], resizes, saved.claim[u])
    BY <1>5, ResizeKnows
  <2>2. attached'[u] = (IF u = w THEN job.original.claim[w] ELSE attached[u]) /\ scale' = scale
    BY <1>1, <2>0, TypesKnown
  <2> QED BY <1>1, <1>3, <2>1, <2>2 DEF WorkloadIsTrue, Forward, Back, todo
<1> QED BY <1>1, <1>2, <1>4, <1>5, TypesKnown, BackStep DEF d

\* When all are back on their claims, the ones that were scaled are started.
LEMMA UnswitchedStep ==
    ASSUME ResizeInv, MaxFailures <= 1, Unswitched
    PROVE  ResizeInv'
<1> DEFINE d == To("restart", job.scaled)
<1>1. /\ job.at = "unswitch" /\ job.todo = {} /\ UNCHANGED <<attached, scale, cloud, saved, resizes, disturbed>>
      /\ job' = d
  BY DEF Unswitched, At
<1>2. "restart" \in Stage /\ job.scaled \in SUBSET Workloads /\ job.at \in Back
  BY <1>1, ResizeKnows DEF Stage, Back
<1>3. /\ d \in JobRecord /\ d.at = "restart" /\ d.todo = job.scaled
      /\ d.pending = job.pending /\ d.scaled = job.scaled
      /\ d.switched = job.switched /\ d.replicas = job.replicas /\ d.doc = job.doc
      /\ d.original = job.original /\ d.fault = job.fault
  BY <1>2, ResizeKnows, GoesTo
<1> HIDE DEF d
<1>5. ASSUME ~disturbed, NEW u \in Workloads
      PROVE  WorkloadIsTrue(u, d, attached'[u], scale'[u], mounted[u], data[u], resizes, saved.claim[u])
  <2>1. WorkloadIsTrue(u, job, attached[u], scale[u], mounted[u], data[u], resizes, saved.claim[u])
    BY <1>5, ResizeKnows
  <2> QED BY <1>1, <1>3, <2>1 DEF WorkloadIsTrue, Forward, Back
<1> QED BY <1>1, <1>2, <1>5, TypesKnown, BackStep DEF d

\* A workload is started again with as many pods as it had.
LEMMA RestartStep ==
    ASSUME ResizeInv, MaxFailures <= 1, NEW w \in Workloads, Restart(w)
    PROVE  ResizeInv'
<1> DEFINE todo == job.todo \ {w}
           d == To("restart", todo)
<1>1. /\ job.at = "restart" /\ w \in job.todo /\ UNCHANGED <<attached, cloud, saved, resizes, disturbed>>
      /\ \/ scale' = [scale EXCEPT ![w] = job.replicas[w]] /\ job' = d
         \/ CanFail /\ job' = Failed(d) /\ UNCHANGED scale
  BY DEF Restart, At
<1>2. "restart" \in Stage /\ todo \in SUBSET Workloads /\ job.at \in Back
  BY <1>1, ResizeKnows DEF Stage, Back
<1> HIDE DEF todo
<1>3. /\ d \in JobRecord /\ d.at = "restart" /\ d.todo = todo
      /\ d.pending = job.pending /\ d.scaled = job.scaled
      /\ d.switched = job.switched /\ d.replicas = job.replicas /\ d.doc = job.doc
      /\ d.original = job.original /\ d.fault = job.fault
  BY <1>2, ResizeKnows, GoesTo
<1> HIDE DEF d
<1>0. job.replicas[w] \in Nat
  BY ResizeKnows DEF JobRecord
<1>4. scale' \in [Workloads -> Nat]
  BY <1>0, <1>1, TypesKnown
<1>5. ASSUME ~disturbed, NEW u \in Workloads
      PROVE  WorkloadIsTrue(u, d, attached'[u], scale'[u], mounted[u], data[u], resizes, saved.claim[u])
  <2>0. scale' = [scale EXCEPT ![w] = job.replicas[w]]
    BY <1>1, <1>2, <1>5, NotTwice
  <2>1. WorkloadIsTrue(u, job, attached[u], scale[u], mounted[u], data[u], resizes, saved.claim[u])
    BY <1>5, ResizeKnows
  <2>2. scale'[u] = (IF u = w THEN job.replicas[w] ELSE scale[u]) /\ attached' = attached
    BY <1>1, <2>0, TypesKnown
  <2> QED BY <1>1, <1>3, <2>1, <2>2 DEF WorkloadIsTrue, Forward, Back, todo
<1> QED BY <1>1, <1>2, <1>4, <1>5, TypesKnown, BackStep DEF d

\* The original document is saved last, if the new one may have been.
LEMMA RestoreDocumentStep ==
    ASSUME ResizeInv, MaxFailures <= 1, RestoreDocument
    PROVE  ResizeInv'
<1>1. /\ job.at = "restart" /\ job.todo = {} /\ job' = Ends(Reported)
      /\ UNCHANGED <<attached, scale, cloud, resizes, disturbed>> /\ Reported \in Report
      /\ IF job.fault \in {"save", "start", "ready"}
           THEN saved' = job.original \/ (CanFail /\ UNCHANGED saved)
           ELSE UNCHANGED saved
  BY DEF RestoreDocument, At, Reported, Report
<1>2. saved' \in Document
  BY <1>1, ResizeKnows
<1>3. ASSUME ~disturbed', NEW w \in Workloads
      PROVE  saved'.claim[w] = attached[w] /\ scale[w] = 1
  <2>1. WorkloadIsTrue(w, job, attached[w], scale[w], mounted[w], data[w], resizes, saved.claim[w])
    BY <1>1, <1>3, ResizeKnows
  <2>2. ~CanFail
    BY <1>1, <1>3, NotTwice DEF Back
  <2> QED BY <1>1, <2>1, <2>2 DEF WorkloadIsTrue, Back
<1> QED BY <1>1, <1>2, <1>3, TypesKnown, EndStep

\* Nothing is claimed of a job that is cancelled.
LEMMA CancelResizeStep ==
    ASSUME ResizeInv, CancelResize
    PROVE  ResizeInv'
<1>1. /\ job' = [job EXCEPT !.cancelled = TRUE] /\ disturbed' = TRUE
      /\ UNCHANGED <<attached, scale, cloud, saved, resizes>>
  BY DEF CancelResize
<1>2. TRUE \in BOOLEAN
  BY Zenon
<1>3. job' \in JobRecord
  BY <1>1, <1>2, CancelledSet, ResizeKnows
<1> QED BY <1>1, <1>2, <1>3, ResizeKnows DEF ResizeInv, ResizeTypeOK, cloud

\* Nothing is claimed after a crash.
LEMMA CrashInResizeStep ==
    ASSUME ResizeInv, CrashInResize
    PROVE  ResizeInv'
<1>1. /\ job' = Ends("none") /\ disturbed' = TRUE
      /\ UNCHANGED <<attached, scale, cloud, saved, resizes>> /\ "none" \in Report
  BY DEF CrashInResize, Report
<1>2. TRUE \in BOOLEAN
  BY Zenon
<1> QED BY <1>1, <1>2, TypesKnown, EndStep

\* Between jobs a chart attaches the claims of the document and starts the workloads.
LEMMA ApplyChartStep ==
    ASSUME ResizeInv, ApplyChart
    PROVE  ResizeInv'
<1>1. /\ job.at = "idle" /\ job' = NoJob /\ attached' = saved.claim /\ scale' = [w \in Workloads |-> 1]
      /\ UNCHANGED <<cloud, saved, resizes, disturbed>>
  BY DEF ApplyChart, At
<1>2. attached' \in [Workloads -> Claims] /\ scale' \in [Workloads -> Nat]
  BY <1>1, TypesKnown DEF Document
<1>3. ASSUME NEW w \in Workloads
      PROVE  WorkloadIsTrue(w, job', attached'[w], scale'[w], mounted'[w], data'[w], resizes, saved'.claim[w])
  <2>1. attached'[w] = saved'.claim[w] /\ scale'[w] = 1
    BY <1>1
  <2> QED BY <1>1, <2>1, NoJobIsOne DEF WorkloadIsTrue, Forward, Back
<1> QED BY <1>1, <1>2, <1>3, NoJobIsOne, TypesKnown, JobStep DEF cloud, Back

\* Pods stop and start as the scale says, on the claims that are attached.
LEMMA PodStep ==
    ASSUME ResizeInv, NEW w \in Workloads, StopPod(w) \/ StartPod(w)
    PROVE  ResizeInv'
<1>1. /\ UNCHANGED <<attached, scale, data, accepted, size, saved, job, resizes, disturbed>>
      /\ mounted' \in [Workloads -> Claims \cup {NoPod}]
      /\ \A u \in Workloads \ {w} : mounted'[u] = mounted[u]
      /\ mounted'[w] = NoPod \/ scale[w] = 1
  BY TypesKnown DEF StopPod, StartPod
<1>2. ASSUME NEW u \in Workloads, ~disturbed
      PROVE  WorkloadIsTrue(u, job', attached'[u], scale'[u], mounted'[u], data'[u], resizes, saved'.claim[u])
  <2>1. WorkloadIsTrue(u, job, attached[u], scale[u], mounted[u], data[u], resizes, saved.claim[u])
    BY <1>2, ResizeKnows
  <2>2. UNCHANGED <<attached, scale, data, saved, job>> /\ (mounted'[u] = mounted[u] \/ mounted'[u] = NoPod \/ scale[u] = 1)
    BY <1>1
  <2> QED BY <2>1, <2>2 DEF WorkloadIsTrue
<1> QED BY <1>1, <1>2, ResizeKnows, TypesKnown, JobStep DEF ResizeIsTrue

\* A pod writes to the claim it has mounted.
LEMMA WriteStep ==
    ASSUME ResizeInv, NEW w \in Workloads, Write(w)
    PROVE  ResizeInv'
<1>1. /\ UNCHANGED <<attached, scale, mounted, size, saved, job, resizes, disturbed>>
      /\ mounted[w] # NoPod /\ mounted[w] \in Claims
      /\ accepted' = [accepted EXCEPT ![w] = @ + 1]
      /\ data' = [data EXCEPT ![w][mounted[w]] = @ + 1]
  BY TypesKnown DEF Write
<1>2. accepted' \in [Workloads -> Nat]
  BY <1>1 DEF ResizeInv, ResizeTypeOK
<1>3. data' \in [Workloads -> [Claims -> Nat]] /\ \A u \in Workloads \ {w} : data'[u] = data[u]
  <2> DEFINE x == [data[w] EXCEPT ![mounted[w]] = @ + 1]
  <2>1. x \in [Claims -> Nat] /\ data' = [data EXCEPT ![w] = x]
    BY <1>1, TypesKnown
  <2> HIDE DEF x
  <2> QED BY <2>1, TypesKnown
<1>4. ResizeTypeOK'
  BY <1>1, <1>2, <1>3, ResizeKnows DEF ResizeTypeOK
<1>5. ASSUME NEW u \in Workloads, ~disturbed
      PROVE  WorkloadIsTrue(u, job', attached'[u], scale'[u], mounted'[u], data'[u], resizes', saved'.claim[u])
  <2>1. WorkloadIsTrue(u, job, attached[u], scale[u], mounted[u], data[u], resizes, saved.claim[u])
    BY <1>5, ResizeKnows
  <2>2. UNCHANGED <<attached, scale, mounted, saved, job, resizes>> /\ (data'[u] = data[u] \/ mounted[u] # NoPod)
    BY <1>1, <1>3
  <2>3. \/ data'[u] = data[u]
        \/ mounted[u] # NoPod
    BY <2>2
  <2>4. CASE data'[u] = data[u]
    BY <2>1, <2>2, <2>4
  <2>5. CASE mounted[u] # NoPod
    BY <2>1, <2>2, <2>5 DEF WorkloadIsTrue
  <2> QED BY <2>3, <2>4, <2>5
<1> QED BY <1>1, <1>4, <1>5, ResizeKnows DEF ResizeInv, ResizeIsTrue

\* No job at the start, every workload runs on its first claim.
LEMMA ResizeInitially ==
    ASSUME ResizeInit
    PROVE  ResizeInv
<1>1. FALSE \in BOOLEAN
  BY Zenon
<1>2. saved \in Document /\ \A w \in Workloads : saved.claim[w] = 0
  BY DEF ResizeInit, FirstDocument, Document, Claims, Sizes
<1>3. ResizeTypeOK
  <2>1. [w \in Workloads |-> [c \in Claims |-> 0]] \in [Workloads -> [Claims -> Nat]]
    OBVIOUS
  <2>2. [w \in Workloads |-> [c \in Claims |-> 2]] \in [Workloads -> [Claims -> Sizes]]
    BY DEF Sizes
  <2>3. job \in JobRecord
    BY NoJobIsOne DEF ResizeInit
  <2>4. resizes \in Claims
    BY DEF ResizeInit, Claims
  <2>0. disturbed \in BOOLEAN
    <3>1. disturbed = FALSE
      BY DEF ResizeInit
    <3> QED BY <1>1, <3>1, Zenon
  <2>5. /\ attached \in [Workloads -> Claims] /\ scale \in [Workloads -> Nat]
        /\ mounted \in [Workloads -> Claims \cup {NoPod}] /\ accepted \in [Workloads -> Nat]
    BY DEF ResizeInit, Claims
  <2>6. data \in [Workloads -> [Claims -> Nat]] /\ size \in [Workloads -> [Claims -> Sizes]]
    BY <2>1, <2>2 DEF ResizeInit
  <2> QED BY <1>2, <2>0, <2>3, <2>4, <2>5, <2>6 DEF ResizeTypeOK
<1>4. ASSUME NEW w \in Workloads
      PROVE  /\ ResizeIsTrue(job)
             /\ WorkloadIsTrue(w, job, attached[w], scale[w], mounted[w], data[w], resizes, saved.claim[w])
  <2>1. job.at = "idle" /\ ~job.cancelled /\ scale[w] = 1 /\ saved.claim[w] = attached[w]
    BY <1>2, NoJobIsOne DEF ResizeInit
  <2> QED BY <2>1, IdleIsTrue
<1>5. ResizeIsTrue(job)
  BY NoJobIsOne DEF ResizeInit, ResizeIsTrue, Back
<1> QED BY <1>3, <1>4, <1>5 DEF ResizeInv

\* Every step keeps ResizeInv when at most one stage of a job fails.
LEMMA ResizeStep ==
    ASSUME ResizeInv, MaxFailures <= 1, [ResizeNext]_resizeVars
    PROVE  ResizeInv'
<1>1. CASE UNCHANGED resizeVars
  BY <1>1, ResizeKnows DEF resizeVars, cloud, ResizeInv, ResizeTypeOK
<1>2. CASE Resize
  BY <1>2, SubmitResizeStep, InspectStorageStep, InspectFailsStep, SaveExpansionStep, DrainStep, SaveSwitchStep,
     AwaitReadyStep, UnswitchedStep, RestoreDocumentStep, ExpandClaimStep, StopWorkloadStep, CopyVolumeStep,
     SwitchClaimStep, StartWorkloadStep, UnscaleStep, UnswitchStep, RestartStep DEF Resize
<1>3. CASE Pods
  BY <1>3, PodStep, WriteStep DEF Pods
<1> QED BY <1>1, <1>2, <1>3, CancelResizeStep, CrashInResizeStep, ApplyChartStep DEF ResizeNext

\* ResizeInv holds of every behaviour in which at most one command of a job fails, for any
\* number of workloads, sizes, resizes and writes.
THEOREM ResizeInvariant ==
    ASSUME MaxFailures <= 1
    PROVE  ResizeSpec => []ResizeInv
<1>1. ResizeInit => ResizeInv
  BY ResizeInitially
<1>2. ResizeInv /\ [ResizeNext]_resizeVars => ResizeInv'
  BY ResizeStep
<1> QED BY <1>1, <1>2, PTL DEF ResizeSpec

\* ResizeInv implies the property.
LEMMA FollowsCluster ==
    ASSUME ResizeInv
    PROVE  DocumentFollowsCluster
<1>1. ASSUME job.at = "idle", ~disturbed
      PROVE  saved.claim = attached /\ \A w \in Workloads : scale[w] = 1
  <2>1. \A w \in Workloads : saved.claim[w] = attached[w] /\ scale[w] = 1
    BY <1>1, BeforeStop
  <2>2. saved.claim \in [Workloads -> Claims] /\ attached \in [Workloads -> Claims]
    BY TypesKnown DEF Document
  <2> QED BY <2>1, <2>2
<1> QED BY <1>1 DEF DocumentFollowsCluster, At

\* However a job ended by itself, with one failure at any step, the document names the claims the
\* workloads are on, and they are started (internal/runner/storage.go).
THEOREM DocumentFollowsClusterHolds ==
    ASSUME MaxFailures <= 1
    PROVE  ResizeSpec => []DocumentFollowsCluster
BY ResizeInvariant, FollowsCluster, PTL

\* Every step of ResizeInv attaches a claim that has what the old one had.
LEMMA KeepsWrites ==
    ASSUME ResizeInv, [ResizeNext]_resizeVars
    PROVE  [\A w \in Workloads : (attached'[w] # attached[w] /\ ~disturbed)
              => (data'[w][attached'[w]] = data'[w][attached[w]] \/ BackAfterStart)]_resizeVars
<1> SUFFICES ASSUME NEW w \in Workloads, attached'[w] # attached[w], ~disturbed
             PROVE  data'[w][attached'[w]] = data'[w][attached[w]] \/ BackAfterStart
  OBVIOUS
<1>0. WorkloadIsTrue(w, job, attached[w], scale[w], mounted[w], data[w], resizes, saved.claim[w])
  BY ResizeKnows
<1>1. ASSUME NEW u \in Workloads, SwitchClaim(u)
      PROVE  data'[w][attached'[w]] = data'[w][attached[w]]
  <2>1. /\ job.at = "switch" /\ u \in job.todo /\ u = w /\ attached'[w] = resizes /\ data' = data
    BY <1>1, TypesKnown DEF SwitchClaim, At, cloud
  <2> QED BY <1>0, <2>1 DEF WorkloadIsTrue, Forward
<1>2. ASSUME NEW u \in Workloads, Unswitch(u)
      PROVE  data'[w][attached'[w]] = data'[w][attached[w]] \/ BackAfterStart
  <2>1. /\ job.at = "unswitch" /\ u \in job.todo /\ u = w /\ attached'[w] = job.original.claim[w] /\ data' = data
    BY <1>2, TypesKnown DEF Unswitch, At, cloud
  <2> QED BY <1>0, <2>1 DEF WorkloadIsTrue, Back, BackAfterStart, At
<1>3. ~ApplyChart
  BY <1>0 DEF ApplyChart, At, WorkloadIsTrue
<1>4. ASSUME NEW u \in Workloads
      PROVE  /\ ~ExpandClaim(u) /\ ~StopWorkload(u) /\ ~CopyVolume(u) /\ ~StartWorkload(u) /\ ~Unscale(u)
             /\ ~Restart(u) /\ ~StopPod(u) /\ ~StartPod(u) /\ ~Write(u)
  BY DEF ExpandClaim, StopWorkload, CopyVolume, StartWorkload, Unscale, Restart, StopPod, StartPod, Write
<1>5. /\ ~SubmitResize /\ ~InspectStorage /\ ~InspectFails /\ ~SaveExpansion /\ ~Drain /\ ~SaveSwitch
      /\ ~AwaitReady /\ ~Unswitched /\ ~RestoreDocument /\ ~CancelResize /\ ~CrashInResize
      /\ ~UNCHANGED resizeVars
  BY DEF SubmitResize, InspectStorage, InspectFails, SaveExpansion, Drain, SaveSwitch, AwaitReady, Unswitched,
         RestoreDocument, CancelResize, CrashInResize, resizeVars
<1> QED BY <1>1, <1>2, <1>3, <1>4, <1>5 DEF ResizeNext, Resize, Pods

\* A workload is moved only to a volume that holds every write of the one it leaves, save on the way
\* back from a failed start (internal/runner/storage.go).
THEOREM SwitchKeepsWritesHolds ==
    ASSUME MaxFailures <= 1
    PROVE  ResizeSpec => SwitchKeepsWrites
<1>1. ResizeInv /\ [ResizeNext]_resizeVars
      => [\A w \in Workloads : (attached'[w] # attached[w] /\ ~disturbed)
            => (data'[w][attached'[w]] = data'[w][attached[w]] \/ BackAfterStart)]_resizeVars
  BY KeepsWrites
<1> QED BY <1>1, ResizeInvariant, PTL DEF ResizeSpec, SwitchKeepsWrites

-------------------------------------------------------------------------------
(* Namespaces.  What a job has put into the state of its environment, or is *)
(* about to, is named by the stored document and labelled with the         *)
(* environment.                                                            *)

HIDE ReleaseRecoveryAssumption
HIDE StateMigrationAssumption
HIDE StorageResizeAssumption
USE PlanAssumption

TaskKind == {"deploy", "platform", "destroy"}
TaskRecord ==
    [step : {"idle", "detach", "cluster"}]
    \cup [step : {"load", "remove"}, kind : TaskKind]
    \cup [step : {"save"}, kind : TaskKind, copy : Documents]
    \cup [step : {"adopt"}, kind : TaskKind, todo : SUBSET Namespace]
    \cup [step : {"import"}, kind : TaskKind, todo : SUBSET Namespace, name : Namespace]
    \cup [step : {"apply"}, wanted : SUBSET Namespace, installed : SUBSET (Component \X Namespace)]
    \cup [step : {"platform"}, swept : BOOLEAN]
FormRecord ==
    [step : {"open"}, env : Env, next : Documents]
    \cup [step : {"store"}, env : Env, next : Documents, base : Documents]

PlanTypeOK ==
    /\ config \in [Env -> Documents \cup {NoDoc}]
    /\ owner \in [DOMAIN owner -> Env \cup {"nobody"}]
    /\ DOMAIN owner \subseteq (Env \cup {"shared"}) \X Namespace
    /\ inState \in [Env -> SUBSET Namespace]
    /\ releases \in [Env -> SUBSET (Component \X Namespace)]
    /\ task \in [Env -> TaskRecord] /\ form \subseteq FormRecord
    /\ forms \in Nat /\ plans \in Nat /\ overlapped \subseteq Env

\* An environment that does not exist has nothing.
NothingIsFirst == \A e \in Env : config[e] = NoDoc => inState[e] = {} /\ task[e] = NoTask

\* A form keeps the target of its environment; one that is about to be stored names what
\* the document named when it was checked.
FormsFit ==
    \A f \in form :
        /\ config[f.env] # NoDoc /\ f.next.target = config[f.env].target
        /\ f.step = "store" => /\ f.base.namespaces \subseteq f.next.namespaces
                               /\ Homes(f.next) \subseteq f.next.namespaces

\* What each step of a job is about to put into the state is named by the document.
JobsFit ==
    \A e \in Env :
        /\ task[e].step = "save" =>
              /\ task[e].copy.target = config[e].target
              /\ Homes(task[e].copy) \subseteq task[e].copy.namespaces
              /\ e \notin overlapped => inState[e] \subseteq task[e].copy.namespaces
        /\ task[e].step \in {"adopt", "import"} =>
              /\ Homes(config[e]) \subseteq config[e].namespaces
              /\ e \notin overlapped => task[e].todo \subseteq config[e].namespaces
        /\ task[e].step = "import" /\ e \notin overlapped => task[e].name \in config[e].namespaces
        /\ task[e].step = "apply" /\ e \notin overlapped => task[e].wanted \subseteq config[e].namespaces

\* A label names an environment of the cluster; only what somebody else created has none.
LabelsAreTrue ==
    \A x \in DOMAIN owner :
        /\ owner[x] = "nobody" => x[2] = Shop
        /\ owner[x] # "nobody" => config[owner[x]] # NoDoc /\ x[1] = Cluster(owner[x])

\* What a state has, or is about to import, is labelled with its environment, if it
\* exists, and on a shared cluster it does.
StatesAreLabelled ==
    \A e \in Env :
        /\ \A n \in inState[e] : n # Shop /\ Exists(e, n) => owner[<<Cluster(e), n>>] = e
        /\ config[e].target = "existing_eks" => \A n \in inState[e] : Exists(e, n)
        /\ task[e].step = "import" =>
              /\ Exists(e, task[e].name)
              /\ task[e].name # Shop => owner[<<Cluster(e), task[e].name>>] = e

\* Only a managed cluster is taken down.
DestroysAreManaged ==
    \A e \in Env : task[e].step \in {"platform", "cluster"} => config[e].target = "managed"

PlanInv ==
    /\ PlanTypeOK /\ NothingIsFirst /\ FormsFit /\ JobsFit /\ LabelsAreTrue /\ StatesAreLabelled
    /\ DestroysAreManaged /\ TrackedNamespacesAreNamed /\ DestroyIsNotRefused

\* Giving a namespace the scope of an environment makes another namespace.
LEMMA ScopedIsNamespace ==
  ASSUME NEW e \in Env, NEW n \in Namespace PROVE Scoped(e, n) \in Namespace
BY DEF Scoped, Namespace

USE DEF Word

\* The defaults of a new environment are a document.
LEMMA DefaultIsDocument ==
    ASSUME NEW e \in Env
    PROVE  DefaultDocument(e) \in Documents
<1>a. <<"logs">> \in Namespace
  BY DEF Namespace
<1>1. Scoped(e, <<"logs">>) \in Namespace
  BY <1>a, ScopedIsNamespace
<1>2. <<"monitoring">> \in Namespace
  BY DEF Namespace
<1>3. [c \in Component |-> IF c = "stack" THEN Scoped(e, <<"logs">>) ELSE <<"monitoring">>]
         \in [Component -> Namespace]
  BY <1>1, <1>2
<1> QED BY <1>1, <1>3 DEF DefaultDocument, Documents

\* Choosing the target makes a document of that target.
LEMMA ConfigureIsDocument ==
  ASSUME NEW d \in Documents, NEW e \in Env, NEW target \in {"managed", "existing_eks"}
  PROVE  ConfigureTarget(d, e, target) \in Documents /\ ConfigureTarget(d, e, target).target = target
<1>1. CASE target = "managed"
  BY <1>1 DEF ConfigureTarget, Documents
<1>2. CASE target = "existing_eks"
  <2> DEFINE home == [c \in Component |-> Scoped(e, d.home[c])]
             names == {Scoped(e, n) : n \in d.namespaces} \cup Range(home)
  <2>1. home \in [Component -> Namespace]
    BY ScopedIsNamespace DEF Documents
  <2>2. names \in SUBSET Namespace
    BY <2>1, ScopedIsNamespace DEF Documents, Range
  <2>3. ConfigureTarget(d, e, target) = [d EXCEPT !.target = target, !.home = home, !.namespaces = names]
    BY <1>2 DEF ConfigureTarget
  <2> HIDE DEF home, names
  <2> QED BY <2>1, <2>2, <2>3 DEF Documents
<1> QED BY <1>1, <1>2

\* Completing a document keeps its target and its namespaces, and then names the
\* namespace of every component that is on.
LEMMA CompleteIsDocument ==
  ASSUME NEW d \in Documents
  PROVE  /\ Complete(d) \in Documents /\ Complete(d).target = d.target
         /\ d.namespaces \subseteq Complete(d).namespaces
         /\ Homes(Complete(d)) \subseteq Complete(d).namespaces
<1> DEFINE on == Switched(d.on)
           home == IF "stack" \in on THEN [d.home EXCEPT !["stack"] = d.inner] ELSE d.home
           logs == IF "loki" \in on THEN {home[c] : c \in Component \ {"stack"}} ELSE {}
           names == d.namespaces \cup logs \cup {home[c] : c \in on}
<1>1. on \in SUBSET Component
  BY DEF Switched, Documents, Component
<1>2. home \in [Component -> Namespace]
  BY DEF Documents, Component
<1>3. names \in SUBSET Namespace
  BY <1>1, <1>2 DEF Documents, Component
<1>4. Complete(d) = [d EXCEPT !.on = on, !.home = home, !.namespaces = names]
  BY DEF Complete, Documents
<1>5. {home[c] : c \in on} \subseteq names /\ d.namespaces \subseteq names
  OBVIOUS
<1> HIDE DEF on, home, names
<1>6. /\ Complete(d).on = on /\ Complete(d).home = home /\ Complete(d).namespaces = names
      /\ Complete(d).target = d.target
  BY <1>4 DEF Documents
<1>7. Complete(d) \in Documents
  BY <1>1, <1>2, <1>3, <1>4 DEF Documents
<1> QED BY <1>5, <1>6, <1>7 DEF Homes

\* The namespace that somebody else created is a namespace.
LEMMA ShopIsNamespace ==
    Shop \in Namespace
BY DEF Shop, Namespace

\* What the form changes of a document is a document of the same target.
LEMMA ChangedIsDocument ==
  ASSUME PlanTypeOK, NEW d \in Documents, NEW next \in Changed(d)
  PROVE  next \in Documents /\ next.target = d.target
<1>1. CASE \E c \in Component : next = [d EXCEPT !.on = IF c \in @ THEN @ \ {c} ELSE @ \cup {c}]
  BY <1>1 DEF Documents
<1>2. CASE \E n \in d.namespaces : next = [d EXCEPT !.namespaces = @ \ {n}]
  BY <1>2 DEF Documents
<1>3. CASE \E n \in {Shop} \cup UNION {config[x].namespaces : x \in Stored} :
              next = [d EXCEPT !.home["prometheus"] = n]
  <2>1. \A x \in Stored : config[x].namespaces \subseteq Namespace
    BY DEF PlanTypeOK, Stored, Documents, NoDoc
  <2>2. PICK n \in Namespace : next = [d EXCEPT !.home["prometheus"] = n]
    BY <1>3, <2>1, ShopIsNamespace
  <2> QED BY <2>2 DEF Documents, Component
<1> QED BY <1>1, <1>2, <1>3 DEF Changed

\* The parts of a document have their types.
LEMMA DocumentFields ==
  ASSUME NEW d \in Documents
  PROVE  /\ d # NoDoc /\ d.target \in {"managed", "existing_eks"}
         /\ d.namespaces \subseteq Namespace /\ Homes(d) \subseteq Namespace
         /\ {<<c, d.home[c]>> : c \in d.on} \subseteq Component \X Namespace
BY DEF Documents, NoDoc, Homes

\* Two environments have one cluster only when both are on the shared one.
LEMMA ClusterFacts ==
  ASSUME NEW e \in Env, NEW f \in Env, e # f
  PROVE  /\ Cluster(e) = Cluster(f) => config[e].target = "existing_eks" /\ config[f].target = "existing_eks"
         /\ Cluster(e) \in Env \cup {"shared"}
         /\ config[e].target # "existing_eks" => Cluster(e) = e /\ Cluster(f) # e
BY DEF Cluster

\* Labelling names that nobody else has keeps every other label and all that follows from it.
LEMMA LabelsStep ==
  ASSUME PlanInv, NEW e \in Env, config[e] # NoDoc, NEW names \in SUBSET Namespace,
         \A n \in names : ~Taken(e, n), owner' = Labels(e, names), UNCHANGED config
  PROVE  /\ owner' \in [DOMAIN owner' -> Env \cup {"nobody"}]
         /\ DOMAIN owner' \subseteq (Env \cup {"shared"}) \X Namespace
         /\ LabelsAreTrue'
         /\ \A f \in Env, n \in Namespace : Exists(f, n) => <<Cluster(f), n>> \in DOMAIN owner'
         /\ \A f \in Env, n \in Namespace :
               Cluster(f) # Cluster(e) /\ <<Cluster(f), n>> \in DOMAIN owner'
               => Exists(f, n) /\ owner'[<<Cluster(f), n>>] = owner[<<Cluster(f), n>>]
         /\ \A f \in Env, n \in Namespace :
               n # Shop /\ Exists(f, n) /\ owner[<<Cluster(f), n>>] = f => owner'[<<Cluster(f), n>>] = f
         /\ \A n \in names : <<Cluster(e), n>> \in DOMAIN owner' /\ owner'[<<Cluster(e), n>>] = e
         /\ \A n \in Namespace \ names :
               <<Cluster(e), n>> \in DOMAIN owner' => Exists(e, n) /\ owner'[<<Cluster(e), n>>] = owner[<<Cluster(e), n>>]
<1> DEFINE here == {Cluster(e)} \X names
<1>1. DOMAIN owner' = DOMAIN owner \cup here
  BY DEF Labels
<1>2. \A x \in DOMAIN owner' : x \in here => owner'[x] = e
  BY <1>1 DEF Labels
<1>3. \A x \in DOMAIN owner' : x \notin here => x \in DOMAIN owner /\ owner'[x] = owner[x]
  <2> SUFFICES ASSUME NEW x \in DOMAIN owner', x \notin here
               PROVE  x \in DOMAIN owner /\ owner'[x] = owner[x]
    OBVIOUS
  <2>1. x \in (Env \cup {"shared"}) \X Namespace
    BY <1>1 DEF PlanInv, PlanTypeOK
  <2>2. ~(x[1] = Cluster(e) /\ x[2] \in names)
    BY <2>1
  <2> QED BY <1>1, <2>2 DEF Labels
<1>4. Cluster(e) \in Env \cup {"shared"}
  BY DEF Cluster
<1>5. \A f \in Env, n \in Namespace : <<Cluster(f), n>> \in here <=> Cluster(f) = Cluster(e) /\ n \in names
  OBVIOUS
<1>7. owner' \in [DOMAIN owner' -> Env \cup {"nobody"}]
  <2>1. \A x \in DOMAIN owner' : owner'[x] \in Env \cup {"nobody"}
    BY <1>2, <1>3 DEF PlanInv, PlanTypeOK
  <2>2. owner' = [x \in DOMAIN owner' |-> owner'[x]]
    BY DEF Labels
  <2> QED BY <2>1, <2>2
<1>8. DOMAIN owner' \subseteq (Env \cup {"shared"}) \X Namespace
  BY <1>1, <1>4 DEF PlanInv, PlanTypeOK
<1>9. LabelsAreTrue'
  <2> SUFFICES ASSUME NEW x \in DOMAIN owner'
               PROVE  /\ owner'[x] = "nobody" => x[2] = Shop
                      /\ owner'[x] # "nobody" => config[owner'[x]] # NoDoc /\ x[1] = Cluster(owner'[x])
    BY DEF LabelsAreTrue, Cluster
  <2>1. CASE x \in here
    BY <2>1, <1>2
  <2>2. CASE x \notin here
    BY <2>2, <1>3 DEF PlanInv, LabelsAreTrue
  <2> QED BY <2>1, <2>2
<1>10. \A f \in Env, n \in Namespace :
          n # Shop /\ Exists(f, n) /\ owner[<<Cluster(f), n>>] = f => owner'[<<Cluster(f), n>>] = f
  <2> SUFFICES ASSUME NEW f \in Env, NEW n \in Namespace, n # Shop, Exists(f, n),
                      owner[<<Cluster(f), n>>] = f
               PROVE  owner'[<<Cluster(f), n>>] = f
    OBVIOUS
  <2>1. <<Cluster(f), n>> \in DOMAIN owner'
    BY <1>1 DEF Exists
  <2>2. CASE <<Cluster(f), n>> \in here
    <3>1. Cluster(f) = Cluster(e) /\ n \in names
      BY <2>2
    <3>2. n \in inState[e]
      BY <3>1 DEF Taken, Exists
    <3>3. owner[<<Cluster(e), n>>] = e
      BY <3>1, <3>2 DEF PlanInv, StatesAreLabelled, Exists
    <3> QED BY <3>1, <3>3, <1>2, <2>1, <2>2
  <2>3. CASE <<Cluster(f), n>> \notin here
    BY <2>1, <2>3, <1>3
  <2> QED BY <2>2, <2>3
<1>11. \A n \in names : <<Cluster(e), n>> \in DOMAIN owner' /\ owner'[<<Cluster(e), n>>] = e
  BY <1>1, <1>2
<1> HIDE DEF here
<1>12. /\ \A f \in Env, n \in Namespace : Exists(f, n) => <<Cluster(f), n>> \in DOMAIN owner'
       /\ \A f \in Env, n \in Namespace :
             Cluster(f) # Cluster(e) /\ <<Cluster(f), n>> \in DOMAIN owner'
             => Exists(f, n) /\ owner'[<<Cluster(f), n>>] = owner[<<Cluster(f), n>>]
       /\ \A n \in Namespace \ names :
             <<Cluster(e), n>> \in DOMAIN owner' => Exists(e, n) /\ owner'[<<Cluster(e), n>>] = owner[<<Cluster(e), n>>]
  BY <1>1, <1>3, <1>5 DEF Exists
<1> QED BY <1>7, <1>8, <1>9, <1>10, <1>11, <1>12

USE DEF NoTask, NoDoc, TaskRecord, FormRecord, TaskKind, TaskGoes, TaskEnds

\* A new environment has nothing in its state, whatever it was copied from.
LEMMA CreateEnvironmentPlan ==
    ASSUME PlanInv, NEW e \in Env, CreateEnvironment(e)
    PROVE  PlanInv'
<1>a. PICK d \in Documents : config' = [config EXCEPT ![e] = d]
  <2>1. PICK target \in {"managed", "existing_eks"},
             source \in {DefaultDocument(e)} \cup {Complete(config[x]) : x \in Stored} :
             config' = [config EXCEPT ![e] = ConfigureTarget(source, e, target)]
    BY DEF CreateEnvironment
  <2>2. \A x \in Stored : config[x] \in Documents
    BY DEF PlanInv, PlanTypeOK, Stored
  <2>3. source \in Documents
    BY <2>1, <2>2, DefaultIsDocument, CompleteIsDocument
  <2> QED BY <2>1, <2>3, ConfigureIsDocument
<1>b. config[e] = NoDoc /\ inState[e] = {} /\ task[e] = NoTask
  BY DEF CreateEnvironment, PlanInv, NothingIsFirst
<1>c. UNCHANGED <<owner, inState, releases, task, form, forms, plans, overlapped>>
  BY DEF CreateEnvironment
<1>d. \A f \in Env \ {e} : config'[f] = config[f] /\ Cluster(f)' = Cluster(f)
  BY <1>a DEF PlanInv, PlanTypeOK, Cluster
<1>e. \A f \in Env \ {e} : \A n : Exists(f, n)' <=> Exists(f, n)
  BY <1>c, <1>d DEF Exists
<1>f. config'[e] = d /\ d # NoDoc
  BY <1>a, DocumentFields DEF PlanInv, PlanTypeOK
<1>1. PlanTypeOK'
  BY <1>a, <1>b, <1>c, <1>d, <1>f DEF PlanInv, PlanTypeOK
<1>2. NothingIsFirst'
  BY <1>a, <1>b, <1>c, <1>d, <1>f DEF PlanInv, PlanTypeOK, NothingIsFirst
<1>3. FormsFit'
  BY <1>a, <1>b, <1>c, <1>d, <1>f DEF PlanInv, PlanTypeOK, FormsFit
<1>4. JobsFit'
  BY <1>a, <1>b, <1>c, <1>d, <1>f DEF PlanInv, PlanTypeOK, JobsFit
<1>5. LabelsAreTrue'
  BY <1>a, <1>b, <1>c, <1>d, <1>f DEF PlanInv, PlanTypeOK, LabelsAreTrue, Cluster
<1>6. StatesAreLabelled'
  BY <1>b, <1>c, <1>d, <1>e DEF PlanInv, StatesAreLabelled
<1>7. DestroysAreManaged'
  BY <1>a, <1>b, <1>c, <1>d, <1>f DEF PlanInv, PlanTypeOK, DestroysAreManaged
<1>8. TrackedNamespacesAreNamed'
  BY <1>a, <1>b, <1>c, <1>d, <1>f DEF PlanInv, PlanTypeOK, TrackedNamespacesAreNamed, Stored
<1>9. DestroyIsNotRefused'
  BY <1>b, <1>c, <1>e DEF PlanInv, DestroyIsNotRefused
<1> QED BY <1>1, <1>2, <1>3, <1>4, <1>5, <1>6, <1>7, <1>8, <1>9 DEF PlanInv

\* A form starts from the completed document.
LEMMA OpenFormPlan ==
    ASSUME PlanInv, NEW e \in Env, OpenForm(e)
    PROVE  PlanInv'
<1>a. PICK next \in Changed(Complete(config[e])) :
          form' = form \cup {[step |-> "open", env |-> e, next |-> next]}
  BY DEF OpenForm
<1>b. config[e] # NoDoc /\ config[e] \in Documents
  BY DEF OpenForm, Stored, PlanInv, PlanTypeOK
<1>c. next \in Documents /\ next.target = config[e].target
  BY <1>a, <1>b, CompleteIsDocument, ChangedIsDocument DEF PlanInv
<1>d. [step |-> "open", env |-> e, next |-> next] \in FormRecord
  BY <1>c
<1>1. PlanTypeOK'
  BY <1>a, <1>d DEF OpenForm, PlanInv, PlanTypeOK
<1>2. NothingIsFirst'
  BY <1>a, <1>b, <1>c, <1>d, DocumentFields DEF OpenForm, Stored, PlanInv, PlanTypeOK, NothingIsFirst
<1>3. FormsFit'
  BY <1>a, <1>b, <1>c DEF OpenForm, PlanInv, FormsFit
<1>4. JobsFit'
  BY <1>a, <1>b, <1>c, <1>d, DocumentFields DEF OpenForm, Stored, PlanInv, PlanTypeOK, JobsFit, TrackedNamespacesAreNamed, NothingIsFirst
<1>5. LabelsAreTrue'
  BY <1>a, <1>b, <1>c, <1>d, DocumentFields DEF OpenForm, Stored, PlanInv, PlanTypeOK, LabelsAreTrue, Exists, Cluster
<1>6. StatesAreLabelled'
  BY <1>a, <1>b, <1>c, <1>d, DocumentFields DEF OpenForm, Stored, PlanInv, PlanTypeOK, StatesAreLabelled, Exists, Cluster, LabelsAreTrue
<1>7. DestroysAreManaged'
  BY <1>a, <1>b, <1>c, <1>d, DocumentFields DEF OpenForm, Stored, PlanInv, PlanTypeOK, DestroysAreManaged
<1>8. TrackedNamespacesAreNamed'
  BY <1>a, <1>b, <1>c, <1>d, DocumentFields DEF OpenForm, Stored, PlanInv, PlanTypeOK, TrackedNamespacesAreNamed, JobsFit
<1>9. DestroyIsNotRefused'
  BY <1>a, <1>b, <1>c, <1>d, DocumentFields DEF OpenForm, Stored, PlanInv, PlanTypeOK, DestroyIsNotRefused, Exists, Cluster, StatesAreLabelled, LabelsAreTrue, DestroysAreManaged, NothingIsFirst
<1> QED BY <1>1, <1>2, <1>3, <1>4, <1>5, <1>6, <1>7, <1>8, <1>9 DEF PlanInv

\* A job starts without a copy.
LEMMA StartTaskPlan ==
    ASSUME PlanInv, NEW e \in Env, StartTask(e)
    PROVE  PlanInv'
<1>1. PlanTypeOK'
  BY DocumentFields DEF StartTask, Stored, PlanInv, PlanTypeOK
<1>2. NothingIsFirst'
  BY DocumentFields DEF StartTask, Stored, PlanInv, PlanTypeOK, NothingIsFirst
<1>3. FormsFit'
  BY DocumentFields DEF StartTask, Stored, PlanInv, PlanTypeOK, FormsFit
<1>4. JobsFit'
  BY DocumentFields DEF StartTask, Stored, PlanInv, PlanTypeOK, JobsFit, TrackedNamespacesAreNamed, NothingIsFirst
<1>5. LabelsAreTrue'
  BY DocumentFields DEF StartTask, Stored, PlanInv, PlanTypeOK, LabelsAreTrue, Exists, Cluster
<1>6. StatesAreLabelled'
  BY DocumentFields DEF StartTask, Stored, PlanInv, PlanTypeOK, StatesAreLabelled, Exists, Cluster, LabelsAreTrue
<1>7. DestroysAreManaged'
  BY DocumentFields DEF StartTask, Stored, PlanInv, PlanTypeOK, DestroysAreManaged
<1>8. TrackedNamespacesAreNamed'
  BY DocumentFields DEF StartTask, Stored, PlanInv, PlanTypeOK, TrackedNamespacesAreNamed, JobsFit
<1>9. DestroyIsNotRefused'
  BY DocumentFields DEF StartTask, Stored, PlanInv, PlanTypeOK, DestroyIsNotRefused, Exists, Cluster, StatesAreLabelled, LabelsAreTrue, DestroysAreManaged, NothingIsFirst
<1> QED BY <1>1, <1>2, <1>3, <1>4, <1>5, <1>6, <1>7, <1>8, <1>9 DEF PlanInv

\* A job completes the document it loads.
LEMMA LoadTaskPlan ==
    ASSUME PlanInv, NEW e \in Env, LoadTask(e)
    PROVE  PlanInv'
<1>a. config[e] # NoDoc /\ config[e] \in Documents
  BY DEF LoadTask, PlanInv, PlanTypeOK, NothingIsFirst
<1>b. task[e].kind \in TaskKind
  BY DEF LoadTask, PlanInv, PlanTypeOK
<1>c. task' = [task EXCEPT ![e] = [step |-> "save", kind |-> task[e].kind, copy |-> Complete(config[e])]]
  BY DEF LoadTask
<1>d. [step |-> "save", kind |-> task[e].kind, copy |-> Complete(config[e])] \in TaskRecord
  BY <1>a, <1>b, CompleteIsDocument
<1>1. PlanTypeOK'
  BY <1>c, <1>d DEF LoadTask, PlanInv, PlanTypeOK
<1>2. NothingIsFirst'
  BY <1>a, <1>b, <1>c, <1>d, DocumentFields DEF LoadTask, Stored, PlanInv, PlanTypeOK, NothingIsFirst
<1>3. FormsFit'
  BY <1>a, <1>b, <1>c, <1>d, DocumentFields DEF LoadTask, Stored, PlanInv, PlanTypeOK, FormsFit
<1>4. JobsFit'
  BY <1>a, <1>c, CompleteIsDocument
     DEF LoadTask, PlanInv, PlanTypeOK, JobsFit, TrackedNamespacesAreNamed, Stored
<1>5. LabelsAreTrue'
  BY <1>a, <1>b, <1>c, <1>d, DocumentFields DEF LoadTask, Stored, PlanInv, PlanTypeOK, LabelsAreTrue, Exists, Cluster
<1>6. StatesAreLabelled'
  BY <1>a, <1>b, <1>c, <1>d, DocumentFields DEF LoadTask, Stored, PlanInv, PlanTypeOK, StatesAreLabelled, Exists, Cluster, LabelsAreTrue
<1>7. DestroysAreManaged'
  BY <1>a, <1>b, <1>c, <1>d, DocumentFields DEF LoadTask, Stored, PlanInv, PlanTypeOK, DestroysAreManaged
<1>8. TrackedNamespacesAreNamed'
  BY <1>a, <1>b, <1>c, <1>d, DocumentFields DEF LoadTask, Stored, PlanInv, PlanTypeOK, TrackedNamespacesAreNamed, JobsFit
<1>9. DestroyIsNotRefused'
  BY <1>a, <1>b, <1>c, <1>d, DocumentFields DEF LoadTask, Stored, PlanInv, PlanTypeOK, DestroyIsNotRefused, Exists, Cluster, StatesAreLabelled, LabelsAreTrue, DestroysAreManaged, NothingIsFirst
<1> QED BY <1>1, <1>2, <1>3, <1>4, <1>5, <1>6, <1>7, <1>8, <1>9 DEF PlanInv

\* A job stores its copy, and overlaps with a save that was stored since it loaded.
LEMMA SaveTaskPlan ==
    ASSUME PlanInv, NEW e \in Env, SaveTask(e)
    PROVE  PlanInv'
<1>a. /\ task[e].copy \in Documents /\ task[e].copy.target = config[e].target
      /\ config' = [config EXCEPT ![e] = task[e].copy] /\ config[e] # NoDoc
  BY DEF SaveTask, PlanInv, PlanTypeOK, JobsFit, NothingIsFirst
<1>b. \A f \in Env : config'[f].target = config[f].target /\ (config'[f] = NoDoc <=> config[f] = NoDoc)
  BY <1>a, DocumentFields DEF PlanInv, PlanTypeOK
<1>c. \A f \in Env : Cluster(f)' = Cluster(f)
  BY <1>b DEF Cluster
<1>d. UNCHANGED <<owner, inState, releases, form, forms, plans, overlapped>>
  BY DEF SaveTask
<1>e. \A f \in Env : \A n : Exists(f, n)' <=> Exists(f, n)
  BY <1>c, <1>d DEF Exists
<1>f. task'[e].step \in {"adopt", "remove"} /\ \A f \in Env \ {e} : task'[f] = task[f]
  BY DEF SaveTask, PlanInv, PlanTypeOK
<1>1. PlanTypeOK'
  BY <1>a, <1>b, <1>c, <1>d, <1>e, <1>f, DocumentFields DEF SaveTask, Wanted, PlanInv, PlanTypeOK
<1>2. NothingIsFirst'
  BY <1>a, <1>b, <1>c, <1>d, <1>e, <1>f, DocumentFields DEF SaveTask, Wanted, PlanInv, PlanTypeOK, NothingIsFirst
<1>3. FormsFit'
  <2>1. \A f \in form : f.env \in Env
    BY DEF PlanInv, PlanTypeOK
  <2> QED BY <1>b, <1>d, <2>1 DEF PlanInv, FormsFit
<1>4. JobsFit'
  BY <1>a, <1>b, <1>c, <1>d, <1>e, <1>f, DocumentFields DEF SaveTask, Wanted, PlanInv, PlanTypeOK, JobsFit, TrackedNamespacesAreNamed, NothingIsFirst, Stored
<1>5. LabelsAreTrue'
  <2>1. \A x \in DOMAIN owner : owner[x] # "nobody" => owner[x] \in Env
    BY DEF PlanInv, PlanTypeOK
  <2> QED BY <1>b, <1>c, <1>d, <2>1 DEF PlanInv, LabelsAreTrue
<1>6. StatesAreLabelled'
  BY <1>b, <1>c, <1>d, <1>e, <1>f, ZenonT(60) DEF PlanInv, StatesAreLabelled
<1>7. DestroysAreManaged'
  BY <1>a, <1>b, <1>c, <1>d, <1>e, <1>f, DocumentFields DEF SaveTask, Wanted, PlanInv, PlanTypeOK, DestroysAreManaged
<1>8. TrackedNamespacesAreNamed'
  BY <1>a, <1>b, <1>c, <1>d, <1>e, <1>f, DocumentFields DEF SaveTask, Wanted, PlanInv, PlanTypeOK, TrackedNamespacesAreNamed, JobsFit, Stored
<1>9. DestroyIsNotRefused'
  BY <1>d, <1>e, <1>f DEF PlanInv, DestroyIsNotRefused
<1> QED BY <1>1, <1>2, <1>3, <1>4, <1>5, <1>6, <1>7, <1>8, <1>9 DEF PlanInv

\* A wanted namespace is imported when it is labelled with the environment, or with nothing.
LEMMA LookUpPlan ==
    ASSUME PlanInv, NEW e \in Env, LookUp(e)
    PROVE  PlanInv'
<1>1. PlanTypeOK'
  BY DocumentFields DEF LookUp, Foreign, Exists, Cluster, PlanInv, PlanTypeOK
<1>2. NothingIsFirst'
  BY DocumentFields DEF LookUp, Foreign, Exists, Cluster, PlanInv, PlanTypeOK, NothingIsFirst
<1>3. FormsFit'
  BY DocumentFields DEF LookUp, Foreign, Exists, Cluster, PlanInv, PlanTypeOK, FormsFit
<1>4. JobsFit'
  <2>1. PICK n \in task[e].todo : task'[e] =
           IF ~Exists(e, n) THEN [task[e] EXCEPT !.todo = @ \ {n}]
           ELSE IF Foreign(e, n) THEN NoTask
           ELSE [step |-> "import", kind |-> task[e].kind, todo |-> task[e].todo \ {n}, name |-> n]
    BY DEF LookUp, PlanInv, PlanTypeOK
  <2>2. task[e].step = "adopt" /\ task[e] \in [step : {"adopt"}, kind : TaskKind, todo : SUBSET Namespace]
    BY DEF LookUp, PlanInv, PlanTypeOK
  <2>3. UNCHANGED <<config, inState, overlapped>> /\ \A f \in Env \ {e} : task'[f] = task[f]
    BY DEF LookUp, PlanInv, PlanTypeOK
  <2>4. /\ task'[e].step \in {"adopt", "import", "idle"}
        /\ task'[e].step \in {"adopt", "import"} => task'[e].todo \subseteq task[e].todo
        /\ task'[e].step = "import" => task'[e].name \in task[e].todo
    BY <2>1, <2>2
  <2>5. /\ Homes(config[e]) \subseteq config[e].namespaces
        /\ e \notin overlapped => task[e].todo \subseteq config[e].namespaces
    BY <2>2 DEF PlanInv, JobsFit
  <2> QED BY <2>3, <2>4, <2>5 DEF PlanInv, JobsFit
<1>5. LabelsAreTrue'
  BY DocumentFields DEF LookUp, Foreign, Exists, Cluster, PlanInv, PlanTypeOK, LabelsAreTrue
<1>6. StatesAreLabelled'
  <2>1. UNCHANGED <<config, owner, inState>> /\ \A f \in Env \ {e} : task'[f] = task[f]
    BY DEF LookUp, PlanInv, PlanTypeOK
  <2>2. \A f \in Env : \A n : Cluster(f)' = Cluster(f) /\ (Exists(f, n)' <=> Exists(f, n))
    BY <2>1 DEF Cluster, Exists
  <2>3. task'[e].step = "import" => /\ Exists(e, task'[e].name)
                                    /\ task'[e].name # Shop => owner[<<Cluster(e), task'[e].name>>] = e
    <3> SUFFICES ASSUME task'[e].step = "import"
                 PROVE  /\ Exists(e, task'[e].name)
                        /\ task'[e].name # Shop => owner[<<Cluster(e), task'[e].name>>] = e
      OBVIOUS
    <3>1. PICK n \in task[e].todo : task'[e] =
             IF ~Exists(e, n) THEN [task[e] EXCEPT !.todo = @ \ {n}]
             ELSE IF Foreign(e, n) THEN NoTask
             ELSE [step |-> "import", kind |-> task[e].kind, todo |-> task[e].todo \ {n}, name |-> n]
      BY DEF LookUp, PlanInv, PlanTypeOK
    <3>2. [task[e] EXCEPT !.todo = @ \ {n}].step = "adopt"
      BY DEF LookUp, PlanInv, PlanTypeOK
    <3>3. task'[e].name = n /\ Exists(e, n) /\ ~Foreign(e, n)
      BY <3>1, <3>2
    <3>4. owner[<<Cluster(e), n>>] = "nobody" => <<Cluster(e), n>>[2] = Shop
      BY <3>3 DEF PlanInv, LabelsAreTrue, Exists
    <3> QED BY <3>3, <3>4 DEF Foreign
  <2> QED BY <2>1, <2>2, <2>3, ZenonT(60) DEF PlanInv, StatesAreLabelled
<1>7. DestroysAreManaged'
  BY DocumentFields DEF LookUp, Foreign, Exists, Cluster, PlanInv, PlanTypeOK, DestroysAreManaged
<1>8. TrackedNamespacesAreNamed'
  BY DocumentFields DEF LookUp, Foreign, Exists, Cluster, PlanInv, PlanTypeOK, TrackedNamespacesAreNamed, JobsFit, Stored
<1>9. DestroyIsNotRefused'
  BY DocumentFields DEF LookUp, Foreign, Exists, Cluster, PlanInv, PlanTypeOK, DestroyIsNotRefused, StatesAreLabelled, LabelsAreTrue, DestroysAreManaged, NothingIsFirst
<1> QED BY <1>1, <1>2, <1>3, <1>4, <1>5, <1>6, <1>7, <1>8, <1>9 DEF PlanInv

\* What is imported exists and is labelled with the environment.
LEMMA ImportPlan ==
    ASSUME PlanInv, NEW e \in Env, Import(e)
    PROVE  PlanInv'
<1>1. PlanTypeOK'
  BY DocumentFields DEF Import, PlanInv, PlanTypeOK
<1>2. NothingIsFirst'
  BY DocumentFields DEF Import, PlanInv, PlanTypeOK, NothingIsFirst
<1>3. FormsFit'
  BY DocumentFields DEF Import, PlanInv, PlanTypeOK, FormsFit
<1>4. JobsFit'
  BY DocumentFields DEF Import, PlanInv, PlanTypeOK, JobsFit, TrackedNamespacesAreNamed, NothingIsFirst, Stored
<1>5. LabelsAreTrue'
  BY DocumentFields DEF Import, PlanInv, PlanTypeOK, LabelsAreTrue, Exists, Cluster
<1>6. StatesAreLabelled'
  BY DocumentFields DEF Import, PlanInv, PlanTypeOK, StatesAreLabelled, Exists, Cluster, LabelsAreTrue
<1>7. DestroysAreManaged'
  BY DocumentFields DEF Import, PlanInv, PlanTypeOK, DestroysAreManaged
<1>8. TrackedNamespacesAreNamed'
  BY DocumentFields DEF Import, PlanInv, PlanTypeOK, TrackedNamespacesAreNamed, JobsFit, Stored
<1>9. DestroyIsNotRefused'
  BY DocumentFields DEF Import, PlanInv, PlanTypeOK, DestroyIsNotRefused, Exists, Cluster, StatesAreLabelled, LabelsAreTrue, DestroysAreManaged, NothingIsFirst
<1> QED BY <1>1, <1>2, <1>3, <1>4, <1>5, <1>6, <1>7, <1>8, <1>9 DEF PlanInv

\* What is applied is what the document names.
LEMMA PlanStagePlan ==
    ASSUME PlanInv, NEW e \in Env, PlanStage(e)
    PROVE  PlanInv'
<1>1. PlanTypeOK'
  <2>1. config[e] \in Documents
    BY DEF PlanInv, PlanTypeOK, PlanStage, NothingIsFirst
  <2>2. Wanted(config[e], task[e].kind) \subseteq Namespace
    BY <2>1, DocumentFields DEF Wanted
  <2>3. releases[e] \subseteq Component \X Namespace
    BY DEF PlanInv, PlanTypeOK
  <2>4. task'[e] \in TaskRecord
    BY <2>1, <2>2, <2>3, DocumentFields DEF PlanStage, PlanInv, PlanTypeOK
  <2> QED BY <2>4 DEF PlanStage, PlanInv, PlanTypeOK
<1>2. NothingIsFirst'
  BY DocumentFields DEF PlanStage, Wanted, PlanInv, PlanTypeOK, NothingIsFirst
<1>3. FormsFit'
  BY DocumentFields DEF PlanStage, Wanted, PlanInv, PlanTypeOK, FormsFit
<1>4. JobsFit'
  BY DocumentFields DEF PlanStage, Wanted, PlanInv, PlanTypeOK, JobsFit, TrackedNamespacesAreNamed, NothingIsFirst, Stored
<1>5. LabelsAreTrue'
  BY DocumentFields DEF PlanStage, Wanted, PlanInv, PlanTypeOK, LabelsAreTrue, Exists, Cluster
<1>6. StatesAreLabelled'
  BY DocumentFields DEF PlanStage, Wanted, PlanInv, PlanTypeOK, StatesAreLabelled, Exists, Cluster, LabelsAreTrue
<1>7. DestroysAreManaged'
  BY DocumentFields DEF PlanStage, Wanted, PlanInv, PlanTypeOK, DestroysAreManaged
<1>8. TrackedNamespacesAreNamed'
  BY DocumentFields DEF PlanStage, Wanted, PlanInv, PlanTypeOK, TrackedNamespacesAreNamed, JobsFit, Stored
<1>9. DestroyIsNotRefused'
  BY DocumentFields DEF PlanStage, Wanted, PlanInv, PlanTypeOK, DestroyIsNotRefused, Exists, Cluster, StatesAreLabelled, LabelsAreTrue, DestroysAreManaged, NothingIsFirst
<1> QED BY <1>1, <1>2, <1>3, <1>4, <1>5, <1>6, <1>7, <1>8, <1>9 DEF PlanInv

\* After an apply the state has what was applied, all of it labelled.
LEMMA ApplyPlan ==
    ASSUME PlanInv, NEW e \in Env, Apply(e)
    PROVE  PlanInv'
<1>a. /\ task[e].step = "apply" /\ task[e].wanted \subseteq Namespace
      /\ task[e].installed \subseteq Component \X Namespace /\ config[e] # NoDoc
  BY DEF Apply, PlanInv, PlanTypeOK, NothingIsFirst
<1>b. UNCHANGED <<config, form, forms, plans, overlapped>> /\ task' = [task EXCEPT ![e] = NoTask]
  BY DEF Apply
<1>n. owner' = Labels(e, task[e].wanted) /\ inState' = [inState EXCEPT ![e] = task[e].wanted]
  BY DEF Apply
<1>c. owner' \in [DOMAIN owner' -> Env \cup {"nobody"}] /\ DOMAIN owner' \subseteq (Env \cup {"shared"}) \X Namespace
  BY <1>a, <1>b, <1>n, LabelsStep DEF Apply
<1>d. LabelsAreTrue'
  BY <1>a, <1>b, <1>n, LabelsStep DEF Apply
<1>e. \A f \in Env, n \in Namespace : Exists(f, n) => <<Cluster(f), n>> \in DOMAIN owner'
  BY <1>a, <1>b, <1>n, LabelsStep DEF Apply
<1>f. \A f \in Env, n \in Namespace : Cluster(f) # Cluster(e) /\ <<Cluster(f), n>> \in DOMAIN owner'
         => Exists(f, n) /\ owner'[<<Cluster(f), n>>] = owner[<<Cluster(f), n>>]
  BY <1>a, <1>b, <1>n, LabelsStep DEF Apply
<1>g. \A f \in Env, n \in Namespace :
         n # Shop /\ Exists(f, n) /\ owner[<<Cluster(f), n>>] = f => owner'[<<Cluster(f), n>>] = f
  BY <1>a, <1>b, <1>n, LabelsStep DEF Apply
<1>h. \A n \in task[e].wanted : <<Cluster(e), n>> \in DOMAIN owner' /\ owner'[<<Cluster(e), n>>] = e
  BY <1>a, <1>b, <1>n, LabelsStep DEF Apply
<1>i. \A n \in Namespace \ task[e].wanted :
         <<Cluster(e), n>> \in DOMAIN owner' => Exists(e, n) /\ owner'[<<Cluster(e), n>>] = owner[<<Cluster(e), n>>]
  BY <1>a, <1>b, <1>n, LabelsStep DEF Apply
<1>j. \A f \in Env : Cluster(f)' = Cluster(f) /\ inState[f] \subseteq Namespace
  BY <1>b DEF Cluster, PlanInv, PlanTypeOK
<1>k. task'[e] = NoTask /\ \A f \in Env \ {e} : task'[f] = task[f] /\ inState'[f] = inState[f]
  BY <1>b, <1>n DEF PlanInv, PlanTypeOK
<1>l. inState'[e] \subseteq (inState[e] \cup task[e].wanted) /\ task[e].wanted \subseteq task[e].wanted
  BY <1>n DEF PlanInv, PlanTypeOK
<1>1. PlanTypeOK'
  BY <1>a, <1>b, <1>c, <1>n DEF Apply, PlanInv, PlanTypeOK
<1>2. NothingIsFirst'
  BY <1>a, <1>b, <1>k DEF PlanInv, NothingIsFirst
<1>3. FormsFit'
  BY <1>b DEF PlanInv, FormsFit
<1>4. JobsFit'
  BY <1>b, <1>k DEF PlanInv, JobsFit
<1>5. LabelsAreTrue'
  BY <1>d
<1>6. StatesAreLabelled'
  <2> SUFFICES ASSUME NEW f \in Env
               PROVE  /\ \A n \in inState'[f] :
                            n # Shop /\ <<Cluster(f), n>> \in DOMAIN owner' => owner'[<<Cluster(f), n>>] = f
                      /\ config[f].target = "existing_eks" => \A n \in inState'[f] : <<Cluster(f), n>> \in DOMAIN owner'
                      /\ task'[f].step = "import" =>
                            /\ <<Cluster(f), task'[f].name>> \in DOMAIN owner'
                            /\ task'[f].name # Shop => owner'[<<Cluster(f), task'[f].name>>] = f
    BY <1>b, <1>j DEF StatesAreLabelled, Exists
  <2>1. /\ \A n \in inState[f] : n # Shop /\ Exists(f, n) => owner[<<Cluster(f), n>>] = f
        /\ config[f].target = "existing_eks" => \A n \in inState[f] : Exists(f, n)
        /\ task[f].step = "import" =>
              /\ Exists(f, task[f].name) /\ task[f].name \in Namespace
              /\ task[f].name # Shop => owner[<<Cluster(f), task[f].name>>] = f
    BY DEF PlanInv, PlanTypeOK, StatesAreLabelled
  <2>2. CASE f = e
    BY <2>1, <2>2, <1>a, <1>e, <1>g, <1>h, <1>i, <1>j, <1>k, <1>l
  <2>3. CASE f # e /\ Cluster(f) = Cluster(e)
    <3>1. config[f].target = "existing_eks"
      BY <2>3, ClusterFacts
    <3> QED BY <2>1, <2>3, <3>1, <1>e, <1>g, <1>j, <1>k
  <2>4. CASE Cluster(f) # Cluster(e)
    BY <2>1, <2>4, <1>e, <1>f, <1>g, <1>j, <1>k
  <2> QED BY <2>2, <2>3, <2>4
<1>7. DestroysAreManaged'
  BY <1>b, <1>k DEF PlanInv, DestroysAreManaged
<1>8. TrackedNamespacesAreNamed'
  BY <1>a, <1>b, <1>k, <1>l DEF PlanInv, JobsFit, TrackedNamespacesAreNamed, Stored
<1>9. DestroyIsNotRefused'
  <2> SUFFICES ASSUME NEW f \in Env, task'[f].step = "platform", task'[f].swept,
                      NEW n \in inState'[f], <<Cluster(f), n>> \in DOMAIN owner'
               PROVE  n = Shop /\ owner'[<<f, n>>] = "nobody"
    BY <1>j DEF DestroyIsNotRefused, Exists
  <2>1. f # e /\ task[f] = task'[f] /\ n \in inState[f] /\ n \in Namespace
    BY <1>j, <1>k
  <2>2. Cluster(f) = f /\ Cluster(e) # f
    BY <2>1, ClusterFacts DEF PlanInv, DestroysAreManaged
  <2>3. Exists(f, n) /\ owner'[<<f, n>>] = owner[<<f, n>>]
    BY <2>1, <2>2, <1>f
  <2> QED BY <2>1, <2>3 DEF PlanInv, DestroyIsNotRefused
<1> QED BY <1>1, <1>2, <1>3, <1>4, <1>5, <1>6, <1>7, <1>8, <1>9 DEF PlanInv

\* After a failed apply it has some of it besides.
LEMMA ApplyFailsPlan ==
    ASSUME PlanInv, NEW e \in Env, ApplyFails(e)
    PROVE  PlanInv'
<1>a. /\ task[e].step = "apply" /\ task[e].wanted \subseteq Namespace
      /\ task[e].installed \subseteq Component \X Namespace /\ config[e] # NoDoc
  BY DEF ApplyFails, PlanInv, PlanTypeOK, NothingIsFirst
<1>b. UNCHANGED <<config, form, forms, plans, overlapped>> /\ task' = [task EXCEPT ![e] = NoTask]
  BY DEF ApplyFails
<1>n. PICK names \in SUBSET {n \in task[e].wanted : ~Taken(e, n)} :
          owner' = Labels(e, names) /\ inState' = [inState EXCEPT ![e] = @ \cup names]
  BY DEF ApplyFails
<1>c. owner' \in [DOMAIN owner' -> Env \cup {"nobody"}] /\ DOMAIN owner' \subseteq (Env \cup {"shared"}) \X Namespace
  BY <1>a, <1>b, <1>n, LabelsStep
<1>d. LabelsAreTrue'
  BY <1>a, <1>b, <1>n, LabelsStep
<1>e. \A f \in Env, n \in Namespace : Exists(f, n) => <<Cluster(f), n>> \in DOMAIN owner'
  BY <1>a, <1>b, <1>n, LabelsStep
<1>f. \A f \in Env, n \in Namespace : Cluster(f) # Cluster(e) /\ <<Cluster(f), n>> \in DOMAIN owner'
         => Exists(f, n) /\ owner'[<<Cluster(f), n>>] = owner[<<Cluster(f), n>>]
  BY <1>a, <1>b, <1>n, LabelsStep
<1>g. \A f \in Env, n \in Namespace :
         n # Shop /\ Exists(f, n) /\ owner[<<Cluster(f), n>>] = f => owner'[<<Cluster(f), n>>] = f
  BY <1>a, <1>b, <1>n, LabelsStep
<1>h. \A n \in names : <<Cluster(e), n>> \in DOMAIN owner' /\ owner'[<<Cluster(e), n>>] = e
  BY <1>a, <1>b, <1>n, LabelsStep
<1>i. \A n \in Namespace \ names :
         <<Cluster(e), n>> \in DOMAIN owner' => Exists(e, n) /\ owner'[<<Cluster(e), n>>] = owner[<<Cluster(e), n>>]
  BY <1>a, <1>b, <1>n, LabelsStep
<1>j. \A f \in Env : Cluster(f)' = Cluster(f) /\ inState[f] \subseteq Namespace
  BY <1>b DEF Cluster, PlanInv, PlanTypeOK
<1>k. task'[e] = NoTask /\ \A f \in Env \ {e} : task'[f] = task[f] /\ inState'[f] = inState[f]
  BY <1>b, <1>n DEF PlanInv, PlanTypeOK
<1>l. inState'[e] \subseteq (inState[e] \cup names) /\ names \subseteq task[e].wanted
  BY <1>n DEF PlanInv, PlanTypeOK
<1>1. PlanTypeOK'
  BY <1>a, <1>b, <1>c, <1>n DEF ApplyFails, PlanInv, PlanTypeOK
<1>2. NothingIsFirst'
  BY <1>a, <1>b, <1>k DEF PlanInv, NothingIsFirst
<1>3. FormsFit'
  BY <1>b DEF PlanInv, FormsFit
<1>4. JobsFit'
  BY <1>b, <1>k DEF PlanInv, JobsFit
<1>5. LabelsAreTrue'
  BY <1>d
<1>6. StatesAreLabelled'
  <2> SUFFICES ASSUME NEW f \in Env
               PROVE  /\ \A n \in inState'[f] :
                            n # Shop /\ <<Cluster(f), n>> \in DOMAIN owner' => owner'[<<Cluster(f), n>>] = f
                      /\ config[f].target = "existing_eks" => \A n \in inState'[f] : <<Cluster(f), n>> \in DOMAIN owner'
                      /\ task'[f].step = "import" =>
                            /\ <<Cluster(f), task'[f].name>> \in DOMAIN owner'
                            /\ task'[f].name # Shop => owner'[<<Cluster(f), task'[f].name>>] = f
    BY <1>b, <1>j DEF StatesAreLabelled, Exists
  <2>1. /\ \A n \in inState[f] : n # Shop /\ Exists(f, n) => owner[<<Cluster(f), n>>] = f
        /\ config[f].target = "existing_eks" => \A n \in inState[f] : Exists(f, n)
        /\ task[f].step = "import" =>
              /\ Exists(f, task[f].name) /\ task[f].name \in Namespace
              /\ task[f].name # Shop => owner[<<Cluster(f), task[f].name>>] = f
    BY DEF PlanInv, PlanTypeOK, StatesAreLabelled
  <2>2. CASE f = e
    BY <2>1, <2>2, <1>a, <1>e, <1>g, <1>h, <1>i, <1>j, <1>k, <1>l
  <2>3. CASE f # e /\ Cluster(f) = Cluster(e)
    <3>1. config[f].target = "existing_eks"
      BY <2>3, ClusterFacts
    <3> QED BY <2>1, <2>3, <3>1, <1>e, <1>g, <1>j, <1>k
  <2>4. CASE Cluster(f) # Cluster(e)
    BY <2>1, <2>4, <1>e, <1>f, <1>g, <1>j, <1>k
  <2> QED BY <2>2, <2>3, <2>4
<1>7. DestroysAreManaged'
  BY <1>b, <1>k DEF PlanInv, DestroysAreManaged
<1>8. TrackedNamespacesAreNamed'
  BY <1>a, <1>b, <1>k, <1>l DEF PlanInv, JobsFit, TrackedNamespacesAreNamed, Stored
<1>9. DestroyIsNotRefused'
  <2> SUFFICES ASSUME NEW f \in Env, task'[f].step = "platform", task'[f].swept,
                      NEW n \in inState'[f], <<Cluster(f), n>> \in DOMAIN owner'
               PROVE  n = Shop /\ owner'[<<f, n>>] = "nobody"
    BY <1>j DEF DestroyIsNotRefused, Exists
  <2>1. f # e /\ task[f] = task'[f] /\ n \in inState[f] /\ n \in Namespace
    BY <1>j, <1>k
  <2>2. Cluster(f) = f /\ Cluster(e) # f
    BY <2>1, ClusterFacts DEF PlanInv, DestroysAreManaged
  <2>3. Exists(f, n) /\ owner'[<<f, n>>] = owner[<<f, n>>]
    BY <2>1, <2>2, <1>f
  <2> QED BY <2>1, <2>3 DEF PlanInv, DestroyIsNotRefused
<1> QED BY <1>1, <1>2, <1>3, <1>4, <1>5, <1>6, <1>7, <1>8, <1>9 DEF PlanInv

\* A job that ends early leaves the state as it is.
LEMMA TaskFailsPlan ==
    ASSUME PlanInv, NEW e \in Env, TaskFails(e)
    PROVE  PlanInv'
<1>1. PlanTypeOK'
  BY DocumentFields DEF TaskFails, PlanInv, PlanTypeOK
<1>2. NothingIsFirst'
  BY DocumentFields DEF TaskFails, PlanInv, PlanTypeOK, NothingIsFirst
<1>3. FormsFit'
  BY DocumentFields DEF TaskFails, PlanInv, PlanTypeOK, FormsFit
<1>4. JobsFit'
  BY DocumentFields DEF TaskFails, PlanInv, PlanTypeOK, JobsFit, TrackedNamespacesAreNamed, NothingIsFirst, Stored
<1>5. LabelsAreTrue'
  BY DocumentFields DEF TaskFails, PlanInv, PlanTypeOK, LabelsAreTrue, Exists, Cluster
<1>6. StatesAreLabelled'
  BY DocumentFields DEF TaskFails, PlanInv, PlanTypeOK, StatesAreLabelled, Exists, Cluster, LabelsAreTrue
<1>7. DestroysAreManaged'
  BY DocumentFields DEF TaskFails, PlanInv, PlanTypeOK, DestroysAreManaged
<1>8. TrackedNamespacesAreNamed'
  BY DocumentFields DEF TaskFails, PlanInv, PlanTypeOK, TrackedNamespacesAreNamed, JobsFit, Stored
<1>9. DestroyIsNotRefused'
  BY DocumentFields DEF TaskFails, PlanInv, PlanTypeOK, DestroyIsNotRefused, Exists, Cluster, StatesAreLabelled, LabelsAreTrue, DestroysAreManaged, NothingIsFirst
<1> QED BY <1>1, <1>2, <1>3, <1>4, <1>5, <1>6, <1>7, <1>8, <1>9 DEF PlanInv

\* Removing the components leaves the namespaces in the state.
LEMMA RemoveComponentsPlan ==
    ASSUME PlanInv, NEW e \in Env, RemoveComponents(e)
    PROVE  PlanInv'
<1>1. PlanTypeOK'
  BY DocumentFields DEF RemoveComponents, PlanInv, PlanTypeOK
<1>2. NothingIsFirst'
  BY DocumentFields DEF RemoveComponents, PlanInv, PlanTypeOK, NothingIsFirst
<1>3. FormsFit'
  BY DocumentFields DEF RemoveComponents, PlanInv, PlanTypeOK, FormsFit
<1>4. JobsFit'
  BY DocumentFields DEF RemoveComponents, PlanInv, PlanTypeOK, JobsFit, TrackedNamespacesAreNamed, NothingIsFirst, Stored
<1>5. LabelsAreTrue'
  BY DocumentFields DEF RemoveComponents, PlanInv, PlanTypeOK, LabelsAreTrue, Exists, Cluster
<1>6. StatesAreLabelled'
  BY DocumentFields DEF RemoveComponents, PlanInv, PlanTypeOK, StatesAreLabelled, Exists, Cluster, LabelsAreTrue
<1>7. DestroysAreManaged'
  BY DocumentFields DEF RemoveComponents, PlanInv, PlanTypeOK, DestroysAreManaged
<1>8. TrackedNamespacesAreNamed'
  BY DocumentFields DEF RemoveComponents, PlanInv, PlanTypeOK, TrackedNamespacesAreNamed, JobsFit, Stored
<1>9. DestroyIsNotRefused'
  BY DocumentFields DEF RemoveComponents, PlanInv, PlanTypeOK, DestroyIsNotRefused, Exists, Cluster, StatesAreLabelled, LabelsAreTrue, DestroysAreManaged, NothingIsFirst
<1> QED BY <1>1, <1>2, <1>3, <1>4, <1>5, <1>6, <1>7, <1>8, <1>9 DEF PlanInv

\* Detaching empties the state of an environment on the shared cluster.
LEMMA DetachPlan ==
    ASSUME PlanInv, NEW e \in Env, Detach(e)
    PROVE  PlanInv'
<1>1. PlanTypeOK'
  BY DocumentFields DEF Detach, PlanInv, PlanTypeOK
<1>2. NothingIsFirst'
  BY DocumentFields DEF Detach, PlanInv, PlanTypeOK, NothingIsFirst
<1>3. FormsFit'
  BY DocumentFields DEF Detach, PlanInv, PlanTypeOK, FormsFit
<1>4. JobsFit'
  BY DocumentFields DEF Detach, PlanInv, PlanTypeOK, JobsFit, TrackedNamespacesAreNamed, NothingIsFirst, Stored
<1>5. LabelsAreTrue'
  BY DocumentFields DEF Detach, PlanInv, PlanTypeOK, LabelsAreTrue, Exists, Cluster
<1>6. StatesAreLabelled'
  BY DocumentFields DEF Detach, PlanInv, PlanTypeOK, StatesAreLabelled, Exists, Cluster, LabelsAreTrue
<1>7. DestroysAreManaged'
  BY DocumentFields DEF Detach, PlanInv, PlanTypeOK, DestroysAreManaged
<1>8. TrackedNamespacesAreNamed'
  BY DocumentFields DEF Detach, PlanInv, PlanTypeOK, TrackedNamespacesAreNamed, JobsFit, Stored
<1>9. DestroyIsNotRefused'
  BY DocumentFields DEF Detach, PlanInv, PlanTypeOK, DestroyIsNotRefused, Exists, Cluster, StatesAreLabelled, LabelsAreTrue, DestroysAreManaged, NothingIsFirst
<1> QED BY <1>1, <1>2, <1>3, <1>4, <1>5, <1>6, <1>7, <1>8, <1>9 DEF PlanInv

\* The sweep deletes what is labelled with the environment.
LEMMA DeleteNamespacesPlan ==
    ASSUME PlanInv, NEW e \in Env, DeleteNamespaces(e)
    PROVE  PlanInv'
<1>1. PlanTypeOK'
  BY DocumentFields DEF DeleteNamespaces, Labelled, Restrict, Exists, Cluster, PlanInv, PlanTypeOK
<1>2. NothingIsFirst'
  BY DocumentFields DEF DeleteNamespaces, Labelled, Restrict, Exists, Cluster, PlanInv, PlanTypeOK, NothingIsFirst
<1>3. FormsFit'
  BY DocumentFields DEF DeleteNamespaces, Labelled, Restrict, Exists, Cluster, PlanInv, PlanTypeOK, FormsFit
<1>4. JobsFit'
  BY DocumentFields DEF DeleteNamespaces, Labelled, Restrict, Exists, Cluster, PlanInv, PlanTypeOK, JobsFit, TrackedNamespacesAreNamed, NothingIsFirst, Stored
<1>5. LabelsAreTrue'
  BY DocumentFields DEF DeleteNamespaces, Labelled, Restrict, Exists, Cluster, PlanInv, PlanTypeOK, LabelsAreTrue
<1>6. StatesAreLabelled'
  BY DocumentFields DEF DeleteNamespaces, Labelled, Restrict, Exists, Cluster, PlanInv, PlanTypeOK, StatesAreLabelled, LabelsAreTrue
<1>7. DestroysAreManaged'
  BY DocumentFields DEF DeleteNamespaces, Labelled, Restrict, Exists, Cluster, PlanInv, PlanTypeOK, DestroysAreManaged
<1>8. TrackedNamespacesAreNamed'
  BY DocumentFields DEF DeleteNamespaces, Labelled, Restrict, Exists, Cluster, PlanInv, PlanTypeOK, TrackedNamespacesAreNamed, JobsFit, Stored
<1>9. DestroyIsNotRefused'
  <2> SUFFICES ASSUME NEW f \in Env, task'[f].step = "platform", task'[f].swept,
                      NEW n \in inState'[f], Exists(f, n)'
               PROVE  n = Shop /\ owner'[<<f, n>>] = "nobody"
    BY DEF DestroyIsNotRefused
  <2>1. \A x \in DOMAIN owner' : x \in DOMAIN owner /\ owner'[x] = owner[x]
    BY DEF DeleteNamespaces, Restrict
  <2>2. inState' = inState /\ config' = config /\ config[e].target = "managed"
    BY DEF DeleteNamespaces
  <2>3. Exists(f, n) /\ <<Cluster(f), n>> \in DOMAIN owner'
    BY <2>1, <2>2 DEF Exists, Cluster
  <2>4. CASE f # e
    <3>1. task'[f] = task[f]
      BY <2>4 DEF DeleteNamespaces, PlanInv, PlanTypeOK
    <3>2. config[f].target = "managed"
      BY <3>1 DEF PlanInv, DestroysAreManaged
    <3> QED BY <2>1, <2>2, <2>3, <3>1, <3>2 DEF PlanInv, DestroyIsNotRefused, Cluster
  <2>5. CASE f = e
    <3>1. owner' = Restrict(owner, DOMAIN owner \ Labelled(e))
      BY <2>5 DEF DeleteNamespaces, PlanInv, PlanTypeOK
    <3>2. <<e, n>> \in DOMAIN owner' /\ <<e, n>> \notin Labelled(e) /\ owner'[<<e, n>>] = owner[<<e, n>>]
      BY <2>2, <2>3, <2>5, <3>1 DEF Cluster, Restrict
    <3>3. owner[<<e, n>>] # e
      BY <2>1, <3>2 DEF Labelled
    <3>4. Cluster(e) = e
      BY <2>2 DEF Cluster
    <3>5. n = Shop
      BY <2>2, <2>3, <2>5, <3>3, <3>4 DEF PlanInv, StatesAreLabelled
    <3>6. owner[<<e, n>>] # "nobody" => owner[<<e, n>>] \in Env /\ e = Cluster(owner[<<e, n>>])
      BY <2>1, <3>2 DEF PlanInv, PlanTypeOK, LabelsAreTrue
    <3>7. owner[<<e, n>>] = "nobody"
      BY <3>3, <3>6 DEF Cluster
    <3> QED BY <2>5, <3>2, <3>5, <3>7
  <2> QED BY <2>4, <2>5
<1> QED BY <1>1, <1>2, <1>3, <1>4, <1>5, <1>6, <1>7, <1>8, <1>9 DEF PlanInv

\* The platform stage of a managed destroy empties the state or leaves it.
LEMMA DestroyPlatformPlan ==
    ASSUME PlanInv, NEW e \in Env, DestroyPlatform(e)
    PROVE  PlanInv'
<1>a. /\ task'[e].step \in {"idle", "cluster"} /\ task'[e] \in TaskRecord
      /\ \A f \in Env \ {e} : task'[f] = task[f]
  BY DEF DestroyPlatform, PlanInv, PlanTypeOK
<1>b. UNCHANGED <<config, owner, form, forms, plans, overlapped>>
  BY DEF DestroyPlatform
<1>c. /\ inState'[e] \in {{}, inState[e]} /\ \A f \in Env \ {e} : inState'[f] = inState[f]
      /\ inState' \in [Env -> SUBSET Namespace]
  BY DEF DestroyPlatform, PlanInv, PlanTypeOK
<1>d. \A f \in Env : \A n : Cluster(f)' = Cluster(f) /\ (Exists(f, n)' <=> Exists(f, n))
  BY <1>b DEF Cluster, Exists
<1>e. task[e].step = "platform" /\ config[e].target = "managed" /\ config[e] # NoDoc
  BY DEF DestroyPlatform, PlanInv, NothingIsFirst, DestroysAreManaged
<1>1. PlanTypeOK'
  <2>1. task' \in [Env -> TaskRecord]
    BY <1>a DEF DestroyPlatform, PlanInv, PlanTypeOK
  <2>2. releases' \in [Env -> SUBSET (Component \X Namespace)]
    BY DEF DestroyPlatform, PlanInv, PlanTypeOK
  <2> QED BY <2>1, <2>2, <1>b, <1>c DEF PlanInv, PlanTypeOK
<1>2. NothingIsFirst'
  BY <1>a, <1>b, <1>c, <1>d, <1>e DEF PlanInv, NothingIsFirst
<1>3. FormsFit'
  BY <1>a, <1>b, <1>c, <1>d, <1>e DEF PlanInv, FormsFit
<1>4. JobsFit'
  BY <1>a, <1>b, <1>c, <1>d, <1>e DEF PlanInv, JobsFit
<1>5. LabelsAreTrue'
  BY <1>a, <1>b, <1>c, <1>d, <1>e DEF PlanInv, LabelsAreTrue, Cluster
<1>6. StatesAreLabelled'
  <2>1. \A f \in Env : inState'[f] \subseteq inState[f]
    BY <1>c
  <2>2. \A f \in Env : task'[f].step = "import" => task'[f] = task[f]
    BY <1>a
  <2> QED BY <1>b, <1>d, <2>1, <2>2 DEF PlanInv, StatesAreLabelled
<1>7. DestroysAreManaged'
  BY <1>a, <1>b, <1>c, <1>d, <1>e DEF PlanInv, DestroysAreManaged
<1>8. TrackedNamespacesAreNamed'
  BY <1>a, <1>b, <1>c, <1>d, <1>e DEF PlanInv, TrackedNamespacesAreNamed, Stored
<1>9. DestroyIsNotRefused'
  BY <1>a, <1>b, <1>c, <1>d, <1>e DEF PlanInv, DestroyIsNotRefused
<1> QED BY <1>1, <1>2, <1>3, <1>4, <1>5, <1>6, <1>7, <1>8, <1>9 DEF PlanInv

\* With a managed cluster all its namespaces go.
LEMMA DestroyClusterPlan ==
    ASSUME PlanInv, NEW e \in Env, DestroyCluster(e)
    PROVE  PlanInv'
<1>1. PlanTypeOK'
  BY DocumentFields DEF DestroyCluster, Restrict, Exists, Cluster, PlanInv, PlanTypeOK
<1>2. NothingIsFirst'
  BY DocumentFields DEF DestroyCluster, Restrict, Exists, Cluster, PlanInv, PlanTypeOK, NothingIsFirst
<1>3. FormsFit'
  BY DocumentFields DEF DestroyCluster, Restrict, Exists, Cluster, PlanInv, PlanTypeOK, FormsFit
<1>4. JobsFit'
  BY DocumentFields DEF DestroyCluster, Restrict, Exists, Cluster, PlanInv, PlanTypeOK, JobsFit, TrackedNamespacesAreNamed, NothingIsFirst, Stored
<1>5. LabelsAreTrue'
  BY DocumentFields DEF DestroyCluster, Restrict, Exists, Cluster, PlanInv, PlanTypeOK, LabelsAreTrue
<1>6. StatesAreLabelled'
  BY DocumentFields DEF DestroyCluster, Restrict, Exists, Cluster, PlanInv, PlanTypeOK, StatesAreLabelled, LabelsAreTrue
<1>7. DestroysAreManaged'
  BY DocumentFields DEF DestroyCluster, Restrict, Exists, Cluster, PlanInv, PlanTypeOK, DestroysAreManaged
<1>8. TrackedNamespacesAreNamed'
  BY DocumentFields DEF DestroyCluster, Restrict, Exists, Cluster, PlanInv, PlanTypeOK, TrackedNamespacesAreNamed, JobsFit, Stored
<1>9. DestroyIsNotRefused'
  <2> SUFFICES ASSUME NEW f \in Env, task'[f].step = "platform", task'[f].swept,
                      NEW n \in inState'[f], Exists(f, n)'
               PROVE  n = Shop /\ owner'[<<f, n>>] = "nobody"
    BY DEF DestroyIsNotRefused
  <2>1. \A x \in DOMAIN owner' : x \in DOMAIN owner /\ owner'[x] = owner[x]
    BY DEF DestroyCluster, Restrict
  <2>2. inState' = inState /\ config' = config
    BY DEF DestroyCluster
  <2>3. Exists(f, n) /\ <<Cluster(f), n>> \in DOMAIN owner'
    BY <2>1, <2>2 DEF Exists, Cluster
  <2>4. f # e /\ task'[f] = task[f]
    BY DEF DestroyCluster, PlanInv, PlanTypeOK
  <2>5. config[f].target = "managed"
    BY <2>4 DEF PlanInv, DestroysAreManaged
  <2> QED BY <2>1, <2>2, <2>3, <2>4, <2>5 DEF PlanInv, DestroyIsNotRefused, Cluster
<1> QED BY <1>1, <1>2, <1>3, <1>4, <1>5, <1>6, <1>7, <1>8, <1>9 DEF PlanInv

\* A checked form names what the stored document named.
LEMMA CheckFormPlan ==
    ASSUME PlanInv, NEW f \in form, CheckForm(f)
    PROVE  PlanInv'
<1> DEFINE next == Complete(f.next)
           stored == [step |-> "store", env |-> f.env, next |-> next, base |-> config[f.env]]
<1>1. f.step = "open" /\ f.env \in Env /\ f.next \in Documents /\ f.next.target = config[f.env].target
  BY DEF CheckForm, PlanInv, PlanTypeOK, FormsFit
<1>2. config[f.env] \in Documents
  BY <1>1 DEF PlanInv, PlanTypeOK, FormsFit
<1>3. next \in Documents /\ next.target = config[f.env].target /\ Homes(next) \subseteq next.namespaces
  BY <1>1, CompleteIsDocument
<1>4. \/ form' \subseteq form
      \/ /\ form' \subseteq form \cup {stored}
         /\ Complete(config[f.env]).namespaces \subseteq next.namespaces
  BY DEF CheckForm
<1>5. config[f.env].namespaces \subseteq Complete(config[f.env]).namespaces
  BY <1>2, CompleteIsDocument
<1>6. stored \in FormRecord
  BY <1>1, <1>2, <1>3
<1>7. UNCHANGED <<config, owner, inState, releases, task, forms, plans, overlapped>>
  BY DEF CheckForm
<1>8. PlanTypeOK'
  BY <1>4, <1>6, <1>7 DEF PlanInv, PlanTypeOK
<1>9. FormsFit'
  <2> SUFFICES ASSUME NEW g \in form'
               PROVE  /\ config[g.env] # NoDoc /\ g.next.target = config[g.env].target
                      /\ g.step = "store" => /\ g.base.namespaces \subseteq g.next.namespaces
                                             /\ Homes(g.next) \subseteq g.next.namespaces
    BY <1>7 DEF FormsFit, Homes
  <2>1. CASE g \in form
    BY <2>1 DEF PlanInv, FormsFit
  <2>2. CASE g = stored /\ Complete(config[f.env]).namespaces \subseteq next.namespaces
    BY <2>2, <1>2, <1>3, <1>5, DocumentFields
  <2> QED BY <2>1, <2>2, <1>4
<1>10. (NothingIsFirst /\ JobsFit /\ LabelsAreTrue /\ StatesAreLabelled)'
  BY <1>7 DEF PlanInv, NothingIsFirst, JobsFit, LabelsAreTrue, StatesAreLabelled, Exists, Cluster, Homes
<1>11. (DestroysAreManaged /\ TrackedNamespacesAreNamed /\ DestroyIsNotRefused)'
  BY <1>7 DEF PlanInv, DestroysAreManaged, TrackedNamespacesAreNamed, DestroyIsNotRefused, Exists,
     Cluster, Stored
<1> QED BY <1>8, <1>9, <1>10, <1>11 DEF PlanInv

\* A stored form replaces the document by one that names no less, unless it overlaps
\* with another save.
LEMMA StoreFormPlan ==
    ASSUME PlanInv, NEW f \in form, StoreForm(f)
    PROVE  PlanInv'
<1>1. UNCHANGED <<owner, inState, releases, task, forms, plans>> /\ form' \subseteq form
  BY DEF StoreForm
<1>2. CASE UNCHANGED <<config, overlapped>>
  <2>1. PlanTypeOK' /\ FormsFit'
    BY <1>1, <1>2 DEF PlanInv, PlanTypeOK, FormsFit
  <2>2. (NothingIsFirst /\ JobsFit /\ LabelsAreTrue /\ StatesAreLabelled)'
    BY <1>1, <1>2 DEF PlanInv, NothingIsFirst, JobsFit, LabelsAreTrue, StatesAreLabelled, Exists, Cluster
  <2>3. (DestroysAreManaged /\ TrackedNamespacesAreNamed /\ DestroyIsNotRefused)'
    BY <1>1, <1>2 DEF PlanInv, DestroysAreManaged, TrackedNamespacesAreNamed, DestroyIsNotRefused,
       Exists, Cluster, Stored
  <2> QED BY <2>1, <2>2, <2>3 DEF PlanInv
<1>3. CASE /\ config' = [config EXCEPT ![f.env] = f.next]
           /\ overlapped' = overlapped \cup IF config[f.env] = f.base THEN {} ELSE {f.env}
  <2>1. /\ f.step = "store" /\ f.env \in Env /\ f.next \in Documents
        /\ config[f.env] # NoDoc /\ f.next.target = config[f.env].target
        /\ f.base.namespaces \subseteq f.next.namespaces
        /\ Homes(f.next) \subseteq f.next.namespaces
    BY DEF StoreForm, PlanInv, PlanTypeOK, FormsFit
  <2>2. \A e \in Env : config'[e].target = config[e].target /\ (config'[e] = NoDoc <=> config[e] = NoDoc)
    BY <1>3, <2>1, DocumentFields DEF PlanInv, PlanTypeOK
  <2>3. \A e \in Env : \A n : Cluster(e)' = Cluster(e) /\ (Exists(e, n)' <=> Exists(e, n))
    BY <1>1, <2>2 DEF Cluster, Exists
  <2>4. \A e \in Env : e \notin overlapped' =>
           e \notin overlapped /\ config[e].namespaces \subseteq config'[e].namespaces
    BY <1>3, <2>1 DEF PlanInv, PlanTypeOK
  <2>5. \A e \in Env : Homes(config[e]) \subseteq config[e].namespaces
           => Homes(config'[e]) \subseteq config'[e].namespaces
    BY <1>3, <2>1 DEF PlanInv, PlanTypeOK
  <2>6. PlanTypeOK'
    BY <1>1, <1>3, <2>1 DEF PlanInv, PlanTypeOK
  <2>7. FormsFit'
    <3>1. \A g \in form : g.env \in Env
      BY DEF PlanInv, PlanTypeOK
    <3> QED BY <1>1, <2>2, <3>1 DEF PlanInv, FormsFit
  <2>8. NothingIsFirst' /\ DestroysAreManaged'
    BY <1>1, <2>2 DEF PlanInv, NothingIsFirst, DestroysAreManaged
  <2>9. JobsFit'
    <3>1. \A e \in Env : Homes(config[e])' = Homes(config'[e]) /\ Homes(task[e].copy)' = Homes(task[e].copy)
      BY <1>1 DEF Homes
    <3> QED BY <1>1, <2>2, <2>4, <2>5, <3>1 DEF PlanInv, JobsFit
  <2>10. LabelsAreTrue'
    <3>1. \A x \in DOMAIN owner : owner[x] # "nobody" => owner[x] \in Env
      BY DEF PlanInv, PlanTypeOK
    <3> QED BY <1>1, <2>2, <2>3, <3>1 DEF PlanInv, LabelsAreTrue
  <2>11. StatesAreLabelled' /\ DestroyIsNotRefused'
    BY <1>1, <2>2, <2>3 DEF PlanInv, StatesAreLabelled, DestroyIsNotRefused
  <2>12. TrackedNamespacesAreNamed'
    BY <1>1, <2>2, <2>4 DEF PlanInv, TrackedNamespacesAreNamed, Stored
  <2> QED BY <2>6, <2>7, <2>8, <2>9, <2>10, <2>11, <2>12 DEF PlanInv
<1> QED BY <1>2, <1>3 DEF StoreForm

\* Documents of the start are completed ones, and no state has anything.
LEMMA InitPlan ==
    PlanInit => PlanInv
<1> SUFFICES ASSUME PlanInit PROVE PlanInv
  OBVIOUS
<1>1. PlanTypeOK
  <2>1. PICK owners \in [(Env \cup {"shared"}) \X {Shop} -> {"nobody"}] : owner = owners
    BY DEF PlanInit
  <2>2. DOMAIN owner = (Env \cup {"shared"}) \X {Shop} /\ \A x \in DOMAIN owner : owner[x] = "nobody"
    BY <2>1
  <2>3. owner \in [DOMAIN owner -> Env \cup {"nobody"}]
    BY <2>1, <2>2
  <2>4. config \in [Env -> Documents \cup {NoDoc}]
    BY DEF PlanInit
  <2> QED BY <2>2, <2>3, <2>4, ShopIsNamespace DEF PlanInit, PlanTypeOK
<1>2. \A x \in DOMAIN owner : owner[x] = "nobody" /\ x[2] = Shop
  <2>1. DOMAIN owner = (Env \cup {"shared"}) \X {Shop} /\ \A x \in DOMAIN owner : owner[x] = "nobody"
    BY DEF PlanInit
  <2> QED BY <2>1
<1>3. (NothingIsFirst /\ FormsFit /\ JobsFit /\ LabelsAreTrue /\ StatesAreLabelled)
  BY <1>2 DEF PlanInit, NothingIsFirst, FormsFit, JobsFit, LabelsAreTrue, StatesAreLabelled
<1>4. (DestroysAreManaged /\ TrackedNamespacesAreNamed /\ DestroyIsNotRefused)
  BY DEF PlanInit, DestroysAreManaged, TrackedNamespacesAreNamed, DestroyIsNotRefused, Stored
<1> QED BY <1>1, <1>3, <1>4 DEF PlanInv

\* The invariant is inductive: one lemma for each action.
LEMMA NextPlan ==
    PlanInv /\ [PlanNext]_planVars => PlanInv'
<1> SUFFICES ASSUME PlanInv, [PlanNext]_planVars PROVE PlanInv'
  OBVIOUS
<1>1. CASE UNCHANGED planVars
  <2>1. PlanTypeOK' /\ FormsFit'
    BY <1>1 DEF planVars, PlanInv, PlanTypeOK, FormsFit
  <2>2. (NothingIsFirst /\ JobsFit /\ LabelsAreTrue /\ StatesAreLabelled)'
    BY <1>1 DEF planVars, PlanInv, NothingIsFirst, JobsFit, LabelsAreTrue, StatesAreLabelled, Exists, Cluster
  <2>3. (DestroysAreManaged /\ TrackedNamespacesAreNamed /\ DestroyIsNotRefused)'
    BY <1>1 DEF planVars, PlanInv, DestroysAreManaged, TrackedNamespacesAreNamed, DestroyIsNotRefused,
       Exists, Cluster, Stored
  <2> QED BY <2>1, <2>2, <2>3 DEF PlanInv
<1>2. CASE \E e \in Env : \/ CreateEnvironment(e) \/ OpenForm(e)
                        \/ StartTask(e) \/ LoadTask(e) \/ SaveTask(e) \/ LookUp(e) \/ Import(e)
                        \/ PlanStage(e) \/ Apply(e) \/ ApplyFails(e) \/ TaskFails(e)
  BY <1>2, CreateEnvironmentPlan, OpenFormPlan, StartTaskPlan, LoadTaskPlan, SaveTaskPlan, LookUpPlan,
     ImportPlan, PlanStagePlan, ApplyPlan, ApplyFailsPlan, TaskFailsPlan
<1>3. CASE \E e \in Env : \/ RemoveComponents(e) \/ Detach(e) \/ DeleteNamespaces(e)
                        \/ DestroyPlatform(e) \/ DestroyCluster(e)
  BY <1>3, RemoveComponentsPlan, DetachPlan, DeleteNamespacesPlan, DestroyPlatformPlan, DestroyClusterPlan
<1>4. CASE \E f \in form : CheckForm(f) \/ StoreForm(f)
  BY <1>4, CheckFormPlan, StoreFormPlan
<1> QED BY <1>1, <1>2, <1>3, <1>4 DEF PlanNext

\* PlanInv holds in every reachable state.
THEOREM PlanInvariant ==
    PlanSpec => []PlanInv
<1> QED BY InitPlan, NextPlan, PTL DEF PlanSpec

\* No two environments on one cluster have the same namespace in their states, every
\* namespace in a state is named by its document, and a destroy that has been admitted is
\* not refused for its document.
THEOREM NamespacesAgreeHolds ==
    PlanSpec => []NamespacesAgree
<1>1. PlanInv => OneOwner
  <2> SUFFICES ASSUME PlanInv, NEW e \in Stored, NEW f \in Stored, e # f, Cluster(e) = Cluster(f),
                      NEW n \in inState[e] \cap inState[f]
               PROVE  n = Shop
    BY DEF OneOwner
  <2>1. e \in Env /\ f \in Env
    BY DEF Stored
  <2>2. config[e].target = "existing_eks" /\ config[f].target = "existing_eks"
    BY <2>1, ClusterFacts
  <2>3. Exists(e, n) /\ Exists(f, n)
    BY <2>1, <2>2 DEF PlanInv, StatesAreLabelled
  <2>4. n # Shop => owner[<<Cluster(e), n>>] = e /\ owner[<<Cluster(f), n>>] = f
    BY <2>1, <2>3 DEF PlanInv, StatesAreLabelled
  <2> QED BY <2>4
<1>2. PlanInv => NamespacesAgree
  BY <1>1 DEF PlanInv, NamespacesAgree
<1> QED BY PlanInvariant, <1>2, PTL
===============================================================================
