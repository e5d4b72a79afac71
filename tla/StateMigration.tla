----------------------------- MODULE StateMigration -----------------------------
(***************************************************************************)
(* How the Terraform state of one environment and stage reaches the        *)
(* central state bucket (internal/runner/deployment.go, terraformInit and  *)
(* terraformWorkspace), and how an administrator changes that bucket       *)
(* (internal/httpapi/statebackend.go).                                     *)
(*                                                                         *)
(* Copies of the state: the workspace file of an old local deployment, the *)
(* staged copy on the platform's volume, the archives, the quarantine, the *)
(* object in the project's legacy bucket, and one object in each central   *)
(* bucket.  A job reads and moves them one at a time and may die between   *)
(* any two steps.  Terraform and S3 are external.                          *)
(***************************************************************************)
EXTENDS Naturals, FiniteSets

CONSTANTS
    Centres,        \* central buckets an administrator can name
    Lineages,       \* lineages of the states that existed before
    MaxSerial,      \* bound on the serials of those states
    MaxApplies      \* bound on the Terraform runs

ASSUME StateMigrationAssumption ==
    /\ MaxSerial \in Nat \ {0} /\ MaxApplies \in Nat
    /\ Centres \cap (Lineages \cup {"none"}) = {}
    /\ "none" \notin Lineages

Content == {"empty", "data", "managed"}     \* the resources of a state
Absent  == [lineage |-> "none", serial |-> 0, content |-> "empty"]
OldState == [lineage : Lineages, serial : 1 .. MaxSerial, content : {"data", "managed"}]
AnyState == [lineage : Lineages \cup Centres \cup {"none"},
             serial : 0 .. MaxSerial + MaxApplies + 1, content : Content]

VARIABLES
    localState, staged, legacy, orphan,     \* one copy each, or Absent
    remote,         \* the object in each central bucket, or Absent
    archives,       \* the archived copies
    world,          \* the state that describes what exists in AWS
    metadata,       \* the bucket the metadata file names, or "none"
    owned,          \* the environment has a document
    centre,         \* the bucket of the stored configuration
    proposal,       \* the bucket a save is verifying, or "none"
    backend,        \* the bucket of the running job
    stage,          \* where the job is
    applies

files == <<localState, staged, orphan, archives>>
admin == <<centre, proposal>>
migrationVars == <<files, legacy, remote, world, metadata, owned, admin, backend, stage, applies>>

Managed(s) == s.content = "managed"

-------------------------------------------------------------------------------
(* A job.  Its bucket is read once, when Run starts.                       *)

Abandon == stage' = "none" /\ backend' = "none"

OpenBackend ==
    /\ stage = "none" /\ owned
    /\ stage' = "local" /\ backend' = centre
    /\ UNCHANGED <<files, legacy, remote, world, metadata, owned, admin, applies>>

\* Mutant: a copy already there is overwritten.
MoveOver(destination) == localState
\* moveSensitiveStateFile, atomic by rename.
MoveTo(destination) == IF destination \in {Absent, localState} THEN localState ELSE destination
MovedAway(destination) == IF destination \in {Absent, localState} THEN Absent ELSE localState

\* stageAllLegacyLocalStates: a different copy in the staging area ends the job.
StageLocal ==
    /\ stage = "local"
    /\ IF localState = Absent
         THEN stage' = "legacy" /\ UNCHANGED <<localState, staged, backend>>
         ELSE /\ staged' = MoveTo(staged) /\ localState' = MovedAway(staged)
              /\ IF localState' = Absent THEN stage' = "legacy" /\ UNCHANGED backend
                                         ELSE Abandon
    /\ UNCHANGED <<orphan, archives, legacy, remote, world, metadata, owned, admin, applies>>

\* The same function in a job of another environment: every workspace is moved.
StageByOther ==
    /\ localState # Absent /\ stage # "local"
    /\ IF owned THEN staged' = MoveTo(staged) /\ localState' = MovedAway(staged)
                     /\ UNCHANGED orphan
                ELSE orphan' = MoveTo(orphan) /\ localState' = MovedAway(orphan)
                     /\ UNCHANGED staged
    /\ UNCHANGED <<archives, legacy, remote, world, metadata, owned, admin, backend, stage,
                   applies>>

\* Mutant: the serials are not compared.
ConflictOfLineage == staged # Absent /\ staged.lineage # legacy.lineage
LegacyConflict == /\ staged # Absent
                  /\ staged.lineage # legacy.lineage \/ staged.serial > legacy.serial

\* stageLegacyRemoteState up to the archive of a superseded staged copy.
CompareLegacy ==
    /\ stage = "legacy"
    /\ CASE metadata = backend \/ legacy = Absent ->
              stage' = "workspace" /\ UNCHANGED <<staged, archives, backend>>
         [] metadata # backend /\ legacy # Absent /\ LegacyConflict ->
              Abandon /\ UNCHANGED <<staged, archives>>
         [] OTHER ->
              /\ stage' = "restage" /\ UNCHANGED backend
              /\ archives' = archives \cup ({staged} \ {Absent})
              /\ staged' = Absent
    /\ UNCHANGED <<localState, orphan, legacy, remote, world, metadata, owned, admin, applies>>

StageLegacy ==
    /\ stage = "restage"
    /\ staged' = legacy
    /\ stage' = "workspace"
    /\ UNCHANGED <<localState, orphan, archives, legacy, remote, world, metadata, owned, admin,
                   backend, applies>>

\* terraform workspace select, or new: serial one and no resources.
Pristine == [lineage |-> backend, serial |-> 1, content |-> "empty"]
SelectWorkspace ==
    /\ stage = "workspace"
    /\ remote' = [remote EXCEPT ![backend] = IF @ = Absent THEN Pristine ELSE @]
    /\ stage' = "migrate"
    /\ UNCHANGED <<files, legacy, world, metadata, owned, admin, backend, applies>>

\* decideTerraformStateMigration
Decision(loc, rem) ==
    IF ~Managed(loc) THEN "archive"
    ELSE IF rem.content = "empty" /\ rem.serial <= 1 THEN "push"
    ELSE IF rem.lineage # loc.lineage THEN "conflict"
    ELSE IF rem.serial < loc.serial THEN "localNewer" ELSE "archive"

\* migrateLocalStateToS3: compare, and push when the workspace is pristine.
Migrate ==
    /\ stage = "migrate"
    /\ \/ staged = Absent /\ stage' = "record" /\ UNCHANGED <<remote, backend>>
       \/ staged # Absent /\ Decision(staged, remote[backend]) = "archive"
          /\ stage' = "archive" /\ UNCHANGED <<remote, backend>>
       \/ staged # Absent /\ Decision(staged, remote[backend]) = "push"
          /\ remote' = [remote EXCEPT ![backend] = staged]
          /\ stage' = "archive" /\ UNCHANGED backend
       \/ staged # Absent /\ Decision(staged, remote[backend]) \in {"conflict", "localNewer"}
          /\ Abandon /\ UNCHANGED remote
    /\ UNCHANGED <<files, legacy, world, metadata, owned, admin, applies>>

\* archiveMigratedLocalState: the archive is written, then the copy is removed.
ArchiveStaged ==
    /\ stage = "archive"
    /\ archives' = archives \cup {staged}
    /\ stage' = "retire"
    /\ UNCHANGED <<localState, staged, orphan, legacy, remote, world, metadata, owned, admin,
                   backend, applies>>

RetireStaged ==
    /\ stage = "retire"
    /\ staged' = Absent
    /\ stage' = "record"
    /\ UNCHANGED <<localState, orphan, archives, legacy, remote, world, metadata, owned, admin,
                   backend, applies>>

\* persistRemoteStateMetadata
RecordMetadata ==
    /\ stage = "record"
    /\ metadata' = backend
    /\ stage' = "plan"
    /\ UNCHANGED <<files, legacy, remote, world, owned, admin, backend, applies>>

\* terraform apply or destroy, complete or not, on the state of this job's bucket.
RunTerraform ==
    /\ stage = "plan" /\ applies < MaxApplies
    /\ applies' = applies + 1
    /\ \E c \in Content :
         remote' = [remote EXCEPT ![backend].serial = @ + 1, ![backend].content = c]
    /\ world' = remote'[backend]
    /\ Abandon
    /\ UNCHANGED <<files, legacy, metadata, owned, admin>>

\* A cancel, the deadline, a failed command or the death of the process.
InterruptMigration ==
    /\ stage # "none"
    /\ Abandon
    /\ UNCHANGED <<files, legacy, remote, world, metadata, owned, admin, applies>>

-------------------------------------------------------------------------------
(* Around the jobs.                                                        *)

\* saveTerraformStateCenter: another bucket is refused while a metadata file
\* names the current one; the verification in AWS takes up to 45 seconds.
CheckCentre(b) ==
    /\ proposal = "none" /\ b # centre
    /\ metadata # centre
    /\ proposal' = b
    /\ UNCHANGED <<files, legacy, remote, world, metadata, owned, centre, backend, stage, applies>>

SaveCentre ==
    /\ proposal # "none"
    /\ centre' = proposal /\ proposal' = "none"
    /\ UNCHANGED <<files, legacy, remote, world, metadata, owned, backend, stage, applies>>

\* The environment of a quarantined or waiting workspace is created.
CreateOwner ==
    /\ ~owned /\ owned' = TRUE
    /\ UNCHANGED <<files, legacy, remote, world, metadata, admin, backend, stage, applies>>

\* The metadata file is missing or does not parse (another data directory).
LoseMetadata ==
    /\ stage = "none" /\ metadata # "none"
    /\ metadata' = "none"
    /\ UNCHANGED <<files, legacy, remote, world, owned, admin, backend, stage, applies>>

\* An earlier job may have left a staged copy.  Two copies of one lineage and
\* serial are the same state, and the newest copy of a lineage describes what
\* exists in AWS.
MigrationInit ==
    /\ localState \in OldState \cup {Absent}
    /\ legacy \in OldState \cup {Absent}
    /\ staged \in OldState \cup {Absent}
    /\ world \in {localState, legacy, staged}
    /\ \A c, e \in {localState, legacy, staged} :
         /\ c.lineage = e.lineage /\ c.serial = e.serial => c = e
         /\ c.lineage = world.lineage => c.serial <= world.serial
         /\ world = Absent => c = Absent
    /\ orphan = Absent /\ archives = {}
    /\ remote = [b \in Centres |-> Absent]
    /\ metadata = "none" /\ proposal = "none" /\ centre \in Centres
    /\ owned \in BOOLEAN
    /\ backend = "none" /\ stage = "none" /\ applies = 0

Relocate == \/ OpenBackend \/ StageLocal \/ CompareLegacy \/ StageLegacy \/ SelectWorkspace
            \/ Migrate \/ ArchiveStaged \/ RetireStaged \/ RecordMetadata \/ RunTerraform
            \/ InterruptMigration
Around   == \/ \E b \in Centres : CheckCentre(b)
            \/ SaveCentre \/ StageByOther \/ CreateOwner \/ LoseMetadata
MigrationNext == Relocate \/ Around
MigrationSpec == MigrationInit /\ [][MigrationNext]_migrationVars

-------------------------------------------------------------------------------
(* Properties.                                                             *)

Copies == {localState, staged, legacy, orphan} \cup archives \cup {remote[b] : b \in Centres}

\* Whatever step a job dies at, some copy describes what exists in AWS.
WorldIsDescribed == world # Absent => world \in Copies

\* "Protects the S3 state from a stale local copy ... stale local resources
\* cannot be resurrected": Terraform runs on the state that describes AWS, or
\* both are without resources, as long as no other bucket has a state and none is
\* in quarantine.
Current == remote[backend] = world \/ (~Managed(remote[backend]) /\ ~Managed(world))
RunsOnCurrentState ==
    (stage = "plan" /\ orphan = Absent /\ \A b \in Centres \ {backend} : remote[b] = Absent) => Current

\* The metadata file names a bucket that has a state.
MetadataNamesState == metadata # "none" => remote[metadata] # Absent

\* Nothing that exists is without a state, and nothing is looked for in a bucket without one.
StatesAreAccountedFor == WorldIsDescribed /\ MetadataNamesState
===============================================================================
