------------------------------ MODULE PipelineSync -----------------------------
(***************************************************************************)
(* One pipeline job whose Jenkinsfile the platform generates               *)
(* (internal/cicd/service.go, internal/httpapi/cicd.go): its row in        *)
(* cicd_jobs, the Jenkinsfile in the delivery repository and the job in    *)
(* Jenkins.  Saving, synchronizing, rotating the webhook secret and        *)
(* deleting are requests that read the whole row and write the whole row   *)
(* back, with calls of GitLab and Jenkins in between; nothing locks it.    *)
(*                                                                         *)
(* A config stands for all that the form edits.  The notification          *)
(* parameters and the pinned repositories follow from it.                  *)
(***************************************************************************)
EXTENDS Naturals

CONSTANTS
    RowRequests,    \* requests being handled at a time
    MaxConfigs,     \* bound on the edits of the job
    MaxSecrets      \* bound on the rotations of the webhook secret

ASSUME PipelineSyncAssumption == MaxConfigs \in Nat /\ MaxSecrets \in Nat

VARIABLES
    jobRow,         \* the row, or NoPipeline
    jenkinsfile,    \* the config in the committed Jenkinsfile, 0 for none
    jenkins,        \* the config of the job in Jenkins, 0 for none
    handled,        \* what each request does
    issued,         \* the webhook secret shown last, 0 for none
    configs,        \* configs given out
    crossed         \* a request wrote what another one had overtaken

pipelineVars == <<jobRow, jenkinsfile, jenkins, handled, issued, configs, crossed>>

NoPipeline == [config |-> 0, status |-> "none", secret |-> 0]
\* stale: the row has changed since the request read its copy;
\* committed: the config whose Jenkinsfile it has committed.
NotHandling == [at |-> "none", copy |-> NoPipeline, stale |-> FALSE, committed |-> 0]
HasRow == jobRow # NoPipeline

RequestAt(r, stage) == handled[r].at = stage
GoesOn(r, stage) == handled' = [handled EXCEPT ![r].at = stage]
Over(r) == handled' = [handled EXCEPT ![r] = NotHandling]
FailsAt(r) == GoesOn(r, "record")

\* GetCICDJob; without a row the handler answers with an error.
Reads(r, stage) ==
    IF HasRow
    THEN handled' = [handled EXCEPT ![r].at = stage, ![r].copy = jobRow, ![r].stale = FALSE]
    ELSE Over(r)

\* The row becomes another one, and the request what `then' says.
Becomes(r, row, then) ==
    /\ jobRow' = row
    /\ handled' = [q \in RowRequests |->
                     IF q = r THEN then ELSE [handled[q] EXCEPT !.stale = @ \/ row # jobRow]]

\* SaveCICDJob, an upsert of every column.
Writes(r, row, then) == Becomes(r, row, then) /\ crossed' = (crossed \/ handled[r].stale)
\* The request reads the row again right after it has written it.
WritesOn(r, row, stage) ==
    Writes(r, row, [handled[r] EXCEPT !.at = stage, !.copy = row, !.stale = FALSE])

-------------------------------------------------------------------------------
(* SaveJob: the form, with the secret of the row there is.                 *)

Save(r) ==
    /\ RequestAt(r, "none") /\ configs < MaxConfigs
    /\ configs' = configs + 1
    /\ handled' = [handled EXCEPT ![r].at = "save", ![r].stale = FALSE,
                                  ![r].copy = [jobRow EXCEPT !.config = configs + 1]]
    /\ UNCHANGED <<jobRow, jenkinsfile, jenkins, issued, crossed>>

\* Mutant: a saved form keeps the status of the row.
KeepStatus(copy, existing) == [copy EXCEPT !.status = existing.status, !.secret = existing.secret]
\* What SaveJob writes, given the row it has found.
Saved(copy, existing) == [copy EXCEPT !.status = "pending", !.secret = existing.secret]

WriteForm(r) ==
    /\ RequestAt(r, "save")
    /\ WritesOn(r, Saved(handled[r].copy, handled[r].copy), "pinSaved")
    /\ UNCHANGED <<jenkinsfile, jenkins, issued, configs>>

\* PrepareGeneratedJobRepositories: with a credential that is missing or not ready
\* the status stays as it is.
Pinned(copy) == {copy, [copy EXCEPT !.status = "pending"]}

\* Where it is called, and what follows.
After == [pinSaved |-> "none", pinAgain |-> "provision", pin |-> "commit", pinJob |-> "upsert"]

Pin(r) ==
    /\ handled[r].at \in DOMAIN After
    /\ LET next == After[handled[r].at]
       IN \E row \in Pinned(handled[r].copy) :
            IF next = "none" THEN Writes(r, row, NotHandling) ELSE WritesOn(r, row, next)
    /\ UNCHANGED <<jenkinsfile, jenkins, issued, configs>>

-------------------------------------------------------------------------------
(* syncCICDJob.                                                            *)

Synchronize(r) ==
    /\ RequestAt(r, "none") /\ HasRow
    /\ GoesOn(r, "credentials")
    /\ UNCHANGED <<jobRow, jenkinsfile, jenkins, issued, configs, crossed>>

\* The credentials of source, Jenkinsfile and manifests, and of the notification
\* channel, are written to Jenkins; then SetManagedJobParameter reads the row.
PutCredentials(r) ==
    /\ RequestAt(r, "credentials")
    /\ Reads(r, "parameter") \/ FailsAt(r)
    /\ UNCHANGED <<jobRow, jenkinsfile, jenkins, issued, configs, crossed>>

\* Two parameters are set one after the other for a channel.
SetManagedJobParameter(r) ==
    /\ RequestAt(r, "parameter")
    /\ \E next \in {"parameter", "delivery"} : WritesOn(r, handled[r].copy, next)
    /\ UNCHANGED <<jenkinsfile, jenkins, issued, configs>>

\* The managed credential is put in place, and the copy is saved with it: SaveJob
\* takes the secret of the row, the rest of the copy.
PutDeliveryCredential(r) ==
    /\ RequestAt(r, "delivery")
    /\ \/ GoesOn(r, "resave")
       \/ GoesOn(r, "provision")
       \/ FailsAt(r)
    /\ UNCHANGED <<jobRow, jenkinsfile, jenkins, issued, configs, crossed>>

SaveAgain(r) ==
    /\ RequestAt(r, "resave")
    /\ WritesOn(r, Saved(handled[r].copy, jobRow), "pinAgain")
    /\ UNCHANGED <<jenkinsfile, jenkins, issued, configs>>

Provision(r) ==
    /\ RequestAt(r, "provision")
    /\ Reads(r, "pin") \/ FailsAt(r)
    /\ UNCHANGED <<jobRow, jenkinsfile, jenkins, issued, configs, crossed>>

\* SyncJobJenkinsfile; its answer may get lost.
CommitJenkinsfile(r) ==
    /\ RequestAt(r, "commit")
    /\ \/ /\ jenkinsfile' = handled[r].copy.config
          /\ crossed' = (crossed \/ handled[r].copy.config # jobRow.config)
          /\ \/ handled' = [handled EXCEPT ![r].at = "prepare",
                                           ![r].committed = handled[r].copy.config]
             \/ FailsAt(r)
       \/ FailsAt(r) /\ UNCHANGED <<jenkinsfile, crossed>>
    /\ UNCHANGED <<jobRow, jenkins, issued, configs>>

\* SyncJob begins with PrepareGeneratedJobRepositories.
Prepare(r) ==
    /\ RequestAt(r, "prepare") /\ Reads(r, "pinJob")
    /\ crossed' = (crossed \/ (HasRow /\ jobRow.config # handled[r].committed))
    /\ UNCHANGED <<jobRow, jenkinsfile, jenkins, issued, configs>>

\* The status after the call of Jenkins.
Outcome(answered) == IF answered THEN "ready" ELSE "failed"

\* upsertJob with the credentials' ids, which fails for one that is not ready.
UpsertJob(r) ==
    /\ RequestAt(r, "upsert")
    /\ \E done, answered \in BOOLEAN :
         /\ answered => done
         /\ jenkins' = IF done THEN handled[r].copy.config ELSE jenkins
         /\ crossed' = (crossed \/ (done /\ handled[r].copy.config # jobRow.config))
         /\ handled' = [handled EXCEPT ![r].at = "finish", ![r].copy.status = Outcome(answered)]
    /\ UNCHANGED <<jobRow, jenkinsfile, issued, configs>>

Finish(r) ==
    /\ RequestAt(r, "finish") /\ Writes(r, handled[r].copy, NotHandling)
    /\ UNCHANGED <<jenkinsfile, jenkins, issued, configs>>

\* RecordJobSyncStageFailure
RecordFailure(r) ==
    /\ RequestAt(r, "record") /\ Reads(r, "fail")
    /\ UNCHANGED <<jobRow, jenkinsfile, jenkins, issued, configs, crossed>>

WriteFailure(r) ==
    /\ RequestAt(r, "fail")
    /\ Writes(r, [handled[r].copy EXCEPT !.status = "failed"], NotHandling)
    /\ UNCHANGED <<jenkinsfile, jenkins, issued, configs>>

-------------------------------------------------------------------------------
(* RotateWebhookSecret, DeleteJob, and the end of a request.               *)

Rotate(r) ==
    /\ RequestAt(r, "none") /\ HasRow /\ issued < MaxSecrets
    /\ Reads(r, "rotate")
    /\ UNCHANGED <<jobRow, jenkinsfile, jenkins, issued, configs, crossed>>

WriteSecret(r) ==
    /\ RequestAt(r, "rotate") /\ issued < MaxSecrets
    /\ Writes(r, [handled[r].copy EXCEPT !.secret = issued + 1], NotHandling)
    /\ issued' = issued + 1
    /\ UNCHANGED <<jenkinsfile, jenkins, configs>>

\* With or without the job in Jenkins; the row of a job is kept when the latter
\* cannot be deleted.
DeleteJob(r) ==
    /\ RequestAt(r, "none") /\ HasRow
    /\ jenkins' \in {0, jenkins}
    /\ Reads(r, "erase")
    /\ UNCHANGED <<jobRow, jenkinsfile, issued, configs, crossed>>

\* The row may stay although the job in Jenkins is gone.
EraseRow(r) ==
    /\ RequestAt(r, "erase")
    /\ \/ Becomes(r, NoPipeline, NotHandling) /\ issued' = 0 /\ UNCHANGED crossed
       \/ Over(r) /\ crossed' = TRUE /\ UNCHANGED <<jobRow, issued>>
    /\ UNCHANGED <<jenkinsfile, jenkins, configs>>

\* The client hangs up, which cancels the context of all that is still to do, or a
\* call of the database fails.
ClientGone(r) ==
    /\ handled[r].at \notin {"none", "erase"} /\ Over(r)
    /\ UNCHANGED <<jobRow, jenkinsfile, jenkins, issued, configs, crossed>>

PipelineInit ==
    /\ jobRow = NoPipeline /\ jenkinsfile = 0 /\ jenkins = 0
    /\ handled = [r \in RowRequests |-> NotHandling]
    /\ issued = 0 /\ configs = 0 /\ crossed = FALSE

PipelineNext ==
    \E r \in RowRequests :
        \/ Save(r) \/ WriteForm(r) \/ Pin(r)
        \/ Synchronize(r) \/ PutCredentials(r) \/ SetManagedJobParameter(r)
        \/ PutDeliveryCredential(r) \/ SaveAgain(r) \/ Provision(r)
        \/ CommitJenkinsfile(r) \/ Prepare(r) \/ UpsertJob(r) \/ Finish(r)
        \/ RecordFailure(r) \/ WriteFailure(r)
        \/ Rotate(r) \/ WriteSecret(r) \/ DeleteJob(r) \/ EraseRow(r) \/ ClientGone(r)

PipelineSpec == PipelineInit /\ [][PipelineNext]_pipelineVars

-------------------------------------------------------------------------------
(* Properties.                                                             *)

\* "A saved definition is not deployable until the corresponding GitLab Jenkinsfile
\* and Jenkins Job have both been synchronized again": a row that is ready, which
\* is all TriggerBuild asks for, is what both hold, wherever requests fail.
ReadyMeansSynchronized ==
    jobRow.status = "ready" => jobRow.config = jenkinsfile /\ jobRow.config = jenkins

\* The secret shown last is the one the webhook is checked with.
NewestSecretIsAccepted == HasRow => jobRow.secret = issued

\* Both, unless a request has written what another had overtaken, or while the job
\* is being deleted.
PipelineFollowsRow ==
    \/ crossed \/ \E r \in RowRequests : RequestAt(r, "erase")
    \/ ReadyMeansSynchronized /\ NewestSecretIsAccepted
===============================================================================
