# A verification project for the AWSInfra deployment platform

AWSInfra is one Go process that manages the AWS environments of several
projects: it keeps their configuration, runs Terraform, the AWS CLI, kubectl and
Helm as jobs, drives Jenkins and GitLab, and shows what is in the clusters. This
directory holds TLA+ models of its concurrent and crash-prone parts, TLC
configurations that check them on small instances, and TLAPS proofs that hold for
every value of the constants. Paths below are relative to the repository.

1. [The system](#1-the-system)
2. [What is modelled, and where](#2-what-is-modelled-and-where)
3. [The runs](#3-the-runs)
4. [The proofs](#4-the-proofs)
5. [Divergences found](#5-divergences-found)
6. [Abstractions and limits](#6-abstractions-and-limits)
7. [Plan](#7-plan)
8. [How to run it](#8-how-to-run-it)

## 1. The system

    browser ──HTTP──> httpapi.Server ──> jobs.Manager ──> runner.Deployment ──> terraform, aws, kubectl, helm
                          │   │               │                  │
                          │   │               └── deployment_jobs (MySQL), current job (Redis)
                          │   ├── access, environment.Repository: MySQL rows and YAML mirror files
                          │   ├── project_deletion: state-metadata files + job history = the deletion gate
                          │   ├── cicd, gitlab ──> Jenkins (through kubetunnel), GitLab
                          │   └── status.Service ──> operationalCache ──> aws, kubectl
                          └── auth sessions, staticcdn, statebackend, ...
    shell ──`ops-deploy deploy ...`──> a second jobs.Manager on the same tables
    shell ──`platform-deploy`, `terraform-state-unlock`──> a ConfigMap, an object in S3

All components live in one process and call each other directly. What they share
is MySQL, Redis, the data directory, AWS, the clusters, GitLab and Jenkins.
Handlers of HTTP requests are goroutines; none of them holds a lock or a
transaction across several stores. The hard behaviour is in what may happen
between two of their writes.

| Component (source) | State | Operations | What is hard | What makes it correct |
|---|---|---|---|---|
| Task manager (`internal/jobs/manager.go`) | job map, cancel functions, bounded channel of ids, table `deployment_jobs` | Submit, Cancel, Ignore, DeleteHistory, worker loop, progress, completion, pruning, load | the id is sent after the lock is released; ids outlive their jobs in the channel; writes whose result is ignored; a crash at any step | one unfinished job per environment; no job stranded; running jobs can be canceled; nothing unfinished is forgotten by the table; finished is final |
| Command line (`cmd/ops-deploy/main.go`) | a second manager over the same table | deploy, plan, destroy, ... | two processes, one table, two locks | the mutual exclusion the configuration manual promises |
| Environment repository, project records, deletion gate (`internal/environment/repository.go`, `internal/access`, `internal/httpapi/project_deletion.go`, handlers of `server.go`) | document row, mirror file, record, state metadata, job history | create, save, delete, teardown, delete project, submit, retry, bootstrap at start | check-then-write without a transaction; metadata refreshed under the job's own context; history is half of the gate and can be erased; compensating writes | an environment that owns AWS resources keeps the document it is destroyed with |
| Environment defaults (`internal/environment/defaults.go`, `internal/httpapi/node_group_scheduling.go`) | the document's content | upgrade, check of a save, the runner's own save | every default must agree with what Terraform made of the missing field; whether a cluster exists is guessed from the history | an old environment goes on as it ran; deployed node groups stay |
| Observation cache (`internal/status/operational_cache.go`) | entries, calls in flight | load, delete, deleteTarget | coalesced and nested loads, hang-ups, invalidation during a load | one loader per key; no waiter is left; no answer goes back in time; every request returns |
| Cluster stage (`internal/runner/deployment.go`) | network, cluster, node groups, cache; what Terraform recorded of them | adopt, check the quota, plan, apply, destroy, clean up | Terraform killed between AWS and its state; the document, the console and the autoscaler change what was read | AWS refuses nothing because of what is there; the plan fits; console entries stay |
| Namespaces of components (`internal/environment/target.go`, `defaults.go`, runner) | documents, labels on namespaces, Terraform states | create, clone, form, adopt, plan, destroy | two projects on one cluster; overlapping saves; adoption of what exists | no namespace in two states; the document names what the state has |
| Repair of interrupted releases (`internal/runner/deployment.go`) | Helm releases, claims, Terraform state | inspect, roll back, uninstall, delete claims | a crash while Helm works; edits between jobs | a running release is never uninstalled; Terraform meets no pending one |
| Legacy state migration (`internal/runner/deployment.go`, `internal/statebackend`) | local, staged, remote and archived Terraform states | stage, reconcile, push, archive | crash between steps; serial and lineage; a changed bucket | no state that owns resources is lost or overwritten by an older one |
| Managed storage resizing (`internal/runner/storage.go`) | StatefulSets, volumes, the document's claims | stop, copy, switch, verify, roll back | the rollback uses the context that may have failed; a patch that applied and reported an error | workload and document name the same volume; a failed resize leaves the service as it was |
| State lock, deploy lock (`internal/runner`, `cmd/terraform-state-unlock`, `internal/selfdeploy`) | an object in S3, a ConfigMap | take, release, take over | compare, then remove unconditionally | one Terraform per state, one deployment of the platform |
| Ingress editor and domain rules (`internal/status/ingress.go`, `internal/httpapi/ingress.go`, runner) | ingresses, rules of the document, Terraform's positions | save, synchronise, edit, phase two | three writers, a listing from a cache, a version that is compared and dropped | manual changes stay; the rules follow the cluster |
| Sessions and accounts (`internal/auth`, `internal/access`) | session map, user rows | login, authenticate, refresh, profile, administration | a session is read, a row is looked up, the session is stored again | a profile update survives the requests beside it; what ended stays ended |
| Tunnels (`internal/kubetunnel/manager.go`) | one port-forward process per environment | Ensure, Close | processes that exit on their own; the lock is held for up to a minute | every process can be found and ended |
| CI/CD (`internal/cicd`, `internal/persistence/cicd.go`) | connections, jobs, builds; Jenkins | trigger, retry, cancel, refresh; save, synchronise, rotate, delete | Jenkins accepts before the record exists; repeated deliveries; whole rows written back | one record per accepted build; a ready row is what Jenkins has |
| GitLab delivery (`internal/gitlab`) | binding, repository, deploy tokens | bind, provision, move, detach, rotate | ids stored between calls, answers lost, people in the same groups | nothing foreign is taken over; no token in use is revoked |
| Static CDN (`internal/staticcdn/service.go`) | one record per bucket; S3, CloudFront | create, refresh, delete | several requests to AWS, repeated until done | the record outlives everything it names |
| State backend, credential vaults, alerting, audit, catalogues, resource centre, topology, manifest archive, configuration, support commands, frontend | rows and files written one at a time | save, list, delete | little beyond I/O | – |

`PROJECT.json` lists all of them with their status, and under `hazards` the
lines at which something can go wrong that a test would hardly reach, each with
the properties that would notice and with what they leave out.

## 2. What is modelled, and where

A step of a model is what the code does without another actor being able to see
the middle: one critical section of a mutex, one statement of the database, one
command of an external program, or the reads a handler makes up to its next write.
External systems (AWS, Helm, kubectl, Jenkins, GitLab) are modelled from how the
code uses them; a command that changes something may fail, and where the code can
be misled by it, take effect and fail to say so.

### The task manager: `JobManager`, `EnvironmentExclusion`, `JobProcesses`

One step is one critical section of `Manager.mu`, one channel operation, or one
call of the runner or of the completion handler.

| Variable | Code |
|---|---|
| `status`, `cancels`, `queue` | `m.jobs`, `m.cancels`, `m.queue` |
| `stored` | rows of `deployment_jobs` |
| `request`, `created`, `clock` | the immutable fields of a job and `CreatedAt` |
| `caller` | where the goroutine inside `submit` is |
| `pc`, `holds`, `result`, `seen`, `ctx` | a worker inside `run`: position, id, `err`, `ctxErr`, the job's context |
| `cleaned` | environments removed by the completion handler |
| `up`, `crashes` | the process |

`Prepare`, `RefuseStorage`, `RefuseBusy`, `Admit` and `Enqueue` are `submit` up
to the send on the channel; `CancelQueued`, `CancelRunning`, `Ignore` and
`DeleteHistory` are the handlers' operations; `Take`, `Skip`, `Start`,
`Progress`, `RunnerReturns`, `Complete` and `Finish` are the worker; `Crash`,
`Load` and `LoadAborts` are the end of a process and the start of the next. With
`Faults` every write of a row may fail, or commit and still report an error.
`Finish` includes the pruning of old jobs.

`EnvironmentExclusion` is the abstract promise (a job is accepted only for an
idle environment, works at most once, and is over for good), which `JobManager`
implements under the mapping `Phase`/`Place` at its end. `JobProcesses` composes
two instances of `JobManager` over one table: the server and the command line.

### One environment: `EnvironmentLifecycle`

The document row with its YAML mirror, the project record, the resources the
Terraform state owns, what the metadata files say of them, the unfinished job,
the finished mutations, and the position of each HTTP handler.

| Actions | Code |
|---|---|
| `AskCreate`, `AskSave`, `WriteDoc(Fails)`, `WriteRecord(Fails)` | `createProjectEnvironment`, `saveProjectEnvironment` with their compensations |
| `AskDelete`, `PassGate`, `RemoveDoc(Fails)`, `ForgetHistory`, `RemoveRecord(Fails)` | `deleteProjectEnvironment`, `removeEnvironmentConfiguration`, `deleteProject` |
| `AskJob`, `TakeStamp`, `AdmitJob`, `Refuse` | `createJob`, `retryJob`, `jobs.Manager.submit` |
| `LoadDoc` ... `RunnerFails` | `runner.Deployment`: reading the document, writing defaults, workspace, `terraform apply`/`destroy`, metadata |
| `CompleteJob`, `CompleteDoc(Fails)`, `CompleteRecord` | `completeJob` after a teardown |
| `CancelJob`, `EraseHistory`, `Restart` | cancel or deadline, `deleteJobHistory` and pruning, `Repository.bootstrap` with the load of the jobs |

The only thing used of the task manager is what `JobManager` is proved to do:
one unfinished job per environment. What a document contains is the subject of
the next three modules, which do not need the gate.

### What a document says: `DocumentUpgrade`, `ComponentPlan`, `DomainRoutes`

`DocumentUpgrade` has the placement of node groups and of the data services,
their taints, the network's public and private subnets and the Elasticsearch heap,
each possibly missing. `ApplyDefaults` is the chain of upgrades of
`environment/defaults.go`; `Deployed(d)` is what Terraform makes of a document,
missing fields included. A save is `LoadSave`, `CheckPlan` (`free` says whether
anything spoke for a deployment: the history, a running job, a cached report) and
`StoreSave`; a job is `StartJob`, `LoadJob`, `SaveJob` (the runner writes the
upgraded document back), `ApplyJob`, `EndApply` and `FailJob`.

`ComponentPlan` has the documents of several environments as far as they name
namespaces. A namespace is a sequence of the scopes put before a base name. Forms
are opened, checked and stored over each other (`OpenForm`, `CheckForm`,
`StoreForm`), environments are created and cloned (`CreateEnvironment` with
`ConfigureTarget`), and a job loads, completes and saves the document (`LoadTask`,
`SaveTask`), asks for namespaces that exist (`LookUp`, `Import`), plans and applies;
a destroy deletes what is labelled and then the state or the cluster. Terraform's
`prevent_destroy` is the guard of `PlanStage`.

`DomainRoutes` has the rules of the document, the ingress of each name in the
cluster, the ten-second listing and Terraform's positions. Any request may read the
listing (`ReadIngresses`, `IngressesRead`), it expires, and a save, an edit or a
synchronisation drops it (`Forget`), though not one that is being read. The handler
`syncEnvironmentIngressConfig` is `StartSync`, `TakeListing` (or the listing that it
waited for), `LoadRules` and `SaveSynced`, which computes
`SyncIngressesToDomainConfigFromCluster` (`Synced`) from the rules loaded and stores
the result over whatever was saved since; `CheckEdit`, `CompareEdit` and `WriteEdit`
are the editor with its three commands; a job loads the document and saves it
completed (`StartDeployment`, `StoreDocument`, again without a version),
Terraform reads what is stored then (`PlanDeployment`) and applies it
(`DeleteIngress`, `PutIngress`).

### What jobs do: `ClusterStages`, `ReleaseRecovery`, `StateMigration`, `StorageResize`, `StateLock`

`ClusterStages` follows one job at a time through the address list, the adoption
of node groups, the quota, the plan (which reads the stored document, not the
job's copy), the preparation of the cache, the apply in the order of its
dependencies, and the destroy with its cleanup of network interfaces; beside it
documents are saved, AWS finishes groups, the plugin releases interfaces, the
console changes addresses and others use the quota.

`ReleaseRecovery` follows one Helm release through many jobs (`Inspect` to
`DeleteClaims` are the repair, `Apply...` Terraform's own step), edits and
installations by hand. `StateMigration` has every copy of one Terraform state: the
local file, the staged one, the archives, the quarantine, the legacy bucket and one
object per central bucket; `OpenBackend` to `RetireStaged` are `terraformInit` and
`terraformWorkspace`, `CheckCentre` and `SaveCentre` the administrator's change of
the bucket. `StorageResize` stops, copies, switches, saves and restarts workloads
one by one with the way back of each step; the pods, what they write and the
controller are beside it. `StateLock` has the lock object in S3, Terraform's use
of it, its removal by a job that finds it stale and by the operator's tool.

### Accounts, static sites, tunnels, the platform itself

`Sessions`: the session map and the row of one account; a request is `Ask`,
`LookUp`, `StoreSession` and then what it does (profile, password, logout), an
administrator reads the row and writes it back whole. `StaticCDN`: bucket, access
control, distribution and the row through `Create`, `Refresh` and `Delete`.
`KubeTunnel`: the map of tunnels under the mutex of `Ensure`, and the goroutines
that notice the end of a kubectl later. `DeployLock`: the ConfigMap of
`internal/selfdeploy` with the take-over of an expired one.

### Builds, pipelines, GitLab: `BuildTrigger`, `PipelineSync`, `DeployTokens`, `DeliveryRepositories`

`BuildTrigger` follows a request for a build from the look for its delivery
through Jenkins' queue to its record, with refreshes and cancels that write back
the record they read. `PipelineSync` has the row of one generated job, the
committed Jenkinsfile and the job in Jenkins; each request is a list of stages
that copy the whole row, call GitLab or Jenkins and write the row. `DeployTokens`
is the rotation of the token Jenkins clones with; `DeliveryRepositories` the
binding of a project to the repository it generates, with people who create, push
and move repositories in the same groups.

### Observations: `OperationalCache`, `CacheInvalidation`

`loadOperationalValue` as each request goes through it: hit, join, lead, the
loader with its nested request for the cluster's credentials
(`kubernetesContext`), publish, wake, give up. The value of a view is the number
of the cluster change it was read after. `due` and `asked` are history variables
for `AnswersNeverGoBack`. `CacheInvalidation` adds what an invalidation ought to
achieve.

### Modules for TLC and for proofs

`MCJobManager`, `MCJobSettings`, `MCOperationalCache`, `MCEnvironmentLifecycle`,
`MCNamespaces` and `MCDomainRoutes` are small instances; `MCRecords` and
`MCOperations` put components that share no state into one run each (section 3).
The eight modules `*Proofs` hold theorems and the lemmas under them.
Definitions whose comment begins with "Mutant" are plausible mistakes: each
property was seen to fail when one of them replaces the definition beneath it.

## 3. The runs

| Run | Configuration | Properties |
|---|---|---|
| `job_settings` | `MCJobSettings`, `JobSettings.cfg` | `TypeOK`, `OneWorkerPerEnvironment`, `NoJobIsStranded`, `ActiveIsDurable`, `SuccessMeansCleaned`, `SoundMemory`, the refinement `KeepsEnvironmentsExclusive`, `OverStaysOver` |
| `job_liveness` | `MCJobManager`, `JobLiveness.cfg` | `EverySubmissionEnds` under fairness |
| `cache_flights` | `MCOperationalCache`, `CacheFlights.cfg` | `SingleFlight`, `AnswersNeverGoBack`, `RequestsReturn` under fairness |
| `records` | `MCRecords`, `Records.cfg` | the rows that handlers read, check and write back (below) |
| `component_operations` | `MCOperations`, `ComponentOperations.cfg` | the operations that span many external commands (below) |
| `job_processes`, `cache_invalidation`, `environment_race`, `retry_answers`, `storage_report`, `namespace_scopes`, `ingress_sync` | one each | one property each, which the code violates (section 5) |

`job_settings` has two settings, one of which is chosen at the start: `sound`
(three jobs, no failing write, one crash) and `faulty` (two jobs that deploy or
destroy, every write may fail or commit and report an error, two crashes).
`MCEnvironmentLifecycle` has three in the same way, `gate`, `faults` and `erased`.

Components that share no state are checked in one run with a variable `part`: it
is chosen at the start, only that part moves, and the `VIEW` is its state, so a
run explores the sum of the parts and not their product. Each property speaks of
one part and is true of the first state of that part.

| Run | Part | Properties | What moves |
|---|---|---|---|
| `records` | `environments` | `GateKeepsDocuments`, `LedgerOrHistorySpeaks`, `GateKeepsTracked` | one handler at a time, create, save, deploy, destroy, tear down, delete, with cancels, half-done Terraform commands, crashes, failed writes and erasures as the setting allows |
| | `accounts` | `SessionsFollowAccount`, `EndedSessionsStayEnded` | two requests of one account beside logins, logouts, profile and password changes and an administrator |
| | `documents` | `UpgradeIsSafe`, `DeployedGroupsStay` | an old document, its upgrade by a save and by the runner, a deployment and a destroy |
| | `cluster` | `RoomIsLeft`, `NothingIsInTheWay`, `ConsoleAddressesStay` | the first stage with kills, saves, the console and the quota |
| | `routes` | `SyncFollowsCluster`, `ManualChangesStay` | rules, synchronisation, editor and phase two |
| | `tokens` | `JenkinsCanClone` | two rotations that may break off anywhere, revocations by hand |
| | `delivery` | `DeliveriesAreOwn` | two requests that bind, provision, move and detach, beside people |
| `component_operations` | `recovery` | `RunningReleasesStay`, `TerraformMeetsNoPending`, `RecoveryKeepsVolumes` | every kind of release through five jobs and three edits |
| | `migration` | `StatesAreAccountedFor`, `RunsOnCurrentState` | every combination of old copies, two buckets |
| | `resize` | `DocumentFollowsCluster`, `SwitchKeepsWrites` | two jobs over two workloads, one failing command each |
| | `statelock`, `deploylock` | `OneTerraform`, `OneDeployment` | server, command line and operator; three deployments |
| | `build` | `NothingBuildsUnseen` | two handlers, one delivery, two items |
| | `cdn` | `RowNamesEverything` | two requests, two distributions |
| | `tunnels` | `EveryTunnelIsKnown` | two callers, two environments, three processes |
| | `namespaces` | `NamespacesAgree` | two environments, on one cluster or apart |
| | `pipeline` | `PipelineFollowsRow` | two requests, two edits, one rotation of the secret |

Some properties are conjunctions of named parts, each of which has a comment of
its own beside its definition: `SessionsFollowAccount` (`ProfileUpdateKeepsSession`,
`PasswordChangeEndsSessions`), `StatesAreAccountedFor` (`WorldIsDescribed`,
`MetadataNamesState`), `NothingIsInTheWay` (`CreatesAreNew`,
`ReplicasGoWithoutFailover`, `NetworkIsFree`), `UpgradeIsSafe`
(`UpgradeKeepsWhatRuns`, `OldDocumentsRun`), `NamespacesAgree`
(`TrackedNamespacesAreNamed`, `OneOwner`, `DestroyIsNotRefused`),
`PipelineFollowsRow` (`ReadyMeansSynchronized`, `NewestSecretIsAccepted`) and
`DeliveriesAreOwn` (`NothingIsTakenOver`, `ReadyIsFilled`, `RetryFindsRepository`).

### Bounds

* *Jobs, environments, workers* (`JobSettings.cfg`: 3, 2, 2). A conflict of the
  manager needs two jobs of one environment; a third one fills the channel while
  another is being taken. Two environments are needed to see that exclusion is per
  environment.
* *`QueueCap = 1`, `HistoryLimit = 1`.* The code computes the capacity as history
  plus workers plus ten; the smallest values make a full channel and a pruning
  reachable with three jobs. `JobProcesses.cfg` uses 2.
* *Crashes* (2, 1 under fairness). One crash meets every step of a job; the second
  meets the reload itself, half of whose rows are rewritten.
* *Environments*: `MaxJobs = 3` is deploy, interrupted change and destroy;
  `MaxErasures = 2` forgets the newest row and then another; `MaxFaults = 2` is a
  failed write and a failed compensation. The process restarts at most twice in
  `gate`, once in the two settings where writes fail as well.
* *Cache*: `MaxVersion = 2`, since an answer can be older than another only if
  there are two; two views share the access key, so one request can lead the call
  of its view and wait in the call of the access.
* *Accounts*: `MaxSessions = 1` makes the limit of 20 reachable with the second
  login; two requests under way, two tokens and two changes of the row are what one
  request needs to carry a copy over another's change.
* *Documents*: one group of each role, one save, two jobs. *Cluster*: two groups,
  two addresses, sizes 0 to 2, a quota of 3 with a reserve of 2, so that what is
  wanted can exceed what is free; one save, two jobs, one change from outside.
  *Routes*: one host, two names, one path with two services to choose from, two
  rules, three operations, so that a save and a deployment or an edit fit between the
  steps of a synchronisation; `ingress_sync` has a second path and two operations.
* *Recovery*: five jobs and three edits are first installation, its interruption,
  the repair's own interruption and a second life. *Migration*: two lineages, two
  serials, two buckets: an older copy, a foreign one and a change of the bucket.
  *Resize*: two workloads (a job can fail between them), a second job after a
  failed one, one write. *Locks*: four locks and three pods; three deployments.
  *Namespaces*: at most five forms, jobs and environments together (`Bounded`).
  *GitLab*: two tokens, two repositories, one revocation, one form: each property
  is about an old and a new one.
* *Numbers run out*, so most instances come to rest: `CHECK_DEADLOCK FALSE` there.
  The cache has no such end, and its run checks deadlock.

The proofs of section 4 remove these bounds for every safety property.

### The handlers a setting leaves out

`EnvironmentLifecycle` has a constant `Operation`, the handlers that are called;
the settings of `MCEnvironmentLifecycle` differ in it because three combinations
lead to states the code does not guard against, and each hides another property:

* A *save* that passed its checks before a teardown removed the document writes it
  back, possibly without a record. A project deletion skips an environment that has
  no record, and erases the history that spoke for it. `gate` leaves save out; the
  other two settings, whose properties it does not disturb, have it.
* *deleteProject* erases the history of environments its project lists, and skips
  an environment whose record is missing. `faults`, which is about that history,
  leaves it out.
* *teardown* under failing writes: a create whose record could not be written
  takes its document back, perhaps from under a job admitted before; `erased`
  leaves teardowns out.

With two handlers at once stamps and admissions may disagree in order, and the
race of section 5 is reachable, so `records` serves one handler at a time, with
jobs, cancels, erasures and crashes beside it.

### What a property leaves out

Several components have a window that the code leaves open. The model keeps the
window, a history variable says that it was hit, and the property speaks of all
other behaviours; the hazards in `PROJECT.json` say what happens in the window.

| Variable | It is set when |
|---|---|
| `StateLock.overtaken`, `DeployLock.displaced` | a removal took away another lock than the one it had read |
| `BuildTrigger.broken` | a handler died between Jenkins' acceptance and its record |
| `StaticCDN.upset` | an AWS command took effect and its answer was lost or not saved; a Create overlapped a Create or Delete; a Refresh survived the site it asked about |
| `StorageResize.disturbed` | a job was canceled or died, or a patch took effect and reported an error |
| `PipelineSync.crossed` | a request wrote the whole row, Jenkinsfile or job from a copy that had been overtaken |
| `DeployTokens.overtakenBy`, `.byHand` | a rotation listed another's new token as old or wrote back a replaced one; people revoked a token |
| `DeliveryRepositories.lostTrack` | the id of a new repository was lost between its creation and the row |
| `Sessions`: `crossed` of a session, `keptIn` | another request stored an old copy of the session of a profile or password change |
| `DocumentUpgrade.edited`, `.exposed` | somebody edited the document since the last apply; a save found no trace of the deployment, or moved the network |
| `ClusterStages.stale`, `.late` | the document or the quota changed after the job read it; the console added an address after the job read the list |
| `DomainRoutes.manual` | holds the ingresses last written by the editor while no rule and no Terraform state had them |
| `DomainRoutes.renewed`, `sync.since` | not set but stamped: the resource version when a listing was last dropped with none being read, as it was when the synchronisation began; a change of the cluster after it (phase two's, which drops nothing) or a reading in flight at the drop leaves the host out |
| `ComponentPlan.overlapped` | a save overwrote a save it had not seen |

### Fairness

`JobManager!Fairness` is weak for every step of a goroutine that can run, and
strong for `Enqueue`: Go hands a freed slot of a channel to the sender that has
waited longest, so an enabled-again-and-again send does happen. A runner always
returns: its context has a deadline (`Config.Jobs.Timeout`) and
`runner/process_unix.go` kills the process group of the command it waits for. The
process is restarted by its supervisor until the load succeeds. Nothing makes a
user submit, cancel, acknowledge or erase.

`OperationalCache!Fairness` is weak for the steps inside a call: every loader
ends, since each command has a timeout of 30 or 45 seconds. Nothing makes a client
ask or hang up.

## 4. The proofs

`tlapm` checks the following for any constants that satisfy the named assumption of
the module (`JobManagerAssumption`, `OperationalCacheAssumption`,
`EnvironmentLifecycleAssumption`, `UpgradeAssumption`, ...), which say no more than
that bounds are numbers, that values that stand for nothing are no others, and that
node groups and the names of ingresses are finitely many. TLC evaluates each of them.

| Module | Theorems | State |
|---|---|---|
| `JobManagerProofs` | `TypeCorrect`, `EnvironmentsStayExclusive`, `WorkersStayExclusive`, `QueuedJobsReachWorkers`, `RunningJobsCanBeCanceled`, `ActiveJobsAreDurable`, `SuccessIsHonest`, `MemoryMatchesTable`, `SoundMemoryHolds` | types and the safety invariants of the manager |
| | `OverIsForGood` | `OverStaysOver`, an action property |
| | `ManagerKeepsPromise` | `JobManager` implements `EnvironmentExclusion` |
| `OperationalCacheProofs` | `TypeCorrect`, `LoadersAreCoalesced`, `NobodyWaitsInVain`, `TimeDoesNotRunBackwards` | the safety properties of the cache |
| `EnvironmentProofs` | `TypeCorrect`, `LedgerOrHistory`, `GateKeepsDocumentsHolds`, `GateKeepsTrackedHolds` | what the deletion gate keeps |
| | `UpgradeInvariant`, `UpgradeIsSafeHolds`, `DeployedGroupsStayHolds`, `UpgradeIsIdempotent` | upgraded documents |
| | `StagesInvariant`, `NothingIsInTheWayHolds`, `ConsoleAddressesStayHolds`, `RoomIsLeftHolds` | the cluster stage |
| | `ManualChangesStayHolds` | the editor beside phase two |
| | `SyncFollowsClusterHolds`, `SyncIsIdempotent` | the synchronisation of routes |
| `TerraformProofs` | `RecoveryTypes`, `ReleasesStay`, `NoPendingIsLeft`, `VolumesStay` | the repair of releases |
| | `StatesAreAccountedForHolds`, `RunsOnCurrentStateHolds` | the migration of states |
| | `ResizeInvariant`, `DocumentFollowsClusterHolds`, `SwitchKeepsWritesHolds` | the resize |
| | `PlanInvariant`, `NamespacesAgreeHolds` | namespaces |
| `LockProofs` | `TerraformStaysAlone`, `DeploymentsStayAlone`, `TunnelsStayKnown` | both locks, the tunnels |
| `HandlerProofs` | `SessionsInvariant`, `SessionsFollowAccountHolds`, `EndedSessionsStayEndedHolds` | sessions |
| | `RowNamesEverythingHolds` | static sites |
| `CICDProofs` | `NothingBuildsUnseenHolds`, `PipelineFollowsRowHolds` | builds and pipelines |
| `DeliveryProofs` | `JenkinsCanCloneHolds`, `DeliveriesAreOwnHolds` | tokens and repositories |

Hypotheses beyond the assumptions are three: `LedgerOrHistory` assumes
`Undisturbed` (one handler at a time, no project deletion, no erasure), the two
theorems about the gate `OneHandler` (the race of section 5 is what happens
without it), and the three about the resize `MaxFailures <= 1`: the way back drops
the errors of its commands, so a second failure in one job does leave document and
cluster apart, as TLC shows at once with 2.

None of the properties is inductive alone. What had to be added, and why:

**Task manager** (`IInv`). That two workers do not share an environment follows
from three facts: at most one job of an environment is active in the map, a worker
inside `run` holds a job the map calls running (`WorkersHoldJobs`), and no two
workers hold the same one. The first needs to know that a job in its caller's hands
has left no trace yet (`UnbornIsBlank`); the honesty of a teardown needs what the
worker has seen (`CleanVerdict`); a crash is harmless because a process that is down
holds nothing (`DownIsIdle`). The two temporal results use the same invariant: every
action other than `Admit` and `Start` is *calm* (it may only end jobs), `Admit`
maps to `Accept`, `Start` to `Begin`.

**Cache** (`IInv`). `FlightsAreLed` ties the calls in flight to the goroutines that
lead them. `AnswersNeverGoBack` is proved through `StoredIsDue`: what is stored, or
has been read and is about to be, is at least as new as anything a later request
could ask for; this is where a loader running at an invalidation has to be excepted.

**Gate** (`Ledger`, `Gate`, `Erased`). `Ledger` says what the metadata is worth at
each step of a job: exact from the workspace selection to the change and again
after it was persisted; possibly behind in between, in which case the job cannot end
well. `StampsGrow` carries the order: a job's stamp is above all of the history's,
so a failed job's row is the newest and speaks against the removal. `Gate` adds
what each position of a removing handler has seen, `Erased` what is left of it when
the history is not to be trusted; `Known` is their conjunction over the settings.

**Documents** (`UpgradeInv`). What runs was made of the stored document or of one it
has been upgraded from (`WorldIsDocument`), and the groups that run are in the
document and in whatever a save or a job is about to put in its place
(`GroupsAreProtected`). The lemma that carries both is `UpgradeAgrees`: for every
document an older release could have stored, `Deployed(ApplyDefaults(d)) =
Deployed(d)`: the defaults of the platform and those of Terraform agree.

**Cluster stage** (`StagesInv`). What a job has read is still so unless `stale`
says otherwise; at each stage a group that exists and is wanted is recorded or still
to be looked up (`GroupsAreAdopted`); the job's list has what AWS has, less what the
console added (`ListIsKept`); there is no group left when the cleanup begins.

**Quota** (`RoomInv`). The sizes of the document and of the groups that run are known,
and what the check let pass still fits until the plan is applied. The property
compares sums over two sets of groups. Instead of an induction over the fold, the
proof counts: the sum is the cardinality of the set of single nodes (`Units`,
`NodesCount`), so it grows with the groups (`NodesGrow`); that the set is finite and
the fold agrees with it follows from a smallest subset for which it would not
(`LeastSubset`).

**Routes** (`RoutesInv`). An ingress that the editor wrote exists and no position of
Terraform's state stands for it, so phase two, which deletes only what a position
names and creates only what does not exist, cannot touch it.

**Synchronisation** (`RouteTypes`, `SyncedRoutes`). `SyncedRoutes` says which routes a
host has afterwards, as a function of its rules before and of the listing. It rests
on what a concatenation contains (`ConcatElements`) and on `Ascending` and `Listed`
enumerating their sets: the position of an element is its rank, so neither needs an
induction. From it follows that a second synchronisation with the same listing gives
no host other routes. That a synchronisation follows the cluster also needs to know
how old its listing can be: by `ListingsAreRecent` no listing that is kept, and none
in the hands of a synchronisation, is older than the last drop that no reading
outlived, so when the cluster has not changed since then the listing is the cluster.

**Namespaces** (`PlanInv`). What a step is about to put into a state is named by the
document (`JobsFit`) and labelled with the environment (`StatesAreLabelled`); a form
between its check and its save still has what the document named then (`FormsFit`).

**Releases** (`RecoveryInv`). From the listing to Terraform's own step nothing else
touches the release, so what was seen is true when a command is given.
**States** (`MigrationInv`). Until Terraform runs the world is the newest of the old
copies, and each stage names the copies it can still be in (`OnItsWay`); afterwards
some bucket has it. **Resize** (`ResizeInv`). One formula per workload
(`WorkloadIsTrue`) says for each stage which claim it is attached to, whether it is
stopped, what the copy holds and what the document names, on the way forward and
back.

**Locks** (`StateLockInv`, `DeployLockInv`). What is about to be removed was read when
nobody worked under it, later locks have other numbers, so removing what was read
takes it from nobody. **Tunnels** (`TunnelInv`). Whatever runs and is not in the map
belongs to the one caller that has the mutex.

**Sessions** (`SessionsInv`). Every copy that a request or an administrator holds is
one of the past of its row (`RowFits`, `SessionFits`), and what a profile update
promised to keep is about to be refreshed by it, or has been, and nobody holds an
older copy (`KeptIsTrue`). **Static sites** (`CDNInv`). A request that deletes has
removed what it has passed, one that creates has the row's names.

**Builds** (`BuildInv`), **pipelines** (`PipelineInv`). A copy names the item its
record names, and ends after it; a copy that is not stale is the row, and a
Jenkinsfile that was committed is replaced by a newer row's only. **Tokens**
(`TokensInv`). A new token is on no list of old ones, and from its storage on
neither the row nor, once Jenkins has answered, Jenkins has one that is.
**Repositories** (`DeliveryInv`). Ids in the row and in copies are the platform's,
and an unfilled repository of its own is in the row or about to be.

The larger invariants were checked by TLC on the run's instance before they were
proved (`Known`, `UpgradeInv`, `StagesInv`, `RoomInv`, `PlanInv`, `ResizeInv`, `SessionsInv`,
`ListingsAreRecent`: up to 1.5 million states). Two attempts failed for good reasons
and changed a model. In
`Sessions` a history variable was forgotten when a request stored its old copy
again: `PasswordChangeEndsSessions` was false from four changes of the account on,
beyond the bound of the run. In `DocumentUpgrade` it was forgotten by a destroy while
a save was in flight: `DeployedGroupsStay` was false with two saves and five jobs.
Both variables now stay set, and the theorems hold for every bound.

**Proved but not run.** `EnvironmentsStayExclusive`, `RunningJobsCanBeCanceled`,
`MemoryMatchesTable`, `NobodyWaitsInVain`, and the type invariants of all components
but the manager: what they say holds without a bound, and no run repeats it. So do
two statements about operators: `UpgradeIsIdempotent` (a document that was upgraded
when it was read is upgraded again when it is read next, to the same document) and
`SyncIsIdempotent`.

## 5. Divergences found

In each case a document, a comment, a test or the interface says one thing and a
run shows the code doing another. `PROJECT.json` quotes both sides.

1. *Two processes, one environment.* `docs/configuration.md:15` promises that jobs
   of one environment are mutually exclusive. The busy check of `submit` reads the
   map of its own process; a command-line deployment beside the server is not
   excluded. (`job_processes`)
2. *Removal against submission.* The comment at
   `internal/httpapi/project_deletion.go:19` says that metadata is only removed
   after the state is empty. Between the gate and the removal a job can be admitted,
   or a submission that passed its checks before can start on what is left.
   (`environment_race`)
3. *Invalidation during a load.* `operational_cache_test.go:70` states that an
   invalidation forces a reload; a load in flight is neither dropped nor marked, and
   stores what it had read before. (`cache_invalidation`)
4. *A retry that submits nothing.* The interface tells the user that the build has
   been submitted again; a build that a webhook triggered is retried with its
   delivery's id and answered with the build that failed. (`retry_answers`)
5. *A service reported as restored.* The error of a failed copy says so; under a
   canceled context the commands that restore it fail as well, and their errors are
   dropped. (`storage_report`)
6. *Namespaces of two projects.* `internal/environment/target.go:48` says that two
   projects can share a cluster because namespaces are scoped; the Helm values of the
   logging stacks keep the clone source's. (`namespace_scopes`)
7. *Routes that are not applied yet.* `internal/status/ingress.go:525` says that the
   synchronisation never removes them; under the policy that the server uses it does.
   (`ingress_sync`)

What the models show beyond them, where nothing in the repository says otherwise:

* *Documents.* While a first deployment still runs, or after the history was cleared
  and the report has expired, nothing protects the node groups; a change of the
  network moves public groups unseen; the runner's own save writes the document it
  loaded over a save in between. Heap options that cannot be parsed refuse every job,
  a destroy too.
* *Namespaces.* A namespace without labels can be adopted by two environments; one
  that was imported by a job that then broke off makes a managed destroy fail;
  overlapping saves lose names.
* *Cluster stage.* A save between the job's own read and Terraform's plan can put a
  group into the plan that was not adopted; a group in `CREATE_FAILED` counts as if
  its nodes were running, so that a retry after a quota failure fails again.
* *Routes.* The version of an edited ingress is compared and then stripped, so an
  update in between is lost; an ingress imported from the cluster is not tracked, and
  each phase two after it fails at "already exists"; removing a rule shifts
  Terraform's positions; a document saved between the load and the save of a
  synchronisation, or of a job's start, is overwritten; a synchronisation within ten
  seconds of phase two can take back what was applied.
* *Sessions.* A request beside a profile or password change stores the session it had
  read: the first signs its user out, the second keeps an old session alive.
* *Pipelines, tokens, repositories.* Overlapping requests show an edit as ready that
  was never synchronised; two rotations revoke each other's token; a lost id leaves a
  repository that no retry accepts, and after a change of group the binding never
  becomes ready.
* *Locks.* Both removals are unconditional, so a lock taken between the second reading
  and the removal is lost; a rollback of the platform takes no lock.

## 6. Abstractions and limits

* *Content is data.* Of documents only the fields a property is about are there;
  plans, logs, progress steps and diagnoses are left out; so is the Redis copy of a
  job, which the server writes and never reads.
* *Time.* Deadlines, expiries and cache ages may happen whenever they are possible.
  `CreatedAt` is a stamp that grows with every submission: two submissions in the
  same clock tick are not modelled.
* *Bulk operations.* `DeleteHistory` of several jobs is one critical section in the
  code and one step here, with any subset of its row deletions failing. The computation
  of synchronised routes is pure and part of the step that saves them; the load
  before it is a step of its own.
* *The two Terraform stages* of an environment are one state in
  `EnvironmentLifecycle`: metadata is "behind" if either is. The gate's questions
  about static CDN resources, legacy local state and cached cluster reports are left
  out: they can only close the gate further.
* *Documents.* Documents with one of the two switches of the network only, and the
  migration of the `amazon_mq` section, are not among the old documents; taints that
  the upgrade adds to application groups are meant and count as unchanged.
* *Cluster stage.* Elastic addresses in the quota, shared image repositories and the
  security groups of the cleanup are left out.
* *Routes.* Gateways, TLS secrets, annotations and namespaces, which only add reasons
  to skip a host, and the validation of the YAML are left out.
* *CI/CD and GitLab.* One service and one branch, so that requests are equal; jobs
  with a Jenkinsfile of their own and projects with two delivery repositories are
  left out.
* *A view of the cache* stands for several namespaces of one resource read by one
  command. Other targets have keys of their own and do not interact.
* *A known dead end*: a crash between the removal of a document and of its record
  leaves a record without document: every handler that would remove the record
  asks for the document first, the gate counts a missing document as a blocker, and
  a new creation finds the record. The model has the state; no resource is lost.
* Not modelled at all: the components marked so in `PROJECT.json`, with reasons.

**Only model-checked.** `EverySubmissionEnds` and `RequestsReturn` are liveness
under fairness, which `tlapm` cannot prove. The instances of two processes and the
seven violations show what does not hold, and are counterexamples by nature. Every
other property of the passing runs is a theorem.

## 7. Plan

1. Proofs: the sequences of legal calls that complete a removal after every crash.
2. Models: the reconciliation of the collector's own volumes
   (`reconcileOpenTelemetryStorage`), the elastic addresses beside the quota, projects
   with two delivery repositories, the support commands that edit documents beside
   the server.
3. Pure rules as operators against a reference: the preflights of the runner, the
   validation of documents, the topology that the status service derives.

## 8. How to run it

    tlc -workers 2 -config JobSettings.cfg MCJobSettings
    tlc -workers 2 -config JobLiveness.cfg MCJobManager
    tlc -workers 2 -config CacheFlights.cfg MCOperationalCache
    tlc -workers 2 -config Records.cfg MCRecords
    tlc -workers 2 -config ComponentOperations.cfg MCOperations
    tlc -workers 2 -config JobProcesses.cfg JobProcesses          # and the other violations:
    tlc -workers 2 -config CacheInvalidation.cfg CacheInvalidation
    tlc -workers 2 -config EnvironmentRace.cfg EnvironmentLifecycle
    tlc -workers 2 -config RetryAnswers.cfg BuildTrigger
    tlc -workers 2 -config StorageReport.cfg StorageResize
    tlc -workers 2 -config NamespaceScopes.cfg MCNamespaces
    tlc -workers 2 -config IngressSync.cfg MCDomainRoutes
    tlapm EnvironmentProofs.tla                                   # and the other *Proofs

`PROJECT.json` maps every definition to the lines it models, and names the mutant
that breaks each property. `Records.cfg` and `ComponentOperations.cfg` take about
three minutes each, `TerraformProofs` four to five, `EnvironmentProofs` eight to nine.
