------------------------- MODULE EnvironmentLifecycle -------------------------
(***************************************************************************)
(* The life of one environment: its document in MySQL with a YAML mirror   *)
(* (internal/environment/repository.go), its project record                *)
(* (internal/access), the AWS resources its jobs create (internal/runner), *)
(* and the gate that keeps an environment with resources from being        *)
(* removed (internal/httpapi/project_deletion.go).                         *)
(*                                                                         *)
(* The handlers of internal/httpapi/server.go read and write these stores  *)
(* one after the other without a transaction: a step is one write, or the  *)
(* reads a handler makes up to its next write or wait.  A refusal changes  *)
(* nothing.  Of the task manager, modelled in JobManager, only its promise *)
(* is used: one unfinished job per environment.                            *)
(***************************************************************************)
EXTENDS Naturals

CONSTANTS
    Request,        \* goroutines of HTTP handlers
    Operation,      \* the handlers that are called
    MaxJobs,        \* bound on the jobs submitted
    MaxFaults,      \* bound on failed writes
    MaxCrashes,     \* bound on crashes
    MaxErasures     \* bound on history being cleared or pruned

Mutation == {"deploy", "destroy"}     \* latestResourceMutation; also platform, access, tls
Action   == Mutation \cup {"plan"}
Handler  == Action \cup {"create", "save", "delete", "project", "teardown"}

ASSUME EnvironmentLifecycleAssumption ==
    /\ Operation \subseteq Handler
    /\ MaxJobs \in Nat
    /\ MaxFaults \in Nat
    /\ MaxCrashes \in Nat
    /\ MaxErasures \in Nat

VARIABLES
    doc,        \* the row of the table environments
    file,       \* <environment>.yaml, which Terraform reads
    record,     \* the row of project_environments
    owned,      \* the Terraform state in S3 has managed resources
    tracked,    \* managed_resources > 0 in the state-metadata files
    job,        \* the unfinished job
    history,    \* finished jobs of the actions in Mutation
    clock,      \* CreatedAt of the last submission
    request,    \* where each handler is
    faults, crashes, erasures

stores  == <<doc, file, record>>
cloud   == <<owned, tracked>>
tasks   == <<job, history>>
bounds  == <<faults, crashes, erasures>>
vars    == <<stores, cloud, tasks, clock, request, bounds>>

Stamp == 1 .. MaxJobs
NoJob == [action |-> "plan", at |-> "none", stamp |-> 0,
          ends |-> FALSE, ok |-> FALSE, canceled |-> FALSE]
Idle  == [op |-> "none", at |-> "idle", stamp |-> 0]

\* What latestResourceMutation keeps of a finished job.
Finished(j, ok) ==
    {[action |-> a, stamp |-> j.stamp, ends |-> j.ends, ok |-> ok] :
        a \in Mutation \cap {j.action}}

\* Repository.Save and Repository.Delete: MySQL first, then the file.
Saved   == doc' = TRUE  /\ file' = TRUE
Deleted == doc' = FALSE /\ file' = FALSE

Fault == faults < MaxFaults /\ faults' = faults + 1

-------------------------------------------------------------------------------
(* The deletion gate.                                                      *)

Mutations == history \cup (IF job.at = "none" THEN {} ELSE Finished(job, FALSE))

\* The newest mutation by CreatedAt is a successful destroy, or there is none.
Settled(rows) ==
    \A m \in rows : (\A n \in rows : n.stamp <= m.stamp)
                        => m.action = "destroy" /\ m.ok

\* Mutants: the history, the metadata is not consulted.
BlockedByState   == ~doc \/ tracked
BlockedByHistory == ~doc \/ ~Settled(Mutations)
Blocked == ~doc \/ tracked \/ ~Settled(Mutations)

-------------------------------------------------------------------------------
(* Handlers.                                                               *)

Begin(r, op, at) ==
    /\ op \in Operation
    /\ request[r] = Idle
    /\ request' = [request EXCEPT ![r] = [op |-> op, at |-> at, stamp |-> 0]]
At(r, ops, at) == request[r].op \in ops /\ request[r].at = at
Move(r, at)    == request' = [request EXCEPT ![r].at = at]
Return(r)      == request' = [request EXCEPT ![r] = Idle]

\* createProjectEnvironment: the record must not exist yet.
AskCreate(r) ==
    /\ ~record
    /\ Begin(r, "create", "checked")
    /\ UNCHANGED <<stores, cloud, tasks, clock, bounds>>

\* saveProjectEnvironment: record and document must exist.
AskSave(r) ==
    /\ record /\ doc
    /\ Begin(r, "save", "checked")
    /\ UNCHANGED <<stores, cloud, tasks, clock, bounds>>

WriteDoc(r) ==
    /\ At(r, {"create", "save"}, "checked")
    /\ Saved
    /\ Move(r, "written")
    /\ UNCHANGED <<record, cloud, tasks, clock, bounds>>

\* The row could not be written, or the row could and the file not.
WriteDocFails(r) ==
    /\ At(r, {"create", "save"}, "checked")
    /\ doc' \in {doc, TRUE}
    /\ Return(r)
    /\ Fault
    /\ UNCHANGED <<file, record, cloud, tasks, clock, crashes, erasures>>

WriteRecord(r) ==
    /\ At(r, {"create", "save"}, "written")
    /\ record' = TRUE
    /\ Return(r)
    /\ UNCHANGED <<doc, file, cloud, tasks, clock, bounds>>

\* A create takes its document back; a save ignores the error.
WriteRecordFails(r) ==
    /\ At(r, {"create", "save"}, "written")
    /\ IF request[r].op = "create" THEN Deleted ELSE UNCHANGED <<doc, file>>
    /\ Return(r)
    /\ Fault
    /\ UNCHANGED <<record, cloud, tasks, clock, crashes, erasures>>

\* deleteProjectEnvironment ("teardown" with destroy_resources) and
\* deleteProject: no job may be active.
AskDelete(r, op) ==
    /\ job.at = "none"
    /\ Begin(r, op, "quiet")
    /\ UNCHANGED <<stores, cloud, tasks, clock, bounds>>

\* deleteProject visits the environments the project lists.
PassGate(r) ==
    /\ \/ At(r, {"delete", "project"}, "quiet") /\ record /\ ~Blocked
          /\ Move(r, "cleared")
       \/ At(r, {"project"}, "quiet") /\ ~record
          /\ Move(r, "removed")
    /\ UNCHANGED <<stores, cloud, tasks, clock, bounds>>

\* removeEnvironmentConfiguration reads the document first, deleteProject does
\* not.
RemoveDoc(r) ==
    /\ At(r, {"delete", "project"}, "cleared")
    /\ request[r].op = "delete" => doc
    /\ Deleted
    /\ Move(r, "removed")
    /\ UNCHANGED <<record, cloud, tasks, clock, bounds>>

\* The row is gone, the file could not be removed.
RemoveDocFails(r) ==
    /\ At(r, {"delete", "project"}, "cleared")
    /\ request[r].op = "delete" => doc
    /\ doc' = FALSE
    /\ Return(r)
    /\ Fault
    /\ UNCHANGED <<file, record, cloud, tasks, clock, crashes, erasures>>

\* deleteProject erases the history before its boundary of permissions goes.
ForgetHistory(r) ==
    /\ At(r, {"project"}, "removed")
    /\ history' = {}
    /\ Move(r, "forgotten")
    /\ UNCHANGED <<stores, cloud, job, clock, bounds>>

RemoveRecord(r) ==
    /\ At(r, {"delete"}, "removed") \/ At(r, {"project"}, "forgotten")
    /\ record' = FALSE
    /\ Return(r)
    /\ UNCHANGED <<doc, file, cloud, tasks, clock, bounds>>

\* removeEnvironmentConfiguration saves the document it had read.
RemoveRecordFails(r) ==
    /\ \/ At(r, {"delete"}, "removed") /\ Saved
       \/ At(r, {"project"}, "forgotten") /\ UNCHANGED <<doc, file>>
    /\ Return(r)
    /\ Fault
    /\ UNCHANGED <<record, cloud, tasks, clock, crashes, erasures>>

\* createJob and retryJob: record and document must exist; a teardown is only
\* retried here.
AskJob(r, action) ==
    /\ record /\ doc
    /\ action = "teardown" => \E m \in history : m.ends /\ ~m.ok
    /\ Begin(r, action, "checked")
    /\ UNCHANGED <<stores, cloud, tasks, clock, bounds>>

\* The record of a teardown is looked up after the jobs; then submit takes
\* CreatedAt.
TakeStamp(r) ==
    /\ \/ At(r, Action \cup {"teardown"}, "checked")
       \/ At(r, {"teardown"}, "quiet") /\ record
    /\ clock < MaxJobs
    /\ clock' = clock + 1
    /\ request' = [request EXCEPT ![r] = [op |-> @.op, at |-> "stamped",
                                         stamp |-> clock + 1]]
    /\ UNCHANGED <<stores, cloud, tasks, bounds>>

AdmitJob(r) ==
    /\ At(r, Action \cup {"teardown"}, "stamped")
    /\ job.at = "none"
    /\ LET op == request[r].op
       IN job' = [action |-> IF op = "teardown" THEN "destroy" ELSE op,
                  at |-> "queued", stamp |-> request[r].stamp,
                  ends |-> op = "teardown", ok |-> FALSE, canceled |-> FALSE]
    /\ Return(r)
    /\ UNCHANGED <<stores, cloud, history, clock, bounds>>

\* A check of the handler fails.
Refuse(r) ==
    /\ \/ At(r, {"delete", "project"}, "quiet") /\ record /\ Blocked
       \/ At(r, {"delete"}, "quiet") /\ ~record
       \/ At(r, {"delete"}, "cleared") /\ ~doc
       \/ At(r, Action \cup {"teardown"}, "stamped") /\ job.at # "none"
       \/ At(r, Action \cup {"teardown"}, "checked") \/ At(r, {"teardown"}, "quiet")
    /\ Return(r)
    /\ UNCHANGED <<stores, cloud, tasks, clock, bounds>>

-------------------------------------------------------------------------------
(* The runner.                                                             *)

Runs(at) == job.at = at /\ ~job.canceled
Step(at) == job' = [job EXCEPT !.at = at]

LoadDoc ==
    /\ Runs("queued") /\ doc
    /\ Step("loaded")
    /\ UNCHANGED <<stores, cloud, history, clock, request, bounds>>

\* The document is written back with its defaults.
SaveDefaults ==
    /\ job.at = "loaded"
    /\ Saved
    /\ Step("saved")
    /\ UNCHANGED <<record, cloud, history, clock, request, bounds>>

\* terraformWorkspace, which every job goes through first.
SelectWorkspace ==
    /\ Runs("saved")
    /\ tracked' = owned
    /\ job' = [job EXCEPT !.at = IF job.action = "plan" THEN "ending" ELSE "ready",
                          !.ok = job.action = "plan"]
    /\ UNCHANGED <<stores, owned, history, clock, request, bounds>>

\* terraform apply or destroy; one that fails leaves something in between.
Terraform ==
    /\ Runs("ready")
    /\ \E ok \in BOOLEAN :
         /\ owned' \in IF ok THEN {job.action = "deploy"}
                             ELSE {owned, job.action = "deploy"}
         /\ job' = [job EXCEPT !.at = "changed", !.ok = ok]
    /\ UNCHANGED <<stores, tracked, history, clock, request, bounds>>

\* Mutant: a failed command leaves the metadata alone, and its error is lost.
PersistUnheard ==
    /\ Runs("changed")
    /\ tracked' = IF job.ok THEN owned ELSE tracked
    /\ job' = [job EXCEPT !.at = IF job.ends THEN "completing" ELSE "ending",
                          !.ok = TRUE]
    /\ UNCHANGED <<stores, owned, history, clock, request, bounds>>
\* persistRemoteStateMetadata runs after a failed command too, under the context
\* of the job.
PersistMetadata ==
    /\ Runs("changed")
    /\ tracked' = owned
    /\ Step(IF job.ok /\ job.ends THEN "completing" ELSE "ending")
    /\ UNCHANGED <<stores, owned, history, clock, request, bounds>>

\* A command fails, or every command fails because the context is done.
RunnerFails ==
    /\ job.at \in {"queued", "loaded", "saved", "ready", "changed"}
    /\ job' = [job EXCEPT !.at = "ending", !.ok = FALSE]
    /\ UNCHANGED <<stores, cloud, history, clock, request, bounds>>

\* completeJob: the record and environmentStateBlockers.
CompleteJob ==
    /\ job.at = "completing"
    /\ LET missing == Runs("completing") /\ ~record
           passes  == Runs("completing") /\ record /\ ~tracked
       IN job' = [job EXCEPT !.at = IF passes THEN "clearing" ELSE "ending",
                             !.ok = missing \/ passes]
    /\ UNCHANGED <<stores, cloud, history, clock, request, bounds>>

\* The repository has a context of its own; a missing document is an error.
CompleteDoc ==
    /\ job.at = "clearing"
    /\ IF doc THEN Deleted /\ Step("cleared")
              ELSE /\ job' = [job EXCEPT !.at = "ending", !.ok = FALSE]
                   /\ UNCHANGED <<doc, file>>
    /\ UNCHANGED <<record, cloud, history, clock, request, bounds>>

CompleteDocFails ==
    /\ job.at = "clearing" /\ doc
    /\ doc' = FALSE
    /\ job' = [job EXCEPT !.at = "ending", !.ok = FALSE]
    /\ Fault
    /\ UNCHANGED <<file, record, cloud, history, clock, request, crashes, erasures>>

CompleteRecord ==
    /\ job.at = "cleared"
    /\ IF job.canceled
       THEN /\ Saved
            /\ job' = [job EXCEPT !.at = "ending", !.ok = FALSE]
            /\ UNCHANGED record
       ELSE /\ record' = FALSE
            /\ Step("ending")
            /\ UNCHANGED <<doc, file>>
    /\ UNCHANGED <<cloud, history, clock, request, bounds>>

Over(ok) ==
    /\ history' = history \cup Finished(job, ok)
    /\ job' = NoJob

FinishJob ==
    /\ job.at = "ending"
    /\ Over(job.ok /\ ~job.canceled)
    /\ UNCHANGED <<stores, cloud, clock, request, bounds>>

\* Manager.Cancel, or the deadline of the job.
CancelJob ==
    /\ job.at # "none" /\ ~job.canceled
    /\ IF job.at = "queued" THEN Over(FALSE)
       ELSE job' = [job EXCEPT !.canceled = TRUE] /\ UNCHANGED history
    /\ UNCHANGED <<stores, cloud, clock, request, bounds>>

-------------------------------------------------------------------------------
(* Around them.                                                            *)

\* deleteJobHistory, or pruneLocked, which knows nothing of environments.
EraseHistory ==
    /\ erasures < MaxErasures
    /\ erasures' = erasures + 1
    /\ \E kept \in SUBSET history :
         /\ kept # history
         /\ \A m \in history, n \in kept : m.stamp > n.stamp => m \in kept
         /\ history' = kept
    /\ UNCHANGED <<stores, cloud, job, clock, request, faults, crashes>>

\* The process dies and starts again: Repository.bootstrap imports the files if
\* the table is empty and writes them otherwise, the load closes the unfinished
\* job, and Bootstrap lists every document again.
Restart ==
    /\ crashes < MaxCrashes
    /\ crashes' = crashes + 1
    /\ \E others \in BOOLEAN :
         IF doc \/ others THEN doc' = doc /\ file' = (doc \/ file)
                          ELSE doc' = file /\ file' = file
    /\ record' = (record \/ doc')
    /\ IF job.at = "none" THEN UNCHANGED tasks ELSE Over(FALSE)
    /\ request' = [r \in Request |-> Idle]
    /\ UNCHANGED <<cloud, clock, faults, erasures>>

-------------------------------------------------------------------------------

Init ==
    /\ doc = FALSE /\ file = FALSE /\ record = FALSE
    /\ owned = FALSE /\ tracked = FALSE
    /\ job = NoJob /\ history = {}
    /\ clock = 0
    /\ request = [r \in Request |-> Idle]
    /\ faults = 0 /\ crashes = 0 /\ erasures = 0

Edit(r) == \/ AskCreate(r) \/ AskSave(r)
           \/ WriteDoc(r) \/ WriteDocFails(r)
           \/ WriteRecord(r) \/ WriteRecordFails(r)

Remove(r) == \/ \E op \in {"delete", "project", "teardown"} : AskDelete(r, op)
             \/ PassGate(r) \/ RemoveDoc(r) \/ RemoveDocFails(r)
             \/ ForgetHistory(r) \/ RemoveRecord(r) \/ RemoveRecordFails(r)

Submit(r) == \/ \E action \in Action \cup {"teardown"} : AskJob(r, action)
             \/ TakeStamp(r) \/ AdmitJob(r)

Run == \/ LoadDoc \/ SaveDefaults \/ SelectWorkspace \/ Terraform
       \/ PersistMetadata \/ RunnerFails
       \/ CompleteJob \/ CompleteDoc \/ CompleteDocFails \/ CompleteRecord
       \/ FinishJob

Next == \/ \E r \in Request : Edit(r) \/ Remove(r) \/ Submit(r) \/ Refuse(r)
        \/ Run \/ CancelJob \/ EraseHistory \/ Restart

Spec == Init /\ [][Next]_vars

-------------------------------------------------------------------------------
(* Properties.                                                             *)

Job  == [action : Action, stamp : 0 .. MaxJobs, ends : BOOLEAN, ok : BOOLEAN,
         canceled : BOOLEAN,
         at : {"none", "queued", "loaded", "saved", "ready", "changed",
               "completing", "clearing", "cleared", "ending"}]
Row  == [action : Mutation, stamp : Stamp, ends : BOOLEAN, ok : BOOLEAN]
Call == [op : Handler \cup {"none"}, stamp : 0 .. MaxJobs,
         at : {"idle", "checked", "written", "quiet", "cleared", "removed",
               "forgotten", "stamped"}]

TypeOK ==
    /\ doc \in BOOLEAN /\ file \in BOOLEAN /\ record \in BOOLEAN
    /\ owned \in BOOLEAN /\ tracked \in BOOLEAN
    /\ job \in Job
    /\ history \subseteq Row
    /\ clock \in 0 .. MaxJobs
    /\ request \in [Request -> Call]
    /\ faults \in 0 .. MaxFaults
    /\ crashes \in 0 .. MaxCrashes
    /\ erasures \in 0 .. MaxErasures

\* The gate ("Project metadata can only be removed after every environment's
\* Terraform state is empty ..."): resources in AWS keep the document they are
\* destroyed with; from it, a restart lists a lost record again.
ResourcesKeepTheirDocument == owned => doc

\* What is left of the gate once the history is cleared or pruned ("cleared
\* deployment history does not mean that the state is deleted"): resources that
\* the metadata knows of keep their document.
TrackedResourcesKeepTheirDocument == owned /\ tracked => doc

\* Between jobs the metadata may lag behind the state, after a cancel, a failed
\* `state pull` or a crash; then the history, while nobody erases it, speaks
\* against a removal.
LedgerOrHistorySpeaks ==
    erasures = 0 /\ job.at = "none" /\ tracked # owned => ~Settled(history)
===============================================================================
