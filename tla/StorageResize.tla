----------------------------- MODULE StorageResize -----------------------------
(***************************************************************************)
(* Resizing the volumes of a stateful component                            *)
(* (internal/runner/storage.go).  Growing patches the claims in place.     *)
(* Shrinking stops the workloads, copies every volume to a new and smaller *)
(* one, switches the claims, saves the document and starts the workloads   *)
(* again; a step that fails is rolled back.                                *)
(*                                                                         *)
(* Every kubectl command may fail; after a cancel or the deadline of the   *)
(* job each one does, because all of them run under the job's context,     *)
(* while the document can still be saved.  The StatefulSet controller,     *)
(* the pods and what they write are external.                              *)
(***************************************************************************)
EXTENDS Naturals

CONSTANTS
    Workloads,      \* the StatefulSets of the component, one volume each
    MaxResizes,     \* bound on the jobs
    MaxWrites,      \* bound on what the service accepts for one workload
    MaxFailures     \* commands and saves that fail in one job

ASSUME StorageResizeAssumption == MaxResizes \in Nat /\ MaxWrites \in Nat /\ MaxFailures \in Nat

\* The claims of a workload: the original one, and one for each job.
Claims == 0 .. MaxResizes
NoPod == MaxResizes + 1
Sizes == 1 .. 2

VARIABLES
    attached,   \* the claim a StatefulSet's template names
    scale,      \* its replicas
    mounted,    \* the claim its pod runs on, or NoPod
    data,       \* the writes each claim holds
    accepted,   \* the writes the service accepted
    size,       \* the capacity each claim requests
    saved,      \* the document: claims and size
    job,        \* the running or last job
    resizes,
    disturbed   \* a job was cancelled or died, or a failed command took effect

cloud == <<mounted, data, accepted, size>>
resizeVars == <<attached, scale, cloud, saved, job, resizes, disturbed>>

\* As the component was first deployed.
FirstDocument == [claim |-> [w \in Workloads |-> 0], size |-> 2]
NoJob == [at |-> "idle", target |-> 2, todo |-> {}, pending |-> {}, scaled |-> {}, switched |-> {},
          replicas |-> [w \in Workloads |-> 1], doc |-> FirstDocument,
          original |-> FirstDocument,
          fault |-> "none", failures |-> 0, cancelled |-> FALSE, report |-> "none"]

-------------------------------------------------------------------------------
(* The steps of a job.                                                     *)

At(stage) == job.at = stage
\* The job proceeds to a stage, and the workloads it goes through there.
To(stage, todo) == [job EXCEPT !.at = stage, !.todo = todo]

Succeeds == ~job.cancelled
CanFail == job.cancelled \/ job.failures < MaxFailures
Failed(j) == IF job.cancelled THEN j ELSE [j EXCEPT !.failures = @ + 1]

Ends(report) == [NoJob EXCEPT !.report = report]

\* restoreManagedWorkloads before the switch, rollbackManagedStorage after it.
GiveUp(stage) ==
    Failed([To(IF stage \in {"stop", "drain", "copy"} THEN "restart" ELSE "unscale", job.scaled)
              EXCEPT !.fault = stage])

\* Run loads the document the job works on.
SubmitResize ==
    /\ At("idle") /\ resizes < MaxResizes
    /\ resizes' = resizes + 1
    /\ \E target \in Sizes : job' =
         [NoJob EXCEPT !.at = "inspect", !.target = target, !.doc = saved, !.original = saved]
    /\ UNCHANGED <<attached, scale, cloud, saved, disturbed>>

Requested(w) == size[w][attached[w]]
Behind == {w \in Workloads : Requested(w) # job.target}
Shrinks == \A w \in Workloads : Requested(w) >= job.target

\* The pods of the claims are listed; a mixed set of sizes is refused.
InspectStorage ==
    /\ At("inspect") /\ Succeeds
    /\ IF Behind = {}
         THEN \/ /\ \E claims \in {attached, saved.claim} : saved' = [claim |-> claims, size |-> job.target]
                 /\ job' = Ends("done")
              \/ CanFail /\ job' = Ends("failed") /\ UNCHANGED saved
         ELSE /\ UNCHANGED saved
              /\ job' = IF Shrinks
                          THEN [To("stop", Behind) EXCEPT !.pending = Behind, !.replicas = scale,
                                                          !.doc.claim = attached]
                          ELSE [To("expand", Behind) EXCEPT !.pending = Behind]
    /\ UNCHANGED <<attached, scale, cloud, resizes, disturbed>>

InspectFails ==
    /\ At("inspect") /\ CanFail
    /\ job' = Ends("failed")
    /\ UNCHANGED <<attached, scale, cloud, saved, resizes, disturbed>>

\* The document is saved first, then each claim is patched and waited for.
SaveExpansion ==
    /\ At("expand") /\ job.todo = job.pending /\ saved.size # job.target
    /\ \/ saved' = [job.doc EXCEPT !.size = job.target] /\ UNCHANGED job
       \/ CanFail /\ UNCHANGED saved /\ job' = Ends("failed")
    /\ UNCHANGED <<attached, scale, cloud, resizes, disturbed>>

ExpandClaim(w) ==
    /\ At("expand") /\ w \in job.todo /\ saved.size = job.target
    /\ \/ Succeeds /\ size' = [size EXCEPT ![w][attached[w]] = job.target]
          /\ job' = IF job.todo = {w} THEN Ends("done") ELSE To("expand", job.todo \ {w})
       \/ CanFail /\ job' = Ends("failed") /\ UNCHANGED size
    /\ UNCHANGED <<attached, scale, mounted, data, accepted, saved, resizes, disturbed>>

StopWorkload(w) ==
    /\ At("stop") /\ w \in job.todo
    /\ \/ /\ Succeeds /\ scale' = [scale EXCEPT ![w] = 0]
          /\ job' = [To(IF job.todo = {w} THEN "drain" ELSE "stop", job.todo \ {w})
                       EXCEPT !.scaled = @ \cup {w}]
       \/ CanFail /\ job' = GiveUp("stop") /\ UNCHANGED scale
    /\ UNCHANGED <<attached, cloud, saved, resizes, disturbed>>

\* Mutant: the replicas of the specification are read, not those that still run.
DrainBySpec ==
    /\ At("drain")
    /\ \/ Succeeds /\ (\A w \in job.pending : scale[w] = 0) /\ job' = To("copy", job.pending)
       \/ CanFail /\ job' = GiveUp("drain")
    /\ UNCHANGED <<attached, scale, cloud, saved, resizes, disturbed>>
\* waitForStatefulSetReplicas(0)
Drain ==
    /\ At("drain")
    /\ \/ Succeeds /\ (\A w \in job.pending : mounted[w] = NoPod) /\ job' = To("copy", job.pending)
       \/ CanFail /\ job' = GiveUp("drain")
    /\ UNCHANGED <<attached, scale, cloud, saved, resizes, disturbed>>

\* createReplacementPVC and copyManagedPVC
CopyVolume(w) ==
    /\ At("copy") /\ w \in job.todo
    /\ \/ /\ Succeeds
          /\ data' = [data EXCEPT ![w][resizes] = data[w][attached[w]]]
          /\ size' = [size EXCEPT ![w][resizes] = job.target]
          /\ job' = IF job.todo = {w} THEN To("switch", job.pending) ELSE To("copy", job.todo \ {w})
       \/ CanFail /\ job' = GiveUp("copy") /\ UNCHANGED <<data, size>>
    /\ UNCHANGED <<attached, scale, mounted, accepted, saved, resizes, disturbed>>

\* A patch that fails may have taken effect: it is not rolled back then.
SwitchClaim(w) ==
    /\ At("switch") /\ w \in job.todo
    /\ \/ /\ Succeeds /\ attached' = [attached EXCEPT ![w] = resizes]
          /\ job' = [To(IF job.todo = {w} THEN "save" ELSE "switch", job.todo \ {w})
                       EXCEPT !.switched = @ \cup {w}, !.doc.claim[w] = resizes]
          /\ UNCHANGED disturbed
       \/ CanFail /\ job' = GiveUp("switch") /\ UNCHANGED <<attached, disturbed>>
       \/ CanFail /\ Succeeds /\ job' = GiveUp("switch")
          /\ attached' = [attached EXCEPT ![w] = resizes] /\ disturbed' = TRUE
    /\ UNCHANGED <<scale, cloud, saved, resizes>>

SaveSwitch ==
    /\ At("save")
    /\ \/ /\ saved' = [job.doc EXCEPT !.size = job.target]
          /\ job' = To("start", job.pending)
       \/ CanFail /\ job' = GiveUp("save") /\ UNCHANGED saved
    /\ UNCHANGED <<attached, scale, cloud, resizes, disturbed>>

StartWorkload(w) ==
    /\ At("start") /\ w \in job.todo
    /\ \/ /\ Succeeds /\ scale' = [scale EXCEPT ![w] = job.replicas[w]]
          /\ job' = To(IF job.todo = {w} THEN "ready" ELSE "start", job.todo \ {w})
       \/ CanFail /\ job' = GiveUp("start") /\ UNCHANGED scale
    /\ UNCHANGED <<attached, cloud, saved, resizes, disturbed>>

\* kubectl rollout status, which a StatefulSet of no replicas passes as well.
AwaitReady ==
    /\ At("ready")
    /\ \/ Succeeds /\ job' = Ends("migrated")
          /\ \A w \in job.pending : scale[w] = 0 \/ mounted[w] = attached[w]
       \/ CanFail /\ job' = GiveUp("ready")
    /\ UNCHANGED <<attached, scale, cloud, saved, resizes, disturbed>>

-------------------------------------------------------------------------------
(* The way back.  Errors of its commands are dropped.                      *)

Tried(w, next, todo) ==
    IF job.todo = {w} THEN To(next, todo) ELSE To(job.at, job.todo \ {w})

Unscale(w) ==
    /\ At("unscale") /\ w \in job.todo
    /\ \/ Succeeds /\ scale' = [scale EXCEPT ![w] = 0] /\ job' = Tried(w, "unswitch", job.switched)
       \/ CanFail /\ job' = Failed(Tried(w, "unswitch", job.switched)) /\ UNCHANGED scale
    /\ UNCHANGED <<attached, cloud, saved, resizes, disturbed>>

Unswitch(w) ==
    /\ At("unswitch") /\ w \in job.todo
    /\ \/ /\ Succeeds /\ attached' = [attached EXCEPT ![w] = job.original.claim[w]]
          /\ job' = To("unswitch", job.todo \ {w})
       \/ CanFail /\ job' = Failed(To("unswitch", job.todo \ {w})) /\ UNCHANGED attached
    /\ UNCHANGED <<scale, cloud, saved, resizes, disturbed>>

Unswitched ==
    /\ At("unswitch") /\ job.todo = {}
    /\ job' = To("restart", job.scaled)
    /\ UNCHANGED <<attached, scale, cloud, saved, resizes, disturbed>>

Restart(w) ==
    /\ At("restart") /\ w \in job.todo
    /\ \/ Succeeds /\ scale' = [scale EXCEPT ![w] = job.replicas[w]]
          /\ job' = To("restart", job.todo \ {w})
       \/ CanFail /\ job' = Failed(To("restart", job.todo \ {w})) /\ UNCHANGED scale
    /\ UNCHANGED <<attached, cloud, saved, resizes, disturbed>>

Reported == IF job.fault \in {"stop", "drain"} THEN "failed"
            ELSE IF job.fault = "copy" THEN "restored" ELSE "rolled back"

\* Mutant: the document that names the new claims stays.
KeepSaved ==
    /\ At("restart") /\ job.todo = {}
    /\ job' = Ends(Reported)
    /\ UNCHANGED <<attached, scale, cloud, saved, resizes, disturbed>>
\* The original document is saved if the new one may have been.
RestoreDocument ==
    /\ At("restart") /\ job.todo = {}
    /\ job' = Ends(Reported)
    /\ IF job.fault \in {"save", "start", "ready"}
         THEN saved' = job.original \/ (CanFail /\ UNCHANGED saved)
         ELSE UNCHANGED saved
    /\ UNCHANGED <<attached, scale, cloud, resizes, disturbed>>

-------------------------------------------------------------------------------
(* Around the job.                                                         *)

CancelResize ==
    /\ ~At("idle") /\ ~job.cancelled
    /\ job' = [job EXCEPT !.cancelled = TRUE] /\ disturbed' = TRUE
    /\ UNCHANGED <<attached, scale, cloud, saved, resizes>>

CrashInResize ==
    /\ ~At("idle")
    /\ job' = Ends("none") /\ disturbed' = TRUE
    /\ UNCHANGED <<attached, scale, cloud, saved, resizes>>

\* A platform deployment whose Helm upgrade renders the document's claims.
ApplyChart ==
    /\ At("idle") /\ job' = NoJob
    /\ attached' = saved.claim /\ scale' = [w \in Workloads |-> 1]
    /\ UNCHANGED <<cloud, saved, resizes, disturbed>>

StopPod(w) ==
    /\ mounted[w] # NoPod /\ (scale[w] = 0 \/ mounted[w] # attached[w])
    /\ mounted' = [mounted EXCEPT ![w] = NoPod]
    /\ UNCHANGED <<attached, scale, data, accepted, size, saved, job, resizes, disturbed>>

StartPod(w) ==
    /\ mounted[w] = NoPod /\ scale[w] = 1
    /\ mounted' = [mounted EXCEPT ![w] = attached[w]]
    /\ UNCHANGED <<attached, scale, data, accepted, size, saved, job, resizes, disturbed>>

Write(w) ==
    /\ mounted[w] # NoPod /\ accepted[w] < MaxWrites
    /\ accepted' = [accepted EXCEPT ![w] = @ + 1]
    /\ data' = [data EXCEPT ![w][mounted[w]] = @ + 1]
    /\ UNCHANGED <<attached, scale, mounted, size, saved, job, resizes, disturbed>>

ResizeInit ==
    /\ attached = [w \in Workloads |-> 0] /\ scale = [w \in Workloads |-> 1]
    /\ mounted = [w \in Workloads |-> 0]
    /\ data = [w \in Workloads |-> [c \in Claims |-> 0]]
    /\ accepted = [w \in Workloads |-> 0]
    /\ size = [w \in Workloads |-> [c \in Claims |-> 2]]
    /\ saved = FirstDocument
    /\ job = NoJob /\ resizes = 0 /\ disturbed = FALSE

Resize == \/ SubmitResize \/ InspectStorage \/ InspectFails \/ SaveExpansion \/ Drain \/ SaveSwitch
          \/ AwaitReady \/ Unswitched \/ RestoreDocument
          \/ \E w \in Workloads : \/ ExpandClaim(w) \/ StopWorkload(w) \/ CopyVolume(w)
                                  \/ SwitchClaim(w) \/ StartWorkload(w)
                                  \/ Unscale(w) \/ Unswitch(w) \/ Restart(w)
Pods == \E w \in Workloads : StopPod(w) \/ StartPod(w) \/ Write(w)
ResizeNext == Resize \/ CancelResize \/ CrashInResize \/ ApplyChart \/ Pods

ResizeSpec == ResizeInit /\ [][ResizeNext]_resizeVars

-------------------------------------------------------------------------------
(* Properties.                                                             *)

\* A workload is moved only to a volume that holds every write of the one it
\* leaves.  The way back from a failed start is the exception the code makes: the
\* new volume was in use by then.
BackAfterStart == At("unswitch") /\ job.fault \in {"start", "ready"}
SwitchKeepsWrites ==
    [][\A w \in Workloads : (attached'[w] # attached[w] /\ ~disturbed)
         => (data'[w][attached'[w]] = data'[w][attached[w]] \/ BackAfterStart)]_resizeVars

\* However a job ended by itself, with one failure at any step, the document
\* names the claims the workloads are on, and they are started: the next Helm
\* upgrade does not move them.
DocumentFollowsCluster ==
    At("idle") /\ ~disturbed => saved.claim = attached /\ \A w \in Workloads : scale[w] = 1

\* "Data migration failed, the original PVC was not switched and the service has
\* been restored"; "has been safely migrated"; "has been rolled back to the
\* original PVC": a job that says so leaves its workloads started.
ReportedServiceRuns ==
    job.report \in {"restored", "migrated", "rolled back"} => \A w \in Workloads : scale[w] = 1
===============================================================================
