------------------------------ MODULE ComponentPlan -----------------------------
(***************************************************************************)
(* Namespaces: which ones the documents of several environments name, and  *)
(* which ones exist on the clusters.  An environment on an existing EKS    *)
(* shares its cluster, a managed one has a cluster of its own.  Terraform  *)
(* refuses to delete a namespace (prevent_destroy): one that its state     *)
(* has and the document no longer names blocks every later job.            *)
(***************************************************************************)
EXTENDS Integers, Sequences, Functions

CONSTANTS
    Env,            \* environments
    Start,          \* what the stored documents may be at the start
    Changes,        \* which changes users make in the form
    MaxForms,       \* bound on the forms opened
    MaxPlans        \* bound on the jobs started

Component == {"collector", "loki", "prometheus", "stack"}
NoDoc == [target |-> "none"]
NoTask == [step |-> "idle"]

\* A namespace is a sequence: the environments it is scoped to and its base name.
Word == {"logs", "monitoring", "shop"}
Namespace == Seq(Env \cup Word)
Documents ==
    [target : {"managed", "existing_eks"}, on : SUBSET Component, inner : Namespace,
     namespaces : SUBSET Namespace, home : [Component -> Namespace]]

ASSUME PlanAssumption ==
    /\ "shared" \notin Env /\ "nobody" \notin Env
    /\ Start \subseteq [Env -> Documents \cup {NoDoc}]
    /\ MaxForms \in Nat /\ MaxPlans \in Nat

VARIABLES
    config,     \* the stored document of each environment
    owner,      \* <<cluster, namespace>> that exist -> the environment on the label
    inState,    \* the namespaces in each Terraform state of the platform stage
    releases,   \* the <<component, namespace>> each Terraform state has installed
    task,       \* the job of each environment
    form,       \* the forms that users have opened, through to their saves
    forms, plans,   \* forms opened and jobs started (bounds)
    overlapped  \* environments with a save that overwrote what it had not seen

planVars == <<config, owner, inState, releases, task, form, forms, plans, overlapped>>
-----------------------------------------------------------------------------
(* Documents.                                                              *)
Scoped(e, n) == <<e>> \o n
Shop == <<"shop">>      \* a namespace that somebody created with kubectl

\* DefaultDocument: a stack has its namespace in its Helm values too, scoped already.
DefaultDocument(e) ==
    [target |-> "managed", on |-> {}, inner |-> Scoped(e, <<"logs">>), namespaces |-> {},
     home |-> [c \in Component |->
                 IF c = "stack" THEN Scoped(e, <<"logs">>) ELSE <<"monitoring">>]]

\* ConfigureTarget: on a shared cluster every namespace of the document is scoped.
ConfigureTarget(d, e, target) ==
    LET home == [c \in Component |-> Scoped(e, d.home[c])]
    IN  IF target = "managed" THEN [d EXCEPT !.target = target]
        ELSE [d EXCEPT !.target = target, !.home = home,
                       !.namespaces = {Scoped(e, n) : n \in @} \cup Range(home)]

\* The collector needs Prometheus and Loki, and Loki brings Grafana with Prometheus.
Switched(on) ==
    LET with == IF "collector" \in on THEN on \cup {"loki", "prometheus"} ELSE on
    IN  IF "loki" \in with THEN with \cup {"prometheus"} ELSE with

Homes(d) == {d.home[c] : c \in d.on}

\* Mutant: the namespace of an enabled component is left to Terraform.
CompleteLess(d) ==
    LET on == Switched(d.on)
    IN  [d EXCEPT !.on = on, !.home["stack"] = IF "stack" \in on THEN d.inner ELSE @,
                  !.namespaces = @ \cup IF "stack" \in on THEN {d.inner} ELSE {}]

\* ApplyDefaults: dependencies, the one namespace of a stack, every namespace in use.
Complete(d) ==
    LET on   == Switched(d.on)
        home == IF "stack" \in on THEN [d.home EXCEPT !["stack"] = d.inner] ELSE d.home
        logs == IF "loki" \in on THEN {home[c] : c \in Component \ {"stack"}} ELSE {}
    IN  [d EXCEPT !.on = on, !.home = home,
                  !.namespaces = @ \cup logs \cup {home[c] : c \in on}]

Valid(d) ==
    "stack" \in d.on => d.home["stack"] = d.inner /\ d.inner \in d.namespaces

\* The namespaces that Terraform keeps: without the components in phase one.
Wanted(d, kind) == d.namespaces \cup IF kind = "platform" THEN Homes(d) ELSE {}

Cluster(e) == IF config[e].target = "existing_eks" THEN "shared" ELSE e
Exists(e, n) == <<Cluster(e), n>> \in DOMAIN owner
Stored == {e \in Env : config[e] # NoDoc}
-----------------------------------------------------------------------------
\* createProjectEnvironment: from the defaults or as a clone.
CreateEnvironment(e) ==
    /\ config[e] = NoDoc
    /\ \E target \in {"managed", "existing_eks"},
          source \in {DefaultDocument(e)} \cup {Complete(config[x]) : x \in Stored} :
          LET d == ConfigureTarget(source, e, target)
          IN  Valid(d) /\ config' = [config EXCEPT ![e] = d]
    /\ UNCHANGED <<owner, inState, releases, task, form, forms, plans, overlapped>>

Changed(d) ==
    {[d EXCEPT !.on = IF c \in @ THEN @ \ {c} ELSE @ \cup {c}] : c \in Changes \cap Component}
    \cup {[d EXCEPT !.namespaces = @ \ {n}] :
             n \in IF "remove" \in Changes THEN d.namespaces ELSE {}}
    \cup {[d EXCEPT !.home["prometheus"] = n] :
             n \in IF "move" \in Changes
                   THEN {Shop} \cup UNION {config[x].namespaces : x \in Stored} ELSE {}}

\* getProjectEnvironment, and what the user makes of it.
OpenForm(e) ==
    /\ forms < MaxForms /\ e \in Stored
    /\ \E next \in Changed(Complete(config[e])) :
          form' = form \cup {[step |-> "open", env |-> e, next |-> next]}
    /\ forms' = forms + 1
    /\ UNCHANGED <<config, owner, inState, releases, task, plans, overlapped>>

\* saveProjectEnvironment up to the check of removed namespaces.
CheckForm(f) ==
    /\ f.step = "open"
    /\ LET next == Complete(f.next)
           lost == Complete(config[f.env]).namespaces \ next.namespaces
       IN  form' = (form \ {f}) \cup
                   IF lost # {} THEN {}
                   ELSE {[step |-> "store", env |-> f.env, next |-> next, base |-> config[f.env]]}
    /\ UNCHANGED <<config, owner, inState, releases, task, forms, plans, overlapped>>

StoreForm(f) ==
    /\ f.step = "store" /\ form' = form \ {f}
    /\ IF Valid(f.next)
       THEN /\ config' = [config EXCEPT ![f.env] = f.next]
            /\ overlapped' = overlapped \cup IF config[f.env] = f.base THEN {} ELSE {f.env}
       ELSE UNCHANGED <<config, overlapped>>
    /\ UNCHANGED <<owner, inState, releases, task, forms, plans>>
-----------------------------------------------------------------------------
TaskGoes(e, t) == task' = [task EXCEPT ![e] = t]
TaskEnds(e) == TaskGoes(e, NoTask)

StartTask(e) ==
    /\ e \in Stored /\ task[e] = NoTask /\ plans < MaxPlans
    /\ \E kind \in {"deploy", "platform", "destroy"} :
          /\ kind = "deploy" => config[e].target = "managed"
          /\ TaskGoes(e, [step |-> "load", kind |-> kind])
    /\ plans' = plans + 1
    /\ UNCHANGED <<config, owner, inState, releases, form, forms, overlapped>>

\* Run: the document is completed ...
LoadTask(e) ==
    /\ task[e].step = "load"
    /\ TaskGoes(e, [step |-> "save", kind |-> task[e].kind, copy |-> Complete(config[e])])
    /\ UNCHANGED <<config, owner, inState, releases, form, forms, plans, overlapped>>

\* ... and stored.  Namespaces that the state lacks are looked up one by one.
SaveTask(e) ==
    /\ task[e].step = "save"
    /\ config' = [config EXCEPT ![e] = task[e].copy]
    /\ TaskGoes(e, IF task[e].kind = "destroy" THEN [step |-> "remove", kind |-> "destroy"]
               ELSE [step |-> "adopt", kind |-> task[e].kind,
                     todo |-> Wanted(task[e].copy, "platform") \ inState[e]])
    /\ UNCHANGED <<owner, inState, releases, form, forms, plans, overlapped>>

\* The labels of the namespace name another project or environment.
Foreign(e, n) == owner[<<Cluster(e), n>>] \notin {"nobody", e}

\* reconcileExistingNamespaces: kubectl get, then terraform import of what exists.
LookUp(e) ==
    /\ task[e].step = "adopt"
    /\ \E n \in task[e].todo :
          TaskGoes(e, IF ~Exists(e, n) THEN [task[e] EXCEPT !.todo = @ \ {n}]
                  ELSE IF Foreign(e, n) THEN NoTask
                  ELSE [step |-> "import", kind |-> task[e].kind, todo |-> task[e].todo \ {n},
                        name |-> n])
    /\ UNCHANGED <<config, owner, inState, releases, form, forms, plans, overlapped>>

Import(e) ==
    /\ task[e].step = "import"
    /\ inState' = [inState EXCEPT ![e] = @ \cup {task[e].name}]
    /\ TaskGoes(e, [step |-> "adopt", kind |-> task[e].kind, todo |-> task[e].todo])
    /\ UNCHANGED <<config, owner, releases, form, forms, plans, overlapped>>

\* terraform plan reads the stored document; prevent_destroy refuses a removal.
PlanStage(e) ==
    /\ task[e].step = "adopt" /\ task[e].todo = {}
    /\ LET wanted == Wanted(config[e], task[e].kind)
       IN  TaskGoes(e, IF inState[e] \subseteq wanted
                   THEN [step |-> "apply", wanted |-> wanted, installed |->
                           IF task[e].kind = "deploy" THEN releases[e]
                           ELSE {<<c, config[e].home[c]>> : c \in config[e].on}]
                   ELSE NoTask)
    /\ UNCHANGED <<config, owner, inState, releases, form, forms, plans, overlapped>>

\* Namespaces and Helm releases are created by name: an existing one is an error.
Taken(e, n) == n \notin inState[e] /\ Exists(e, n)
InUse(e, r) == \E f \in Env \ {e} : Cluster(f) = Cluster(e) /\ r \in releases[f]

Labels(e, names) ==
    [x \in DOMAIN owner \cup ({Cluster(e)} \X names) |->
        IF x[1] = Cluster(e) /\ x[2] \in names THEN e ELSE owner[x]]

Apply(e) ==
    /\ task[e].step = "apply"
    /\ ~ \E n \in task[e].wanted : Taken(e, n)
    /\ ~ \E r \in task[e].installed : InUse(e, r)
    /\ owner' = Labels(e, task[e].wanted)
    /\ inState' = [inState EXCEPT ![e] = task[e].wanted]
    /\ releases' = [releases EXCEPT ![e] = task[e].installed]
    /\ TaskEnds(e)
    /\ UNCHANGED <<config, form, forms, plans, overlapped>>

\* The apply fails or is canceled after some of the namespaces.
ApplyFails(e) ==
    /\ task[e].step = "apply"
    /\ \E names \in SUBSET {n \in task[e].wanted : ~Taken(e, n)} :
          /\ owner' = Labels(e, names)
          /\ inState' = [inState EXCEPT ![e] = @ \cup names]
    /\ TaskEnds(e)
    /\ UNCHANGED <<config, releases, form, forms, plans, overlapped>>

\* Any earlier step fails, or the job is canceled.
TaskFails(e) ==
    /\ task[e].step \notin {"idle", "load", "save", "apply"} /\ TaskEnds(e)
    /\ UNCHANGED <<config, owner, inState, releases, form, forms, plans, overlapped>>
-----------------------------------------------------------------------------
\* destroy on an existing EKS: the components go, the namespaces stay, ...
RemoveComponents(e) ==
    /\ task[e].step = "remove" /\ config[e].target = "existing_eks"
    /\ releases' = [releases EXCEPT ![e] = {}]
    /\ TaskGoes(e, [step |-> "detach"])
    /\ UNCHANGED <<config, owner, inState, form, forms, plans, overlapped>>

\* ... and leave the state.
Detach(e) ==
    /\ task[e].step = "detach"
    /\ inState' = [inState EXCEPT ![e] = {}]
    /\ TaskEnds(e)
    /\ UNCHANGED <<config, owner, releases, form, forms, plans, overlapped>>

\* The namespaces on the cluster whose labels name the environment.
Labelled(e) == {x \in DOMAIN owner : x[1] = e /\ owner[x] = e}

\* destroy of a managed EKS: kubectl deletes what is labelled, unless it has no access.
DeleteNamespaces(e) ==
    /\ task[e].step = "remove" /\ config[e].target = "managed"
    /\ \E access \in BOOLEAN :
          /\ owner' = IF access THEN Restrict(owner, DOMAIN owner \ Labelled(e)) ELSE owner
          /\ TaskGoes(e, [step |-> "platform", swept |-> access])
    /\ UNCHANGED <<config, inState, releases, form, forms, plans, overlapped>>

\* terraform destroy of the platform stage refuses while a inState namespace exists.
DestroyPlatform(e) ==
    /\ task[e].step = "platform"
    /\ IF \E n \in inState[e] : Exists(e, n)
       THEN TaskEnds(e) /\ UNCHANGED <<inState, releases>>
       ELSE /\ inState' = [inState EXCEPT ![e] = {}]
            /\ releases' = [releases EXCEPT ![e] = {}]
            /\ TaskGoes(e, [step |-> "cluster"])
    /\ UNCHANGED <<config, owner, form, forms, plans, overlapped>>

DestroyCluster(e) ==
    /\ task[e].step = "cluster"
    /\ owner' = Restrict(owner, {x \in DOMAIN owner : x[1] # e})
    /\ TaskEnds(e)
    /\ UNCHANGED <<config, inState, releases, form, forms, plans, overlapped>>
-----------------------------------------------------------------------------
PlanInit ==
    /\ config \in Start
    /\ owner \in [(Env \cup {"shared"}) \X {Shop} -> {"nobody"}]
    /\ inState = [e \in Env |-> {}] /\ releases = [e \in Env |-> {}]
    /\ task = [e \in Env |-> NoTask] /\ form = {}
    /\ forms = 0 /\ plans = 0 /\ overlapped = {}

PlanNext ==
    \/ \E e \in Env :
         \/ CreateEnvironment(e) \/ OpenForm(e)
         \/ StartTask(e) \/ LoadTask(e) \/ SaveTask(e) \/ LookUp(e) \/ Import(e)
         \/ PlanStage(e) \/ Apply(e) \/ ApplyFails(e) \/ TaskFails(e)
         \/ RemoveComponents(e) \/ Detach(e)
         \/ DeleteNamespaces(e) \/ DestroyPlatform(e) \/ DestroyCluster(e)
    \/ \E f \in form : CheckForm(f) \/ StoreForm(f)

PlanSpec == PlanInit /\ [][PlanNext]_planVars
-----------------------------------------------------------------------------
\* Whatever the state has is named by the document, so no plan removes a namespace and is
\* refused; only two overlapping saves can lose a name.  ("Persist the Namespace in the
\* environment document so disabling a component later never removes the shared Namespace")
TrackedNamespacesAreNamed ==
    \A e \in Stored : inState[e] \subseteq config[e].namespaces \/ e \in overlapped

\* A namespace that the platform created is in the state of one environment only: adoption
\* is for what this environment created, or what nobody did.
OneOwner ==
    \A e, f \in Stored :
        e # f /\ Cluster(e) = Cluster(f) => inState[e] \cap inState[f] \subseteq {Shop}

\* Once its namespaces are deleted, the destroy of a managed cluster is not refused, unless
\* a namespace was adopted by a job that ended before it was labelled.
DestroyIsNotRefused ==
    \A e \in Env : task[e].step = "platform" /\ task[e].swept =>
        \A n \in inState[e] : Exists(e, n) => n = Shop /\ owner[<<e, n>>] = "nobody"

\* No job is refused for a namespace and none removes another environment's: the
\* document, the state and the labels on the cluster agree as far as that takes.
NamespacesAgree == TrackedNamespacesAreNamed /\ OneOwner /\ DestroyIsNotRefused

\* "Existing-cluster targets receive project-scoped namespaces so two projects can safely
\* use the same EKS cluster": only a namespace that somebody else created is shared.
ScopesAreApart ==
    \A e, f \in Stored :
        e # f /\ config[e].target = "existing_eks" /\ config[f].target = "existing_eks"
        => Homes(config[e]) \cap Homes(config[f]) \subseteq {Shop}
===============================================================================
