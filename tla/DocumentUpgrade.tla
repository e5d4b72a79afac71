---------------------------- MODULE DocumentUpgrade ----------------------------
(***************************************************************************)
(* The configuration document of one environment: how ApplyDefaults brings *)
(* a document of an older release up to date, what the HTTP save checks    *)
(* before it replaces the document, and what the runner deploys from it.   *)
(* Terraform gives a missing field a meaning of its own, so an upgrade     *)
(* that is meant to change nothing must agree with it field by field.      *)
(***************************************************************************)
EXTENDS Integers, Sequences

CONSTANTS
    Group,          \* names of the node groups
    Class,          \* the workload class of the groups of an old document
    MaxSaves,       \* bound on the saves of the document
    MaxRuns         \* bound on the jobs of the runner

Role    == {"application", "platform", "general"}

ASSUME UpgradeAssumption ==
    /\ Group # {} /\ Class \in [Group -> Role]
    /\ MaxSaves \in Nat /\ MaxRuns \in Nat

Missing == "missing"        \* the document has no such field
Unset   == -1               \* the document has no such number
NoWorld == [groups |-> {}]  \* nothing is deployed

VARIABLES
    document,        \* the stored document
    world,      \* what the last apply created, NoWorld before it and after a destroy
    jobs,       \* the jobs of the environment that memory still has, newest first
    report,     \* TRUE while a cached status report shows the cluster active
    copy,       \* the document of the running job
    save,       \* the save being handled
    saves,      \* number of saves so far (bound)
    edited,     \* a save has been stored since the last apply
    exposed     \* a save of what runs was stored that the plan did not protect; what
                \* another save has read by then outlives a destroy

upgradeVars == <<document, world, jobs, report, copy, save, saves, edited, exposed>>
-----------------------------------------------------------------------------
(* Documents.  Of each section the fields that an upgrade fills in.        *)
Services(on, nodes, replicas, tls, mode) ==
    [cache |-> on, nodes |-> nodes, replicas |-> replicas, tls |-> tls,
     rds |-> on, mode |-> mode]

\* A heap of Elasticsearch: "fits" half of the memory limit, is too "large",
\* has different ends ("uneven") or options that cannot be parsed ("odd").
Heap == {"fits", "large", "uneven", "odd"}

\* A managed node group: its workload class, where its nodes live, whether it is tainted.
Plan(role, subnet, tainted) == [role |-> role, subnet |-> subnet, tainted |-> tainted]

\* NormalizeManagedNodeGroupTaints: only application nodes carry the taint.
NormalTaint(g) == [g EXCEPT !.tainted = (g.role = "application")]

Given(value, default) == IF value = Missing THEN default ELSE value

\* The subnet type of a group that has none of its own.
LegacySubnet(d) == Given(d.work, "public")

\* ApplyDefaults on the network and on the node groups.
UpgradedPlacement(d) ==
    [work |-> Given(d.work, "public"), data |-> Given(d.data, "public"),
     nat |-> Given(d.nat, "when-private"), sched |-> Given(d.sched, "off"),
     groups |-> [g \in DOMAIN d.groups |->
                    [NormalTaint(d.groups[g])
                        EXCEPT !.subnet = Given(d.groups[g].subnet, LegacySubnet(d))]]]

\* Mutant: a missing credential mode gets the default of new environments.
ServicesOfToday(d) ==
    [d.services EXCEPT !.nodes = IF @ = Unset THEN d.services.replicas + 1 ELSE @,
                       !.tls = Given(@, "off"), !.mode = Given(@, "self-managed")]

\* ApplyDefaults on the data services.
UpgradedServices(d) ==
    LET s     == d.services
        nodes == IF s.nodes # Unset THEN s.nodes
                 ELSE IF s.replicas = Unset THEN 2
                 ELSE IF s.replicas < 0 THEN 1 ELSE s.replicas + 1
    IN  [s EXCEPT !.nodes = nodes,
                  !.replicas = IF nodes >= 1 THEN nodes - 1 ELSE s.replicas,
                  !.tls = IF ~d.versioned /\ ~s.cache THEN "off" ELSE Given(s.tls, "off"),
                  !.mode = Given(s.mode, IF s.rds THEN "aws-managed" ELSE "self-managed")]

\* normalizeLegacyEFKHeap: only documents without the strict validation are repaired.
UpgradedHeap(d) == IF d.efk < 2 /\ d.heap \in {"large", "uneven"} THEN "fits" ELSE d.heap

ApplyDefaults(d) ==
    LET p == UpgradedPlacement(d)
    IN  [d EXCEPT !.work = p.work, !.data = p.data, !.nat = p.nat, !.sched = p.sched,
                  !.groups = p.groups, !.services = UpgradedServices(d), !.versioned = TRUE,
                  !.heap = UpgradedHeap(d), !.efk = 2]

\* Validate, as far as an edit or an old document can fail it.
Valid(d) ==
    /\ DOMAIN d.groups # {}
    /\ d.sched = "on" => \A role \in {"application", "platform"} :
                            \E g \in DOMAIN d.groups : d.groups[g].role = role
    /\ d.services.rds => d.services.mode \in {"self-managed", "aws-managed"}
    /\ d.services.cache => /\ d.services.nodes \in 1 .. 6
                           /\ d.services.replicas = d.services.nodes - 1
    /\ d.heap = "fits"
-----------------------------------------------------------------------------
(* What Terraform makes of a document, missing fields included.            *)
Work(d) == Given(d.work, "public")
DataSubnet(d) == Given(d.data, Work(d))

\* "public" in a group only means the workload subnets, whatever their type.
Placed(d, g) ==
    [role |-> g.role, subnet |-> IF Given(g.subnet, Work(d)) = "private" THEN "private" ELSE Work(d)]

Gateway(d) == \/ d.nat = "always"
              \/ Given(d.nat, "when-private") = "when-private" /\ "private" \in {Work(d), DataSubnet(d)}

Deployed(d) ==
    [groups |-> {[name |-> g, plan |-> Placed(d, d.groups[g])] : g \in DOMAIN d.groups},
     gateway |-> Gateway(d), sched |-> Given(d.sched, "off"),
     data |-> IF d.services.cache \/ d.services.rds THEN DataSubnet(d) ELSE "none",
     cache |-> IF ~d.services.cache THEN <<>>
               ELSE <<IF d.services.nodes # Unset THEN d.services.nodes
                      ELSE d.services.replicas + 1, Given(d.services.tls, "off")>>,
     rds |-> IF d.services.rds THEN Given(d.services.mode, "aws-managed") ELSE "none"]
-----------------------------------------------------------------------------
(* Whether phase one is deployed, as the save finds out.                   *)
Entry(action, status, entered) == [action |-> action, status |-> status, entered |-> entered]

\* The jobs since the last successful destroy.
Recent(js) ==
    LET ends == {n \in 1 .. Len(js) : js[n].action = "destroy" /\ js[n].status = "succeeded"}
    IN  IF ends = {} THEN js
        ELSE SubSeq(js, 1, (CHOOSE n \in ends : \A k \in ends : n <= k) - 1)

\* deriveDeploymentPhases: jobs that ended well or in a step that changes something, or
\* an active cluster in the report unless a destroy has ended well.
PhaseOne(js) ==
    \/ \E n \in 1 .. Len(Recent(js)) :
          /\ js[n].action = "deploy"
          /\ js[n].status = "succeeded" \/ (js[n].status = "failed" /\ js[n].entered)
    \/ Recent(js) = js /\ report

\* Mutant: a removed group is not noticed.
SameGroups(current, next) ==
    /\ current.sched = next.sched
    /\ \A g \in DOMAIN current.groups \cap DOMAIN next.groups : next.groups[g] = current.groups[g]

\* CompareSchedulingPlans: existing groups and the mode are fixed, new groups are not.
SamePlan(current, next) ==
    /\ current.sched = next.sched
    /\ DOMAIN current.groups \subseteq DOMAIN next.groups
    /\ \A g \in DOMAIN current.groups : next.groups[g] = current.groups[g]
-----------------------------------------------------------------------------
(* What a user may change in the form, which shows the upgraded document.  *)
Edits(d) ==
    {[d EXCEPT !.groups = [x \in DOMAIN @ \ {g} |-> @[x]]] : g \in DOMAIN d.groups}
    \cup {[d EXCEPT !.groups = [x \in DOMAIN @ \cup {g} |->
              IF x \in DOMAIN @ THEN @[x] ELSE Plan("general", "private", FALSE)]] :
          g \in Group \ DOMAIN d.groups}
    \cup {[d EXCEPT !.groups[g].subnet = "private"] : g \in DOMAIN d.groups}
    \cup {[d EXCEPT !.work = "private"], [d EXCEPT !.sched = "on"],
          [d EXCEPT !.services.cache = TRUE, !.services.rds = TRUE], [d EXCEPT !.heap = "large"]}

NoSave == [step |-> "none"]
Running == jobs # <<>> /\ jobs[1].status = "running"

\* The network is not part of the plan that a save compares.
Moves(current, next) == \E g \in DOMAIN current.groups \cap DOMAIN next.groups :
    Placed(current, current.groups[g]).subnet # Placed(next, next.groups[g]).subnet

\* saveProjectEnvironment: the stored document is loaded and both are upgraded.
LoadSave ==
    /\ save = NoSave /\ saves < MaxSaves
    /\ \E form \in Edits(ApplyDefaults(document)) :
          save' = [step |-> "check", current |-> ApplyDefaults(document), next |-> ApplyDefaults(form)]
    /\ saves' = saves + 1
    /\ UNCHANGED <<document, world, jobs, report, copy, edited, exposed>>

\* validateNodeGroupPlanningChange.
CheckPlan ==
    /\ save.step = "check"
    /\ IF PhaseOne(jobs) /\ ~SamePlan(save.current, save.next)
       THEN save' = NoSave
       ELSE save' = [step |-> "store", next |-> save.next,
                     free |-> ~PhaseOne(jobs) \/ Moves(save.current, save.next)]
    /\ UNCHANGED <<document, world, jobs, report, copy, saves, edited, exposed>>

\* Repository.Save and the invalidation of the cached report.
StoreSave ==
    /\ save.step = "store"
    /\ IF Valid(save.next)
       THEN /\ document' = save.next /\ report' = FALSE /\ edited' = TRUE
            /\ exposed' = (exposed \/ (save.free /\ (world # NoWorld \/ Running)))
       ELSE UNCHANGED <<document, report, edited, exposed>>
    /\ save' = NoSave
    /\ UNCHANGED <<world, jobs, copy, saves>>
-----------------------------------------------------------------------------
NoCopy == [step |-> "none"]

\* The environment has no other job.
StartJob ==
    /\ ~Running /\ Len(jobs) < MaxRuns
    /\ \E action \in {"deploy", "destroy"} : jobs' = <<Entry(action, "running", FALSE)>> \o jobs
    /\ copy' = [step |-> "load"]
    /\ UNCHANGED <<document, world, report, save, saves, edited, exposed>>

EndJob(status) ==
    /\ jobs' = [jobs EXCEPT ![1].status = status]
    /\ copy' = NoCopy

\* Run: the document is loaded and upgraded, ...
LoadJob ==
    /\ copy.step = "load"
    /\ copy' = [step |-> "save", doc |-> ApplyDefaults(document)]
    /\ UNCHANGED <<document, world, jobs, report, save, saves, edited, exposed>>

\* ... stored unless it is invalid, whatever was stored since, ...
SaveJob ==
    /\ copy.step = "save"
    /\ IF Valid(copy.doc)
       THEN document' = copy.doc /\ copy' = [copy EXCEPT !.step = "apply"] /\ UNCHANGED jobs
       ELSE EndJob("failed") /\ UNCHANGED document
    /\ UNCHANGED <<world, report, save, saves, edited, exposed>>

\* ... and applied by Terraform, which reads the stored document itself.
ApplyJob ==
    /\ copy.step = "apply"
    /\ jobs' = [jobs EXCEPT ![1].entered = TRUE]
    /\ world' = IF jobs[1].action = "deploy" THEN Deployed(document) ELSE NoWorld
    /\ edited' = FALSE
    /\ exposed' = IF world' = NoWorld /\ save = NoSave THEN FALSE ELSE exposed
    /\ copy' = [copy EXCEPT !.step = "end"]
    /\ UNCHANGED <<document, report, save, saves>>

EndApply ==
    /\ copy.step = "end" /\ EndJob("succeeded")
    /\ UNCHANGED <<document, world, report, save, saves, edited, exposed>>

\* Before, in or after the apply a step fails, or the job is canceled.
FailJob ==
    /\ copy.step \in {"apply", "end"}
    /\ EndJob("failed")
    /\ UNCHANGED <<document, world, report, save, saves, edited, exposed>>
-----------------------------------------------------------------------------
\* A status report is cached, or its entry expires.
Observe ==
    /\ report' \in {FALSE, world # NoWorld} \ {report}
    /\ UNCHANGED <<document, world, jobs, copy, save, saves, edited, exposed>>

\* The history of the environment is cleared; a running job stays.
ClearJobs ==
    /\ ~Running /\ jobs # <<>>
    /\ jobs' = <<>>
    /\ UNCHANGED <<document, world, report, copy, save, saves, edited, exposed>>
-----------------------------------------------------------------------------
(* Documents that an older release stored and, perhaps, deployed.          *)
NewServices == Services(FALSE, 2, 1, "off", "self-managed")
OldGroups ==
    UNION {{[g \in names |-> Plan(Class[g], subnet[g], FALSE)] :
            subnet \in [names -> {Missing, "public", "private"}]} : names \in (SUBSET Group) \ {{}}}
Old(net, nat, groups, services, version, heap) ==
    [work |-> net[1], data |-> net[2], nat |-> nat, sched |-> Missing, groups |-> groups,
     services |-> services, versioned |-> (version = 2), heap |-> heap, efk |-> version]
OldPlacements ==
    {Old(net, nat, groups, NewServices, 2, "fits") : groups \in OldGroups, nat \in {Missing, "always"},
        net \in {<<Missing, Missing>>, <<"public", "private">>, <<"private", "public">>}}
OneClass == [g \in Group |-> Plan("application", Missing, TRUE)]
OldServices ==
    {Old(<<Missing, Missing>>, Missing, OneClass, Services(on, Unset, replicas, tls, mode), 0, heap) :
        on \in BOOLEAN, replicas \in {0, 2}, tls \in {Missing, "on"},
        mode \in {Missing, "aws-managed"}, heap \in Heap}

UpgradeInit ==
    /\ document \in OldPlacements \cup OldServices
    /\ world \in {NoWorld, Deployed(document)}
    /\ jobs = IF world = NoWorld THEN <<>> ELSE <<Entry("deploy", "succeeded", TRUE)>>
    /\ report = FALSE /\ copy = NoCopy /\ save = NoSave
    /\ saves = 0 /\ edited = FALSE /\ exposed = FALSE

UpgradeNext ==
    \/ LoadSave \/ CheckPlan \/ StoreSave
    \/ StartJob \/ LoadJob \/ SaveJob \/ ApplyJob \/ EndApply \/ FailJob
    \/ Observe \/ ClearJobs

UpgradeSpec == UpgradeInit /\ [][UpgradeNext]_upgradeVars
-----------------------------------------------------------------------------
\* A deployment after an upgrade that nobody edited changes nothing of what runs: every
\* default that ApplyDefaults fills in agrees with what Terraform made of the missing
\* field.  ("Existing environments must not gain new placement constraints during a
\* normal defaults upgrade because that could move or strand running Pods.")
UpgradeKeepsWhatRuns ==
    [][world' # world /\ NoWorld \notin {world, world'} => edited]_upgradeVars

\* The node groups of a running cluster stay where they are, whatever is saved, unless
\* a save found no trace of the deployment or moved the network under them.
DeployedGroupsStay ==
    [][NoWorld \notin {world, world'} => exposed \/ world.groups \subseteq world'.groups]_upgradeVars

\* A job is refused for its document only when an old heap cannot be parsed: what an
\* older release accepted can still be deployed and destroyed.
OldDocumentsRun ==
    [][copy.step = "save" /\ copy'.step = "none" => copy.doc.heap = "odd"]_upgradeVars

\* Documents of older releases go on as before under this one.
UpgradeIsSafe == UpgradeKeepsWhatRuns /\ OldDocumentsRun
===============================================================================
