------------------------------ MODULE ClusterStages -----------------------------
(***************************************************************************)
(* The first stage of a managed environment: one job at a time creates the *)
(* network, the cluster, its node groups and the cache with Terraform, or  *)
(* removes them.  Terraform may be killed after AWS has accepted a node    *)
(* group and before the state says so; users save the document while a job *)
(* runs; the console, the autoscaler and other projects change what the    *)
(* job has read.                                                           *)
(***************************************************************************)
EXTENDS Integers, FiniteSetsExt

CONSTANTS
    NodeGroup,      \* node groups
    Address,        \* entries of the cluster's address list
    MaxSize,        \* largest size of a node group
    Quota,          \* nodes that the quota of the region allows
    Reserve,        \* nodes that must be free before a cluster is created
    MaxStageSaves,  \* bound on the saves of the document
    MaxStages,      \* bound on the jobs
    MaxOutside      \* bound on what happens outside the platform

ASSUME StagesAssumption ==
    /\ "none" \notin NodeGroup /\ IsFiniteSet(NodeGroup) /\ Address # {}
    /\ {MaxSize, Quota, Reserve, MaxStageSaves, MaxStages, MaxOutside} \subseteq Nat

None == "none"
Ready == [step |-> "ready"]
NoCache == [replicas |-> -1, failover |-> FALSE]

VARIABLES
    wanted,     \* the stored document: size of each group, addresses, cache replicas
    aws,        \* what exists
    recorded,   \* what the Terraform state has
    stage,      \* the job that runs
    spent,      \* saves, jobs and outside changes so far (bounds)
    stale,      \* since the job read them the document was saved or the quota used
    late        \* addresses that the console added since the job read the list

stageVars == <<wanted, aws, recorded, stage, spent, stale, late>>

Status(g) == aws.group[g]
Live == {g \in NodeGroup : Status(g) # None}
Nodes(size, groups) == MapThenSumSet(LAMBDA g : size[g], groups)
InUse == Nodes(aws.size, {g \in NodeGroup : Status(g) \in {"CREATING", "ACTIVE"}})
Free == Quota - (InUse + aws.others)
-----------------------------------------------------------------------------
(* What happens beside the job.                                            *)
Spend(what) == spent' = [spent EXCEPT ![what] = @ + 1]

SaveDocument ==
    /\ spent.saves < MaxStageSaves /\ Spend("saves")
    /\ \/ \E g \in NodeGroup, n \in 0 .. MaxSize : wanted' = [wanted EXCEPT !.size[g] = n]
       \/ \E n \in {0, 1} : wanted' = [wanted EXCEPT !.replicas = n]
    /\ stale' = (stale \/ stage # Ready)
    /\ UNCHANGED <<aws, recorded, stage, late>>

Outside == spent.changes < MaxOutside /\ Spend("changes") /\ UNCHANGED <<wanted, recorded, stage>>

\* An operator adds or removes an address in the AWS console.
EditAddresses ==
    /\ aws.cluster /\ Outside /\ UNCHANGED stale
    /\ \E a \in Address :
          IF a \in aws.allowed
          THEN aws' = [aws EXCEPT !.allowed = @ \ {a}] /\ late' = late \ {a}
          ELSE aws' = [aws EXCEPT !.allowed = @ \cup {a}] /\ late' = late \cup {a}

\* The autoscaler resizes a group, another project starts an instance.
UseQuota ==
    /\ Outside /\ UNCHANGED late
    /\ \/ \E g \in NodeGroup, n \in 0 .. MaxSize :
            /\ Status(g) = "ACTIVE" /\ n - aws.size[g] <= Free
            /\ aws' = [aws EXCEPT !.size[g] = n]
            /\ stale' = (stale \/ n > aws.size[g])
       \/ /\ Free > 0 /\ aws' = [aws EXCEPT !.others = @ + 1]
          /\ stale' = TRUE

\* AWS finishes a node group, whether or not Terraform still waits for it.
Settle(g) ==
    /\ Status(g) = "CREATING"
    /\ \/ aws' = [aws EXCEPT !.group[g] = "ACTIVE", !.interface[g] = "in-use"]
       \/ aws' = [aws EXCEPT !.group[g] = "CREATE_FAILED"]
    /\ UNCHANGED <<wanted, recorded, stage, spent, stale, late>>

\* The network plugin lets go of the interfaces of a group some time after the group.
Release(g) ==
    /\ Status(g) = None /\ aws.interface[g] = "in-use"
    /\ aws' = [aws EXCEPT !.interface[g] = "available"]
    /\ UNCHANGED <<wanted, recorded, stage, spent, stale, late>>
-----------------------------------------------------------------------------
(* A job that plans or deploys.                                            *)
Continues(s) == stage' = s /\ UNCHANGED <<wanted, spent, late>>
Refused == Continues(Ready) /\ UNCHANGED <<aws, recorded, stale>>

StartStage ==
    /\ stage = Ready /\ spent.stages < MaxStages /\ Spend("stages")
    /\ \E kind \in {"plan", "deploy", "destroy"} :
          stage' = [step |-> IF kind = "destroy" THEN "compute" ELSE "list", kind |-> kind,
                    copy |-> wanted]
    /\ stale' = FALSE /\ late' = {}
    /\ UNCHANGED <<wanted, aws, recorded>>

\* Mutant: the list of the document replaces the one of AWS.
ListOfDocument(d) == d.addresses

\* withMergedEKSPublicAccessCIDRs: what AWS has and what the document adds.
Merged(d) == d.addresses \cup IF aws.cluster THEN aws.allowed ELSE {}

ReadAddresses ==
    /\ stage.step = "list"
    /\ stage' = [step |-> "adopt", kind |-> stage.kind, copy |-> stage.copy,
                 list |-> Merged(stage.copy),
                 todo |-> {g \in NodeGroup : stage.copy.size[g] >= 0} \ recorded]
    /\ late' = {}
    /\ UNCHANGED <<wanted, aws, recorded, spent, stale>>

\* Mutant: a group that is still being created is not waited for.
OnlyFailed(g) == Status(g) = "CREATE_FAILED"
InTheWay(g) == Status(g) \notin {None, "ACTIVE"}

\* reconcileExistingEKSNodeGroups: import what an interrupted job has created.
Adopt(g) ==
    /\ stage.step = "adopt" /\ g \in stage.todo
    /\ IF InTheWay(g) THEN Refused
       ELSE /\ recorded' = IF Status(g) = "ACTIVE" THEN recorded \cup {g} ELSE recorded
            /\ Continues([stage EXCEPT !.todo = @ \ {g}])
            /\ UNCHANGED <<aws, stale>>

\* Mutant: a group that is larger than wanted makes room for another.
Offset(d) ==
    Nodes([g \in NodeGroup |-> d.size[g] - IF g \in Live THEN aws.size[g] ELSE 0],
          {g \in NodeGroup : d.size[g] > 0})

\* desiredNodeGroupCapacity less what each group has.
Increase(d) ==
    Nodes([g \in NodeGroup |-> IF g \notin Live THEN d.size[g]
                              ELSE IF d.size[g] > aws.size[g] THEN d.size[g] - aws.size[g] ELSE 0],
          {g \in NodeGroup : d.size[g] > 0})

\* checkEKSNodeGroupVCPUQuota: a new cluster needs a reserve, a document without groups
\* nothing; without the right to read the quota an existing cluster is not checked.
Needed(d) ==
    IF \A g \in NodeGroup : d.size[g] < 0 THEN 0
    ELSE IF aws.cluster \/ Increase(d) > Reserve THEN Increase(d) ELSE Reserve

CheckQuota ==
    /\ stage.step = "adopt" /\ stage.todo = {}
    /\ LET next == [step |-> "plan", kind |-> stage.kind, copy |-> stage.copy, list |-> stage.list]
       IN  \/ IF Needed(stage.copy) = 0 \/ Needed(stage.copy) <= Free
              THEN Continues(next) /\ UNCHANGED <<aws, recorded, stale>>
              ELSE Refused
           \/ /\ aws.cluster /\ Needed(stage.copy) > 0 /\ stale' = TRUE
              /\ Continues(next) /\ UNCHANGED <<aws, recorded>>

\* terraform plan reads the stored document, not the job's copy.
Unmade == {g \in NodeGroup : wanted.size[g] >= 0} \ (recorded \cap Live)
Failed == {g \in recorded \cap Live : Status(g) # "ACTIVE"}

MakePlan ==
    /\ stage.step = "plan"
    /\ Continues(IF stage.kind = "plan" THEN Ready
                 ELSE [step |-> "cache", copy |-> stage.copy,
                       plan |-> [create |-> Unmade \cup Failed, size |-> wanted.size,
                                 list |-> stage.list, replicas |-> wanted.replicas]])
    /\ UNCHANGED <<aws, recorded, stale>>

Applying(plan) == [step |-> "apply", plan |-> plan, waits |-> None]

\* prepareElastiCacheReplicaScaleDown
PrepareCache ==
    /\ stage.step = "cache"
    /\ aws' = IF stage.copy.replicas = 0 THEN [aws EXCEPT !.cache.failover = FALSE] ELSE aws
    /\ Continues(Applying(stage.plan)) /\ UNCHANGED <<recorded, stale>>
-----------------------------------------------------------------------------
(* terraform apply of the saved plan, in the order of the dependencies.    *)
ApplyBase ==
    /\ stage.step = "apply" /\ stage.waits = None
    /\ \/ ~aws.network /\ aws' = [aws EXCEPT !.network = TRUE]
       \/ /\ aws.network /\ ~aws.cluster
          /\ aws' = [aws EXCEPT !.cluster = TRUE, !.allowed = stage.plan.list]
       \/ /\ aws.cluster /\ aws.allowed # stage.plan.list
          /\ aws' = [aws EXCEPT !.allowed = stage.plan.list]
    /\ Continues(stage) /\ UNCHANGED <<recorded, stale>>

\* Replicas cannot go while the cache fails over to them.
ApplyCache ==
    /\ stage.step = "apply" /\ stage.waits = None /\ aws.network
    /\ LET n == stage.plan.replicas
       IN  /\ n >= 0 /\ n # aws.cache.replicas
           /\ IF n < aws.cache.replicas /\ aws.cache.failover THEN Refused
              ELSE /\ aws' = [aws EXCEPT !.cache = [replicas |-> n, failover |-> n > 0]]
                   /\ Continues(stage) /\ UNCHANGED <<recorded, stale>>

\* A group that the state has is replaced, one that it has not must be new.
CreateGroup(g) ==
    /\ stage.step = "apply" /\ stage.waits = None /\ aws.cluster /\ g \in stage.plan.create
    /\ IF g \in Live \ recorded \/ Status(g) = "CREATING" THEN Refused
       ELSE /\ aws' = [aws EXCEPT !.group[g] = "CREATING", !.size[g] = stage.plan.size[g]]
            /\ Continues([stage EXCEPT !.waits = g, !.plan.create = @ \ {g}])
            /\ UNCHANGED <<recorded, stale>>

GroupCreated ==
    /\ stage.step = "apply" /\ stage.waits # None /\ Status(stage.waits) # "CREATING"
    /\ recorded' = recorded \cup {stage.waits}
    /\ Continues(IF Status(stage.waits) = "ACTIVE" THEN [stage EXCEPT !.waits = None] ELSE Ready)
    /\ UNCHANGED <<aws, stale>>

Applied ==
    /\ stage.step = "apply" /\ stage.waits = None /\ stage.plan.create = {}
    /\ aws.cluster /\ aws.allowed = stage.plan.list
    /\ stage.plan.replicas \in {-1, aws.cache.replicas}
    /\ Refused

\* A command fails or the job is canceled; Terraform may be killed while it waits.
StageFails ==
    /\ stage.step \notin {"ready", "network"}
    /\ recorded' \in {recorded} \cup
          IF stage.step = "apply" /\ stage.waits # None THEN {recorded \cup {stage.waits}} ELSE {}
    /\ Continues(Ready) /\ UNCHANGED <<aws, stale>>
-----------------------------------------------------------------------------
(* A job that destroys: compute, what the network plugin left, the rest.   *)
DeleteGroup(g) ==
    /\ stage.step = "compute" /\ g \in recorded
    /\ Status(g) # "CREATING"
    /\ aws' = [aws EXCEPT !.group[g] = None] /\ recorded' = recorded \ {g}
    /\ Continues(stage) /\ UNCHANGED stale

\* AWS keeps a cluster that has node groups.
DeleteCluster ==
    /\ stage.step = "compute" /\ recorded = {} /\ Live = {}
    /\ aws' = [aws EXCEPT !.cluster = FALSE, !.allowed = {}]
    /\ Continues([step |-> "cleanup", pass |-> 1]) /\ UNCHANGED <<recorded, stale>>

\* cleanupOrphanedEKSNetworkResources
Left == {g \in NodeGroup : aws.interface[g] # None}

CleanInterface(g) ==
    /\ stage.step = "cleanup" /\ aws.network /\ aws.interface[g] = "available"
    /\ aws' = [aws EXCEPT !.interface[g] = None]
    /\ Continues(stage) /\ UNCHANGED <<recorded, stale>>

CleanupEnds ==
    /\ stage.step = "cleanup" /\ (aws.network => Left = {})
    /\ Continues([stage EXCEPT !.step = "network"]) /\ UNCHANGED <<aws, recorded, stale>>

\* The network goes when nothing uses it; a first failure gets a second pass.
DeleteNetwork ==
    /\ stage.step = "network" /\ {g \in NodeGroup : aws.interface[g] # None} = {}
    /\ aws' = [aws EXCEPT !.network = FALSE, !.cache = NoCache]
    /\ Continues(Ready) /\ UNCHANGED <<recorded, stale>>

NetworkFails ==
    /\ stage.step = "network"
    /\ Continues(IF stage.pass = 1 THEN [step |-> "cleanup", pass |-> 2] ELSE Ready)
    /\ UNCHANGED <<aws, recorded, stale>>
-----------------------------------------------------------------------------
\* Nothing has been deployed yet.
StagesInit ==
    /\ wanted \in [size : [NodeGroup -> {-1, 1}], addresses : {{CHOOSE a \in Address : TRUE}},
                   replicas : {-1, 1}]
    /\ aws = [network |-> FALSE, cluster |-> FALSE, allowed |-> {}, group |-> [g \in NodeGroup |-> None],
              size |-> [g \in NodeGroup |-> 0], interface |-> [g \in NodeGroup |-> None],
              cache |-> NoCache, others |-> 0]
    /\ recorded = {} /\ stage = Ready
    /\ spent = [saves |-> 0, stages |-> 0, changes |-> 0]
    /\ stale = FALSE /\ late = {}

StagesNext ==
    \/ SaveDocument \/ EditAddresses \/ UseQuota
    \/ StartStage \/ ReadAddresses \/ CheckQuota \/ MakePlan \/ PrepareCache
    \/ ApplyBase \/ ApplyCache \/ GroupCreated \/ Applied \/ StageFails
    \/ DeleteCluster \/ CleanupEnds \/ DeleteNetwork \/ NetworkFails
    \/ \E g \in NodeGroup : \/ Settle(g) \/ Release(g) \/ Adopt(g) \/ CreateGroup(g)
                        \/ DeleteGroup(g) \/ CleanInterface(g)

StagesSpec == StagesInit /\ [][StagesNext]_stageVars
-----------------------------------------------------------------------------
\* A node group that an interrupted job has created is imported or waited for: no apply
\* creates one that exists, unless the document was saved after the job had read it.
CreatesAreNew ==
    stage.step = "apply" /\ ~stale => stage.plan.create \cap Live \subseteq recorded

\* "AWS console additions survive every later platform deployment": an apply takes no
\* address from the list but those added since the job read it.
ConsoleAddressesStay ==
    [][(spent'.changes = spent.changes /\ aws'.cluster)
        => aws.allowed \ aws'.allowed \subseteq late]_stageVars

\* Failover is off before the last replica goes, so the apply is not refused.
ReplicasGoWithoutFailover ==
    stage.step = "apply" /\ stage.plan.replicas = 0 /\ aws.cache.failover => stale

\* "blocks an apply before Terraform when the desired initial capacity cannot fit": the
\* groups of a plan fit into the quota, as long as nobody else uses it up; the nodes of a
\* group that failed and is replaced count as if they were running.
RoomIsLeft ==
    stage.step = "cache" /\ ~stale =>
        LET new == Nodes(stage.plan.size, stage.plan.create \ Live)
        IN  new = 0 \/ new <= Free

\* The network is removed after the last interface of the cluster, however late it is
\* released.
NetworkIsFree == stage.step = "network" /\ aws.network => Left = {}

\* Nothing is asked of AWS that it refuses because of what is there already or still.
NothingIsInTheWay == CreatesAreNew /\ ReplicasGoWithoutFailover /\ NetworkIsFree
=============================================================================
