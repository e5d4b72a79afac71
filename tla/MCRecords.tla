-------------------------------- MODULE MCRecords ------------------------------
(***************************************************************************)
(* One run for the rows that handlers of the HTTP API read, check and      *)
(* write back without a transaction, environments, their documents and     *)
(* accounts, and for the cluster and the ingresses that a document         *)
(* describes; and what a project has in GitLab and Jenkins.  Only one part *)
(* moves, the one chosen at the start.                                     *)
(***************************************************************************)
EXTENDS MCEnvironmentLifecycle, Sessions, DocumentUpgrade, ClusterStages,
        MCDomainRoutes, DeployTokens, DeliveryRepositories

VARIABLE part

OldClass == [app |-> "application", ops |-> "platform"]

\* A document that does not move has one first state.
FirstDocument == CHOOSE d \in OldServices : TRUE

FirstWanted ==
    [size |-> [g \in NodeGroup |-> 1], addresses |-> {CHOOSE a \in Address : TRUE}, replicas |-> 1]

\* The two services of a path are alike: the first rule has either.
FirstRoutes == CHOOSE R \in RouteSet : TRUE

RecordsInit ==
    /\ part \in {"environments", "accounts", "documents", "cluster", "routes", "tokens", "delivery"}
    /\ MCInit /\ (part # "environments" => setting = "gate")
    /\ SessionsInit
    /\ UpgradeInit /\ (part # "documents" => document = FirstDocument /\ world = NoWorld)
    /\ StagesInit /\ (part # "cluster" => wanted = FirstWanted)
    /\ RoutesInit /\ Cardinality({n \in Name : live[n] # Absent}) \leq (IF part = "routes" THEN 1 ELSE 0)
    /\ part # "routes" => domains = <<>>
    /\ \A i \in DOMAIN domains : domains[i].routes = FirstRoutes
    /\ TokensInit
    /\ DeliveryInit /\ binding.group = CHOOSE g \in Groups : TRUE

RecordsNext ==
    /\ UNCHANGED part
    /\ \/ part = "environments" /\ MCNext
       \/ part # "environments" /\ UNCHANGED MCvars
    /\ \/ part = "accounts" /\ SessionsNext
       \/ part # "accounts" /\ UNCHANGED sessionVars
    /\ \/ part = "documents" /\ UpgradeNext
       \/ part # "documents" /\ UNCHANGED upgradeVars
    /\ \/ part = "cluster" /\ StagesNext
       \/ part # "cluster" /\ UNCHANGED stageVars
    /\ \/ part = "routes" /\ RoutesNext
       \/ part # "routes" /\ UNCHANGED routeVars
    /\ \/ part = "tokens" /\ ~overtakenBy /\ TokensNext
       \/ part # "tokens" /\ UNCHANGED tokenVars
    /\ \/ part = "delivery" /\ DeliveryNext
       \/ part # "delivery" /\ UNCHANGED deliveryVars

\* What changes: the part that moves.
Moving ==
    CASE part = "environments" -> <<part, MCvars>>
      [] part = "accounts" -> <<part, sessionVars>>
      [] part = "documents" -> <<part, upgradeVars>>
      [] part = "cluster" -> <<part, stageVars>>
      [] part = "routes" -> <<part, routeVars>>
      [] part = "tokens" -> <<part, tokenVars>>
      [] part = "delivery" -> <<part, deliveryVars>>

recordsVars == <<part, MCvars, sessionVars, upgradeVars, stageVars, routeVars, tokenVars,
                 deliveryVars>>

RecordsSpec == RecordsInit /\ [][RecordsNext]_recordsVars
===============================================================================
