------------------------------ MODULE DomainRoutes -----------------------------
(***************************************************************************)
(* The domain rules of an environment's document and the ingresses of its  *)
(* cluster.  Phase two makes ingresses of the rules, the synchronisation   *)
(* makes rules of the ingresses, and the online editor writes ingresses    *)
(* that no rule names.  The three run side by side, and nothing that       *)
(* stores a document looks whether it was stored by somebody else since.   *)
(***************************************************************************)
EXTENDS Integers, Sequences, FiniteSetsExt

CONSTANTS
    Host,           \* names of hosts
    Route,          \* pairs of a path of a host and the service behind it
    Name,           \* names of ingresses; a rule without a name takes the host's
    MaxRules,       \* bound on the rules of a document
    MaxWork         \* bound on saves, edits, synchronisations and deployments

ASSUME RulesAssumption == Host \subseteq Name /\ IsFiniteSet(Name) /\ MaxRules \in Nat

Absent == [host |-> "none", routes |-> {}, version |-> 0]
NoRequest == [step |-> "idle"]

VARIABLES
    domains,    \* the rules of the stored document
    live,       \* the ingress of each name
    keys,       \* Terraform's state: the name behind each position of the rules
    cached,     \* the listing that the status service keeps for ten seconds
    loading,    \* the listing that some request is reading for it
    sync,       \* a synchronisation in progress
    editor,     \* a request of the online editor in progress
    deployment, \* phase two in progress
    revision,   \* the cluster's resource version
    work,       \* what was begun so far (bound)
    manual,     \* ingresses last written by the editor while no rule and no state had them
    renewed     \* the revision when a listing was last dropped while none was being read

listingVars == <<cached, loading, renewed>>
routeVars == <<domains, live, keys, listingVars, sync, editor, deployment, revision, work, manual>>

Clash(routes) == \E r, s \in routes : r[1] = s[1] /\ r # s
RouteSet == {R \in SUBSET Route : R # {} /\ ~Clash(R)}
Rule == [name : Name, host : Host, routes : RouteSet]
Documents == UNION {[1 .. n -> Rule] : n \in 0 .. MaxRules}

RulesOf(d, h) == {i \in DOMAIN d : d[i].host = h}
Wanted(d, h) == UNION {d[i].routes : i \in RulesOf(d, h)}
IngressesOf(l, h) == {n \in Name : l[n].host = h}
Actual(l, h) == UNION {l[n].routes : n \in IngressesOf(l, h)}
Named(d) == {d[i].name : i \in DOMAIN d}
Tracked == {keys[k] : k \in DOMAIN keys} \ {"none"}
Starts == work < MaxWork /\ work' = work + 1
-----------------------------------------------------------------------------
(* The listing, one for all requests, and what drops it.                   *)

\* Mutant: the key of the listing is forgotten.
Keep == UNCHANGED cached
Forget == cached' = {}

\* What is read after this is as new as the cluster is now.
Renew == renewed' = (IF loading = {} THEN revision' ELSE renewed) /\ UNCHANGED loading

Expire ==
    /\ cached' = {}
    /\ UNCHANGED <<domains, live, keys, sync, editor, deployment, revision, work, manual>>
    /\ Renew

\* A page, a preview or a synchronisation finds no listing; others wait for the same one.
ReadIngresses ==
    /\ cached = {} /\ loading = {} /\ loading' = {live}
    /\ UNCHANGED <<domains, live, keys, cached, sync, editor, deployment, revision, work, manual, renewed>>

HasListing(l) == sync' = [step |-> "load", since |-> sync.since, listing |-> l]

IngressesRead ==
    /\ loading # {} /\ loading' = {}
    /\ \/ cached' = loading
          /\ IF sync.step = "list" THEN \E l \in loading : HasListing(l) ELSE UNCHANGED sync
       \/ UNCHANGED cached    \* kubectl failed, and with it whoever waits
          /\ sync' = IF sync.step = "list" THEN NoRequest ELSE sync
    /\ UNCHANGED <<domains, live, keys, editor, deployment, revision, work, manual, renewed>>
-----------------------------------------------------------------------------
(* Users save the document that their form sends, whatever is stored now.  *)
SaveDomains ==
    /\ Starts
    /\ domains' \in Documents
    /\ UNCHANGED <<live, keys, sync, editor, deployment, revision, manual>>
    /\ Forget /\ Renew
-----------------------------------------------------------------------------
(* Synchronisation of the rules with the cluster.                          *)

ClusterWins(d, l, h) == Actual(l, h) \notin {{}, Wanted(d, h)} /\ ~Clash(Actual(l, h))

Rewritten(d, l, h) ==
    /\ RulesOf(d, h) # {} /\ ~Clash(Wanted(d, h))
    /\ ClusterWins(d, l, h) \/ Cardinality(RulesOf(d, h)) > 1

RuleStays(d, l, i) == Rewritten(d, l, d[i].host) => i = Min(RulesOf(d, d[i].host))

NewRule(d, l, i) ==
    LET h == d[i].host
    IN  IF ~Rewritten(d, l, h) THEN d[i]
        ELSE [d[i] EXCEPT !.routes = IF ClusterWins(d, l, h) THEN Actual(l, h) ELSE Wanted(d, h)]

Imported(l, h) ==
    [name |-> IF Cardinality(IngressesOf(l, h)) = 1 THEN CHOOSE n \in IngressesOf(l, h) : TRUE ELSE h,
     host |-> h, routes |-> Actual(l, h)]

\* The rules that stay keep their order; the new hosts are sorted, in an order of theirs.
Ascending(I) == [j \in 1 .. Cardinality(I) |-> CHOOSE i \in I : Cardinality({m \in I : m <= i}) = j]
Listed(S) == CHOOSE s \in Bijection(1 .. Cardinality(S), S) : TRUE

\* SyncIngressesToDomainConfigFromCluster
Synced(d, l) ==
    LET stay == Ascending({i \in DOMAIN d : RuleStays(d, l, i)})
        new  == {h \in Host : RulesOf(d, h) = {} /\ Actual(l, h) # {} /\ ~Clash(Actual(l, h))}
    IN  [j \in DOMAIN stay |-> NewRule(d, l, stay[j])] \o Listed({Imported(l, h) : h \in new})

StartSync ==
    /\ sync = NoRequest /\ Starts
    /\ sync' = [step |-> "list", since |-> renewed]
    /\ UNCHANGED <<domains, live, keys, listingVars, editor, deployment, revision, manual>>

SyncIs == UNCHANGED <<live, keys, editor, deployment, revision, work, manual>>

TakeListing ==
    /\ sync.step = "list" /\ \E l \in cached : HasListing(l)
    /\ UNCHANGED <<domains, listingVars>> /\ SyncIs

LoadRules ==
    /\ sync.step = "load"
    /\ sync' = [step |-> "save", since |-> sync.since, listing |-> sync.listing, rules |-> domains]
    /\ UNCHANGED <<domains, listingVars>> /\ SyncIs

\* Over whatever was saved since it was loaded.
SaveSynced ==
    /\ sync.step = "save"
    /\ domains' = Synced(sync.rules, sync.listing)
    /\ sync' = NoRequest /\ SyncIs
    /\ Forget /\ Renew

\* A preview, or an error: nothing is saved and the listing is kept.
SyncReturns ==
    /\ sync # NoRequest /\ sync' = NoRequest
    /\ UNCHANGED <<domains, listingVars>> /\ SyncIs
-----------------------------------------------------------------------------
(* The online editor.                                                      *)
Write(n, ingress) ==
    /\ live' = [live EXCEPT ![n] = IF ingress = Absent THEN Absent
                                   ELSE [ingress EXCEPT !.version = revision + 1]]
    /\ revision' = revision + 1

EditorIs(e) == editor' = e /\ UNCHANGED <<domains, keys, sync, deployment, work>>

\* The form has the version that it was opened with, 0 for a new ingress.
OpenEditor(n) ==
    /\ editor = NoRequest /\ Starts
    /\ \E h \in IF live[n] = Absent THEN Host ELSE {live[n].host}, R \in RouteSet :
       \E ingress \in {[host |-> h, routes |-> R, version |-> live[n].version], Absent} :
          /\ live[n] = Absent => ingress # Absent
          /\ editor' = [step |-> "check", name |-> n, base |-> live[n].version, ingress |-> ingress]
    /\ UNCHANGED <<domains, live, keys, listingVars, sync, deployment, revision, manual>>

\* Mutant: an ingress that a rule names is edited as well.
NobodysOrNot(n) == TRUE
Nobodys(n) == n \notin Named(domains)

CheckEdit ==
    /\ editor.step = "check"
    /\ EditorIs(IF Nobodys(editor.name)
                THEN [step |-> "compare", name |-> editor.name, base |-> editor.base,
                      ingress |-> editor.ingress, named |-> editor.name \in Named(domains)]
                ELSE NoRequest)
    /\ UNCHANGED <<live, listingVars, revision, manual>>

CompareEdit ==
    /\ editor.step = "compare"
    /\ EditorIs(IF live[editor.name].version = editor.base THEN [editor EXCEPT !.step = "write"] ELSE NoRequest)
    /\ UNCHANGED <<live, listingVars, revision, manual>>

\* kubectl apply without a resource version, or kubectl delete.
WriteEdit ==
    /\ editor.step = "write"
    /\ Write(editor.name, editor.ingress)
    /\ \/ Forget /\ Renew
       \/ UNCHANGED listingVars    \* done, but not confirmed or not read back
    /\ EditorIs(NoRequest)
    /\ manual' = IF editor.ingress = Absent \/ (editor.name \in Tracked /\ ~editor.named)
                 THEN manual \ {editor.name} ELSE manual \cup {editor.name}
-----------------------------------------------------------------------------
(* Phase two: Terraform has one ingress for each position of the rules.    *)
DeploymentIs(s) == deployment' = s /\ UNCHANGED <<domains, listingVars, sync, editor, work>>

AsDesired(d, k) ==
    IF k \in DOMAIN d
    THEN keys[k] = d[k].name /\ live[keys[k]].host = d[k].host /\ live[keys[k]].routes = d[k].routes
    ELSE keys[k] = "none"

StartDeployment ==
    /\ deployment = NoRequest /\ Starts
    /\ deployment' = [step |-> "store", rules |-> domains]
    /\ UNCHANGED <<domains, live, keys, listingVars, sync, editor, revision, manual>>

\* The runner stores the document it has loaded and completed; the listing stays.
StoreDocument ==
    /\ deployment.step = "store"
    /\ domains' = deployment.rules
    /\ deployment' = [step |-> "plan"]
    /\ UNCHANGED <<live, keys, listingVars, sync, editor, revision, work, manual>>

\* Terraform reads the stored document itself.
PlanDeployment ==
    /\ deployment.step = "plan"
    /\ DeploymentIs([step |-> "apply", rules |-> domains,
                     todo |-> {k \in DOMAIN keys : ~AsDesired(domains, k)}])
    /\ UNCHANGED <<live, keys, revision, manual>>

\* The ingress of a position that has another name now, or none, is deleted first.
DeleteIngress(k) ==
    /\ deployment.step = "apply" /\ k \in deployment.todo /\ keys[k] # "none"
    /\ k \in DOMAIN deployment.rules => keys[k] # deployment.rules[k].name
    /\ Write(keys[k], Absent) /\ manual' = manual \ {keys[k]}
    /\ keys' = [keys EXCEPT ![k] = "none"]
    /\ deployment' = IF k \in DOMAIN deployment.rules THEN deployment
                     ELSE [deployment EXCEPT !.todo = @ \ {k}]
    /\ UNCHANGED <<domains, listingVars, sync, editor, work>>

\* An ingress that exists is not created a second time.
PutIngress(k) ==
    /\ deployment.step = "apply" /\ k \in deployment.todo /\ k \in DOMAIN deployment.rules
    /\ keys[k] \in {"none", deployment.rules[k].name}
    /\ LET n == deployment.rules[k].name
       IN  IF keys[k] = "none" /\ live[n] # Absent
           THEN DeploymentIs(NoRequest) /\ UNCHANGED <<live, keys, revision, manual>>
           ELSE /\ Write(n, [host |-> deployment.rules[k].host, routes |-> deployment.rules[k].routes,
                             version |-> 0])
                /\ keys' = [keys EXCEPT ![k] = n] /\ manual' = manual \ {n}
                /\ DeploymentIs([deployment EXCEPT !.todo = @ \ {k}])

DeploymentEnds ==
    /\ deployment # NoRequest    \* finished, failed or canceled
    /\ DeploymentIs(NoRequest) /\ UNCHANGED <<live, keys, revision, manual>>
-----------------------------------------------------------------------------
RoutesInit ==
    /\ domains \in {<<>>} \cup {<<r>> : r \in Rule}
    /\ live \in [Name -> {Absent} \cup [host : Host, routes : RouteSet, version : {1}]]
    /\ keys = [k \in 1 .. MaxRules |-> "none"]
    /\ cached = {} /\ loading = {} /\ renewed = 1
    /\ sync = NoRequest /\ editor = NoRequest /\ deployment = NoRequest
    /\ revision = 1 /\ work = 0 /\ manual = {}

RoutesNext ==
    \/ SaveDomains \/ Expire \/ ReadIngresses \/ IngressesRead
    \/ StartSync \/ TakeListing \/ LoadRules \/ SaveSynced \/ SyncReturns
    \/ \E n \in Name : OpenEditor(n)
    \/ CheckEdit \/ CompareEdit \/ WriteEdit
    \/ StartDeployment \/ StoreDocument \/ PlanDeployment \/ DeploymentEnds
    \/ \E k \in 1 .. MaxRules : DeleteIngress(k) \/ PutIngress(k)

RoutesSpec == RoutesInit /\ [][RoutesNext]_routeVars
-----------------------------------------------------------------------------
\* "treats EKS as authoritative for every registered host": a synchronisation that begins
\* after the last change of the cluster, and after a listing from before it was dropped,
\* leaves a host with the routes of the cluster whenever these are unambiguous, even if it
\* takes its listing from the cache and somebody saves meanwhile.  A host that the cluster
\* does not serve has the routes that it had when the request loaded the document (a save
\* since then is lost), and no path of a host gets a second backend.
SyncFollowsCluster ==
    [][SaveSynced
        => \A h \in Host :
              LET actual == Actual(live, h)
                  own    == Wanted(sync.rules, h)
              IN  /\ (sync.since = revision /\ actual # {} /\ ~Clash(actual) /\ ~Clash(own))
                      => Wanted(domains', h) = actual
                  /\ (sync.since = revision /\ actual = {}) => Wanted(domains', h) = own
                  /\ Clash(Wanted(domains', h)) => Clash(own)]_routeVars

\* The editor refuses what a rule names, so that phase two does not overwrite manual
\* changes; what was removed from the rules and is still deployed is the exception.
ManualChangesStay ==
    [][deployment # NoRequest /\ editor' = editor => \A n \in manual : live'[n] = live[n]]_routeVars

\* "It never removes desired routes that have not reached the cluster yet."
SyncKeepsPendingRoutes ==
    [][SaveSynced
        => \A h \in Host : \A r \in Wanted(sync.rules, h) :
              (\A a \in Actual(sync.listing, h) : a[1] # r[1]) => r \in Wanted(domains', h)]_routeVars
=============================================================================
