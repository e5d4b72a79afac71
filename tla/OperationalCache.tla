--------------------------- MODULE OperationalCache ---------------------------
(***************************************************************************)
(* The in-process cache of live cluster observations                       *)
(* (internal/status/operational_cache.go).  Requests for the same key are  *)
(* coalesced: the first one runs the loader, the others wait for its       *)
(* result, which then stays in the cache for a few seconds.  Every loader  *)
(* first asks the same cache for the credentials of the cluster            *)
(* (kubernetesContext), so a request can lead one call and wait in         *)
(* another.                                                                *)
(*                                                                         *)
(* The value of a view is the number of the cluster change it was read     *)
(* after, the value of the access only says that there is one; an entry    *)
(* that has expired is one that is not there.  One step is one critical    *)
(* section of cache.mu, one read of the cluster, or the end of a request.  *)
(***************************************************************************)
EXTENDS Naturals

CONSTANTS
    Caller,      \* goroutines of HTTP requests
    Key,         \* cache keys of one target
    Access,      \* the key of kubernetesContext, which the other loaders ask for
    Nobody,      \* the leader of a key that is not being loaded
    MaxVersion   \* bound on the changes of the cluster

ASSUME OperationalCacheAssumption ==
    /\ Access \in Key
    /\ Nobody \notin Caller
    /\ MaxVersion \in Nat \ {0}

None  == 0            \* no entry, no result yet, or an error
Token == 1            \* a kubeconfig
View  == Key \ {Access}

VARIABLES
    live,       \* the last change of the cluster
    entry,      \* cache.entries
    flight,     \* cache.calls: the request that runs the loader of a key
    frame,      \* frame[c][k]: where request c is inside loadOperationalValue
    got,        \* got[c][k]: the value this call returns, None for an error
    over,       \* requests whose context is done
    \* history
    due,        \* what a request for a key must get to see: the newest value
                \* published, and all changes before an invalidation that met
                \* no running loader
    asked       \* asked[c][k]: what was due when c asked for k

cache   == <<entry, flight>>
calls   == <<frame, got, over>>
history == <<due, asked>>
vars    == <<live, cache, calls, history>>

Loading == {"leading", "read"}
AtLeast(m, n) == IF m > n THEN m ELSE n

-------------------------------------------------------------------------------
(* loadOperationalValue, as the request c goes through it for the key k.   *)

\* A view is asked for by an idle request, the access by the loader of a view.
Asks(c, k) ==
    /\ frame[c][k] = "none"
    /\ IF k = Access THEN \E v \in View : frame[c][v] = "leading"
                     ELSE \A v \in View : frame[c][v] = "none"

Enter(c, k, where) ==
    /\ Asks(c, k)
    /\ frame' = [frame EXCEPT ![c][k] = where]
    /\ asked' = [asked EXCEPT ![c][k] = due[k]]

Hit(c, k) ==
    /\ entry[k] # None
    /\ Enter(c, k, "back")
    /\ got' = [got EXCEPT ![c][k] = entry[k]]
    /\ UNCHANGED <<live, cache, over, due>>

\* A call for this key is in flight: wait for it.
Join(c, k) ==
    /\ entry[k] = None /\ flight[k] # Nobody
    /\ Enter(c, k, "waiting")
    /\ UNCHANGED <<live, cache, got, over, due>>

\* Mutant: the calls in flight are not looked at.
LeadAnyway(c, k) ==
    /\ entry[k] = None
    /\ Enter(c, k, "leading")
    /\ flight' = [flight EXCEPT ![k] = c]
    /\ UNCHANGED <<live, entry, got, over, due>>
Lead(c, k) ==
    /\ entry[k] = None /\ flight[k] = Nobody
    /\ Enter(c, k, "leading")
    /\ flight' = [flight EXCEPT ![k] = c]
    /\ UNCHANGED <<live, entry, got, over, due>>

\* The loader is done; the frame of its own request for the access goes away.
LoaderReturns(c, k, value) ==
    /\ frame[c][k] = "leading"
    /\ frame' = [frame EXCEPT ![c][k] = "read", ![c][Access] =
                   IF k = Access THEN "read" ELSE "none"]
    /\ got'   = [got EXCEPT ![c][k] = value, ![c][Access] =
                   IF k = Access THEN value ELSE None]
    /\ asked' = [asked EXCEPT ![c][Access] =
                   IF k = Access THEN @ ELSE None]
    /\ UNCHANGED <<live, cache, over, due>>

\* AWS CLI and kubectl read the cluster; a view needs the access first.
Observe(c, k) ==
    /\ c \notin over
    /\ k # Access => frame[c][Access] = "back" /\ got[c][Access] # None
    /\ LoaderReturns(c, k, IF k = Access THEN Token ELSE live)

\* A command fails, runs into its own timeout, or dies with its context.
LoaderFails(c, k) ==
    /\ k # Access => frame[c][Access] \in {"none", "back"}
    /\ LoaderReturns(c, k, None)

\* Mutant: the channel of the call is not closed.
PublishSilently(c, k) ==
    /\ frame[c][k] = "read"
    /\ entry'  = [entry EXCEPT ![k] = IF got[c][k] = None THEN @ ELSE got[c][k]]
    /\ flight' = [flight EXCEPT ![k] = Nobody]
    /\ frame'  = [frame EXCEPT ![c][k] = "back"]
    /\ due'    = [due EXCEPT ![k] = AtLeast(@, got[c][k])]
    /\ UNCHANGED <<live, got, over, asked>>
\* The result is stored, the call unregistered and its channel closed, which
\* wakes every waiter with the same result.
Publish(c, k) ==
    /\ frame[c][k] = "read"
    /\ entry'  = [entry EXCEPT ![k] = IF got[c][k] = None THEN @ ELSE got[c][k]]
    /\ flight' = [flight EXCEPT ![k] = Nobody]
    /\ frame'  = [d \in Caller |-> [frame[d] EXCEPT ![k] =
                    CASE d = c         -> "back"
                      [] @ = "waiting" -> "ready"
                      [] OTHER         -> @]]
    /\ got'    = [d \in Caller |-> [got[d] EXCEPT ![k] =
                    IF frame[d][k] = "waiting" THEN got[c][k] ELSE @]]
    /\ due'    = [due EXCEPT ![k] = AtLeast(@, got[c][k])]
    /\ UNCHANGED <<live, over, asked>>

\* The select of a waiter: the closed channel, or its own context.
Wake(c, k) ==
    /\ frame[c][k] = "ready"
    /\ frame' = [frame EXCEPT ![c][k] = "back"]
    /\ UNCHANGED <<live, cache, got, over, history>>

GiveUp(c, k) ==
    /\ c \in over
    /\ frame[c][k] \in {"waiting", "ready"}
    /\ frame' = [frame EXCEPT ![c][k] = "back"]
    /\ got'   = [got EXCEPT ![c][k] = None]
    /\ UNCHANGED <<live, cache, over, history>>

\* The client goes away, or the 60 to 120 seconds of the handler are over.
HangUp(c) ==
    /\ c \notin over
    /\ \E v \in View : frame[c][v] # "none"
    /\ over' = over \cup {c}
    /\ UNCHANGED <<live, cache, frame, got, history>>

\* The handler writes its response.
Respond(c, v) ==
    /\ frame[c][v] = "back"
    /\ frame' = [frame EXCEPT ![c][v] = "none"]
    /\ got'   = [got EXCEPT ![c][v] = None]
    /\ asked' = [asked EXCEPT ![c][v] = None]
    /\ over'  = over \ {c}
    /\ UNCHANGED <<live, cache, due>>

-------------------------------------------------------------------------------
(* Around the requests.                                                    *)

\* kubectl, a deployment job or the ingress editor changes the cluster.
Change ==
    /\ live < MaxVersion
    /\ live' = live + 1
    /\ UNCHANGED <<cache, calls, history>>

Expire(k) ==
    /\ entry[k] # None
    /\ entry' = [entry EXCEPT ![k] = None]
    /\ UNCHANGED <<live, flight, calls, history>>

\* Mutant: the comparison of the prefix never matches.
InvalidateNothing(keys) ==
    /\ due' = [k \in Key |-> IF k \in keys \ {Access} /\ flight[k] = Nobody
                             THEN live ELSE due[k]]
    /\ UNCHANGED <<live, cache, calls, asked>>
\* delete and deleteTarget: after a change made by the platform itself, and
\* before a topology that was asked for with fresh=true.
Invalidate(keys) ==
    /\ entry' = [k \in Key |-> IF k \in keys THEN None ELSE entry[k]]
    /\ due'   = [k \in Key |-> IF k \in keys \ {Access} /\ flight[k] = Nobody
                               THEN live ELSE due[k]]
    /\ UNCHANGED <<live, flight, calls, asked>>

Resources == {{v} : v \in View} \cup {Key}

-------------------------------------------------------------------------------

Init ==
    /\ live   = 1
    /\ entry  = [k \in Key |-> None]
    /\ flight = [k \in Key |-> Nobody]
    /\ frame  = [c \in Caller |-> [k \in Key |-> "none"]]
    /\ got    = [c \in Caller |-> [k \in Key |-> None]]
    /\ over   = {}
    /\ due    = [k \in Key |-> None]
    /\ asked  = [c \in Caller |-> [k \in Key |-> None]]

Ask(c, k)  == Hit(c, k) \/ Join(c, k) \/ Lead(c, k)
Load(c, k) == Observe(c, k) \/ LoaderFails(c, k)
Call(c, k) == \/ Ask(c, k) \/ Load(c, k) \/ Publish(c, k)
              \/ Wake(c, k) \/ GiveUp(c, k)

Work == \/ \E c \in Caller, k \in Key : Call(c, k)
        \/ \E c \in Caller, v \in View : Respond(c, v)
        \/ \E c \in Caller : HangUp(c)
        \/ Change
        \/ \E k \in Key : Expire(k)

Next == \/ Work
        \/ \E keys \in Resources : Invalidate(keys)

Spec == Init /\ [][Next]_vars

\* Goroutines run; a loader ends because each command it waits for has a
\* timeout of its own (capture).  Nobody has to ask, to hang up, or to change
\* the cluster.
Fairness == \A c \in Caller, k \in Key :
    /\ WF_vars(Ask(c, Access))
    /\ WF_vars(Load(c, k)) /\ WF_vars(Publish(c, k))
    /\ WF_vars(Wake(c, k) \/ GiveUp(c, k))

FairSpec == Spec /\ Fairness

-------------------------------------------------------------------------------
(* Properties.                                                             *)

TypeOK ==
    /\ live \in Nat
    /\ entry  \in [Key -> Nat]
    /\ flight \in [Key -> Caller \cup {Nobody}]
    /\ frame  \in [Caller -> [Key ->
                     {"none", "waiting", "ready", "leading", "read", "back"}]]
    /\ got    \in [Caller -> [Key -> Nat]]
    /\ over   \in SUBSET Caller
    /\ due    \in [Key -> Nat]
    /\ asked  \in [Caller -> [Key -> Nat]]

\* "It also coalesces identical in-flight requests": no two requests ever run
\* the loader of the same key together, the nested one included.
SingleFlight ==
    \A c, d \in Caller, k \in Key :
        frame[c][k] \in Loading /\ frame[d][k] \in Loading => c = d

\* A waiter always waits for a call that is still being made, and never for its
\* own, so the close of the channel cannot have been missed.
WaitersAreServed ==
    \A c \in Caller, k \in Key :
        frame[c][k] = "waiting" =>
            /\ flight[k] \in Caller \ {c}
            /\ frame[flight[k]][k] \in Loading

Answered(c, k) == frame[c][k] = "back" /\ got[c][k] # None

\* A request is never answered with an observation older than one that had been
\* published when it asked, nor older than the last invalidation it followed,
\* unless a loader was running at that invalidation: whatever expires, fails or
\* is given up meanwhile, a page never shows an older cluster than the one before.
AnswersNeverGoBack ==
    \A c \in Caller, k \in Key : Answered(c, k) => got[c][k] >= asked[c][k]

\* Every request is answered, although it may lead one call and wait in another.
RequestsReturn ==
    \A c \in Caller, v \in View :
        frame[c][v] # "none" ~> frame[c][v] \in {"none", "back"}

-------------------------------------------------------------------------------
(* The inductive invariant behind the safety properties.                   *)

\* cache.calls and the goroutines agree on who runs which loader.
FlightsAreLed ==
    /\ \A c \in Caller, k \in Key : frame[c][k] \in Loading => flight[k] = c
    /\ \A k \in Key : flight[k] # Nobody => frame[flight[k]][k] \in Loading

\* Nothing is newer than what can be read.
Newest(k) == IF k = Access THEN Token ELSE live
NothingFromTheFuture ==
    /\ live >= Token
    /\ \A k \in Key : entry[k] <= Newest(k) /\ due[k] <= Newest(k)
    /\ \A c \in Caller, k \in Key : got[c][k] <= Newest(k)

\* What is stored, or about to be, is as new as a later request may ask for.
StoredIsDue ==
    /\ \A k \in Key : entry[k] # None => entry[k] >= due[k]
    /\ \A c \in Caller, k \in Key :
          /\ asked[c][k] <= due[k]
          /\ frame[c][k] = "read" /\ got[c][k] # None => got[c][k] >= due[k]
          /\ frame[c][k] = "ready" /\ got[c][k] # None => got[c][k] >= asked[c][k]

IInv ==
    /\ TypeOK
    /\ FlightsAreLed
    /\ WaitersAreServed
    /\ NothingFromTheFuture
    /\ StoredIsDue
    /\ AnswersNeverGoBack
===============================================================================
