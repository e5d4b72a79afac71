------------------------------- MODULE KubeTunnel ------------------------------
(***************************************************************************)
(* Port-forwards to the Jenkins of each environment                        *)
(* (internal/kubetunnel/manager.go).  Ensure works under the manager's     *)
(* mutex from the check to the answer; the goroutine that waits for the    *)
(* end of a kubectl process takes the mutex afterwards, when another       *)
(* tunnel may already have taken the place of its own.                     *)
(***************************************************************************)
EXTENDS Naturals

CONSTANTS
    Environments,   \* keys project/environment
    Endpoints,      \* target, region, cluster, namespace, service and port
    Callers,        \* requests that need a tunnel
    MaxTunnels      \* bound on the processes started

ASSUME KubeTunnelAssumption == MaxTunnels \in Nat /\ "unlocked" \notin Callers

VARIABLES
    tunnelOf,   \* the map: the tunnel of each environment, or NoTunnel
    tunnel,     \* each tunnel: its environment and endpoint, alive, and its process
    started,    \* tunnels started
    closed,     \* Close has run
    mutex,      \* the caller in Ensure, or Unlocked
    caller      \* what each caller wants and where it is

tunnelVars == <<tunnelOf, tunnel, started, closed, mutex, caller>>

NoTunnel == 0
Unlocked == "unlocked"
Tunnels == 1 .. MaxTunnels
NotStarted == [key |-> "none", endpoint |-> "none", alive |-> FALSE, process |-> "none"]
Idle == [key |-> "none", endpoint |-> "none", where |-> "idle", starts |-> NoTunnel]

\* stopLocked marks the tunnel and terminates its process, which ends on its own later.
Stopped(tunnels, which) ==
    [i \in Tunnels |-> IF i \in which /\ tunnels[i].alive
                         THEN [tunnels[i] EXCEPT !.alive = FALSE,
                                                 !.process = IF @ = "running" THEN "terminated" ELSE @]
                         ELSE tunnels[i]]
Returns(c) == caller' = [caller EXCEPT ![c] = Idle] /\ mutex' = Unlocked

Call(c, key, endpoint) ==
    /\ caller[c] = Idle
    /\ caller' = [caller EXCEPT ![c] = [key |-> key, endpoint |-> endpoint, where |-> "waiting",
                                        starts |-> NoTunnel]]
    /\ UNCHANGED <<tunnelOf, tunnel, started, closed, mutex>>
\* Ensure: an alive tunnel to the same endpoint is the answer, another one makes room.
EnterEnsure(c) ==
    LET key == caller[c].key
        current == tunnelOf[key] IN
    /\ caller[c].where = "waiting" /\ mutex = Unlocked
    /\ IF closed \/ (current # NoTunnel /\ tunnel[current].alive
                      /\ tunnel[current].endpoint = caller[c].endpoint)
         THEN Returns(c) /\ UNCHANGED <<tunnelOf, tunnel>>
         ELSE /\ mutex' = c
              /\ tunnel' = Stopped(tunnel, {current})
              /\ tunnelOf' = [tunnelOf EXCEPT ![key] = NoTunnel]
              /\ caller' = [caller EXCEPT ![c].where = "prepares"]
    /\ UNCHANGED <<started, closed>>
\* prepareKubeconfig, then the start of kubectl: either may fail.
EnsureFails(c) ==
    /\ caller[c].where = "prepares"
    /\ Returns(c)
    /\ UNCHANGED <<tunnelOf, tunnel, started, closed>>
StartTunnel(c) ==
    /\ caller[c].where = "prepares" /\ started < MaxTunnels
    /\ started' = started + 1
    /\ tunnel' = [tunnel EXCEPT ![started'] = [key |-> caller[c].key, endpoint |-> caller[c].endpoint,
                                               alive |-> TRUE, process |-> "running"]]
    /\ caller' = [caller EXCEPT ![c].where = "listens", ![c].starts = started']
    /\ UNCHANGED <<tunnelOf, closed, mutex>>
\* The line that names the port is read, though kubectl may have ended after it.
Forwarding(c) ==
    /\ caller[c].where = "listens"
    /\ tunnelOf' = [tunnelOf EXCEPT ![caller[c].key] = caller[c].starts]
    /\ Returns(c)
    /\ UNCHANGED <<tunnel, started, closed>>
\* The request ends, twenty seconds have passed, or the output ends.
GivesUp(c) ==
    /\ caller[c].where = "listens"
    /\ tunnel' = Stopped(tunnel, {caller[c].starts})
    /\ Returns(c)
    /\ UNCHANGED <<tunnelOf, started, closed>>

\* kubectl ends, terminated or on its own.
ProcessEnds(i) ==
    /\ tunnel[i].process \in {"running", "terminated"}
    /\ tunnel' = [tunnel EXCEPT ![i].process = "ended"]
    /\ UNCHANGED <<tunnelOf, started, closed, mutex, caller>>
\* The goroutine behind cmd.Wait gets the mutex.
Waited(i) ==
    /\ tunnel[i].process = "ended" /\ mutex = Unlocked
    /\ tunnel' = [tunnel EXCEPT ![i] = [@ EXCEPT !.alive = FALSE, !.process = "gone"]]
    /\ UNCHANGED <<started, closed, mutex, caller>>
\* Mutant: the environment's entry is dropped whosever it is.
ForgetAny(i) ==
    /\ Waited(i)
    /\ tunnelOf' = [tunnelOf EXCEPT ![tunnel[i].key] = NoTunnel]
Forget(i) ==
    /\ Waited(i)
    /\ tunnelOf' = [k \in Environments |-> IF tunnelOf[k] = i THEN NoTunnel ELSE tunnelOf[k]]

CloseTunnels ==
    /\ ~closed /\ mutex = Unlocked
    /\ closed' = TRUE
    /\ tunnel' = Stopped(tunnel, {tunnelOf[k] : k \in Environments})
    /\ tunnelOf' = [k \in Environments |-> NoTunnel]
    /\ UNCHANGED <<started, mutex, caller>>

TunnelInit ==
    /\ tunnelOf = [k \in Environments |-> NoTunnel] /\ tunnel = [i \in Tunnels |-> NotStarted]
    /\ started = 0 /\ closed = FALSE /\ mutex = Unlocked
    /\ caller = [c \in Callers |-> Idle]
Ensure(c) ==
    \/ \E key \in Environments, endpoint \in Endpoints : Call(c, key, endpoint)
    \/ EnterEnsure(c) \/ EnsureFails(c) \/ StartTunnel(c) \/ Forwarding(c) \/ GivesUp(c)
TunnelNext ==
    \/ \E c \in Callers : Ensure(c)
    \/ \E i \in Tunnels : ProcessEnds(i) \/ Forget(i)
    \/ CloseTunnels
TunnelSpec == TunnelInit /\ [][TunnelNext]_tunnelVars

\* A kubectl that runs and has not been told to end can still be found and ended:
\* it is its environment's tunnel and the manager is open, or the caller that has
\* the mutex is about to keep or end it.  Ends of earlier tunnels that are noticed
\* late, callers that give up and Close leave none behind.
EveryTunnelIsKnown ==
    \A i \in Tunnels :
        tunnel[i].process = "running"
            => \/ tunnelOf[tunnel[i].key] = i /\ ~closed
               \/ \E c \in Callers : mutex = c /\ caller[c].starts = i
===============================================================================
