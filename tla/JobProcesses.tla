----------------------------- MODULE JobProcesses -----------------------------
(***************************************************************************)
(* Two processes over one database (cmd/ops-deploy/main.go): the server,   *)
(* and the same binary run from a shell as `ops-deploy deploy ...`, which  *)
(* calls NewManagerWithStores with the same configuration, submits one job *)
(* and waits for it (runCLI).  Each has a job map, a channel, workers and  *)
(* a lock of its own; they share the deployment_jobs table and the space   *)
(* of job ids.                                                             *)
(***************************************************************************)
EXTENDS Naturals, Sequences, FiniteSets

CONSTANTS Job, Env, Worker, Action, QueueCap, HistoryLimit, Faults, MaxCrashes,
          NoJob, NoRequest

VARIABLES
    \* the server process
    sUp, sStatus, sQueue, sCaller, sPc, sHolds, sResult, sSeen, sCtx, sCancels,
    sCrashes,
    \* the command-line process
    cUp, cStatus, cQueue, cCaller, cPc, cHolds, cResult, cSeen, cCtx, cCancels,
    cCrashes,
    \* what they share
    stored, request, created, clock, cleaned

server == <<sUp, sStatus, sQueue, sCaller, sPc, sHolds, sResult, sSeen, sCtx,
            sCancels, sCrashes>>
shell  == <<cUp, cStatus, cQueue, cCaller, cPc, cHolds, cResult, cSeen, cCtx,
            cCancels, cCrashes>>
shared == <<stored, request, created, clock, cleaned>>

Server == INSTANCE JobManager WITH
    up <- sUp, status <- sStatus, queue <- sQueue, caller <- sCaller, pc <- sPc,
    holds <- sHolds, result <- sResult, seen <- sSeen, ctx <- sCtx,
    cancels <- sCancels, crashes <- sCrashes

Shell == INSTANCE JobManager WITH
    up <- cUp, status <- cStatus, queue <- cQueue, caller <- cCaller, pc <- cPc,
    holds <- cHolds, result <- cResult, seen <- cSeen, ctx <- cCtx,
    cancels <- cCancels, crashes <- cCrashes

\* The server is up; nobody has typed the command yet.
Init ==
    /\ Server!Init
    /\ cUp = FALSE
    /\ cStatus  = [j \in Job |-> "absent"]
    /\ cQueue   = <<>>
    /\ cCaller  = [j \in Job |-> "new"]
    /\ cPc      = [w \in Worker |-> "idle"]
    /\ cHolds   = [w \in Worker |-> NoJob]
    /\ cResult  = [w \in Worker |-> "ok"]
    /\ cSeen    = [w \in Worker |-> "live"]
    /\ cCtx     = [j \in Job |-> "live"]
    /\ cCancels = {}
    /\ cCrashes = 0

\* The command loads the table, submits, works, times out and exits.
ShellNext ==
    \/ Shell!Load \/ Shell!LoadAborts \/ Shell!Crash
    \/ \E j \in Job : Shell!Submit(j) \/ Shell!CancelQueued(j)
                      \/ Shell!CancelRunning(j) \/ Shell!Timeout(j)
    \/ \E w \in Worker : Shell!Run(w)

Next == \/ Server!Next /\ UNCHANGED shell
        \/ ShellNext /\ UNCHANGED server

Spec == Init /\ [][Next]_<<server, shell, shared>>

\* docs/configuration.md promises that jobs of one environment stay mutually
\* exclusive ("同一环境仍保持互斥") whatever the parallelism: no two
\* workers, of either process, run jobs of the same environment together.
EnvironmentMutex ==
    \A v, w \in Worker :
        Server!Executing(v) /\ Shell!Executing(w)
            => request[sHolds[v]].env # request[cHolds[w]].env
===============================================================================
