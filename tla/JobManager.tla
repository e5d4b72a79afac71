------------------------------ MODULE JobManager ------------------------------
(***************************************************************************)
(* The task manager of the deployment platform                             *)
(* (internal/jobs/manager.go): every deployment, upgrade and destroy of an *)
(* environment is a job.  HTTP handlers submit, cancel, acknowledge and    *)
(* erase jobs; a fixed pool of worker goroutines takes job ids from a      *)
(* buffered channel and runs them; every change is written to the          *)
(* deployment_jobs table, from which a new process rebuilds the job map.   *)
(*                                                                         *)
(* One step is one critical section of Manager.mu, one channel operation,  *)
(* or one call of the task runner or of the completion handler.            *)
(***************************************************************************)
EXTENDS Naturals, Sequences, FiniteSets

CONSTANTS
    Job,            \* job ids (newID), one for each call of submit
    Env,            \* the environments of one project
    Worker,         \* worker goroutines (maxParallel)
    Action,         \* kinds of job the callers ask for, "destroy" among them
    QueueCap,       \* capacity of the channel: historyLimit+maxParallel+10
    HistoryLimit,   \* Config.Jobs.HistoryLimit; 0 keeps everything
    Faults,         \* TRUE when the database and the cache may fail
    MaxCrashes,     \* bound on the number of process crashes
    NoJob,          \* what an idle worker holds
    NoRequest       \* the request of an id that no call has drawn

ASSUME JobManagerAssumption ==
    /\ QueueCap \in Nat \ {0}
    /\ HistoryLimit \in Nat
    /\ MaxCrashes \in Nat
    /\ Faults \in BOOLEAN
    /\ NoJob \notin Job

Active   == {"queued", "running"}
Terminal == {"succeeded", "failed", "canceled", "ignored"}
Status   == Active \cup Terminal

\* What a caller asks for; cleanup is CompletionDeleteEnvironment.
Request == [env : Env, action : Action, cleanup : BOOLEAN]
ValidRequest(r) == r \in Request /\ (r.cleanup => r.action = "destroy")

VARIABLES
    up,        \* the process is serving
    status,    \* m.jobs: id -> status, "absent" when the map has no entry
    queue,     \* m.queue, the buffered channel of ids
    caller,    \* the goroutine inside submit, one for each id
    pc,        \* where each worker is in run
    holds,     \* the id each worker took from the channel
    result,    \* err of the runner (or of the handler) as run sees it
    seen,      \* ctxErr as run captured it
    ctx,       \* the context of a running job
    cancels,   \* m.cancels: ids with a registered CancelFunc
    stored,    \* deployment_jobs: id -> status, "absent" when there is no row
    request,   \* the immutable fields of a job
    created,   \* CreatedAt, a stamp; 0 for an id not drawn yet
    clock,     \* the last stamp given
    cleaned,   \* ids whose completion handler has removed the environment
    crashes    \* crashes so far

volatile == <<status, queue, caller, pc, holds, result, seen, ctx, cancels>>
workers  == <<pc, holds, result, seen>>
drawn    == <<request, created, clock>>
durable  == <<stored, drawn, cleaned>>
vars     == <<up, volatile, durable, crashes>>

-------------------------------------------------------------------------------
(* Reading the job map.                                                    *)

ActiveIn(e) == {j \in Job : status[j] \in Active /\ request[j].env = e}
Busy(e)     == ActiveIn(e) # {}                    \* HasActiveEnvironment

\* The jobs of map st that pruneLocked drops: oldest terminal jobs first, as
\* many as the map holds above the limit, and never an active one.
OlderTerminal(st, j) ==
    {k \in Job : st[k] \in Terminal /\ created[k] < created[j]}
Victims(st) ==
    IF HistoryLimit = 0
    THEN {}
    ELSE {j \in Job :
            /\ st[j] \in Terminal
            /\ Cardinality(OlderTerminal(st, j)) + HistoryLimit
                  < Cardinality({k \in Job : st[k] # "absent"})}

\* Writing one row.  A call that returns an error may still have committed:
\* the five-second deadline can fire after the server applied the statement.
Outcome     == IF Faults THEN {"saved", "failed", "unsure"} ELSE {"saved"}
Row(rows, j, s, o) == IF o = "failed" THEN rows ELSE [rows EXCEPT ![j] = s]

-------------------------------------------------------------------------------
(* submit, as its caller goes through it.                                  *)

\* Validation, a fresh id and CreatedAt come before the lock.
Prepare(j, r) ==
    /\ up
    /\ caller[j] = "new" /\ created[j] = 0
    /\ ValidRequest(r)
    /\ caller'  = [caller EXCEPT ![j] = "preparing"]
    /\ request' = [request EXCEPT ![j] = r]
    /\ clock'   = clock + 1
    /\ created' = [created EXCEPT ![j] = clock + 1]
    /\ UNCHANGED <<up, status, queue, workers, ctx, cancels, stored, cleaned,
                   crashes>>

\* prepareJobStorage could not write the log directory.
RefuseStorage(j) ==
    /\ Faults
    /\ caller[j] = "preparing"
    /\ caller' = [caller EXCEPT ![j] = "refused"]
    /\ UNCHANGED <<up, status, queue, workers, ctx, cancels, durable, crashes>>

RefuseBusy(j) ==
    /\ caller[j] = "preparing"
    /\ Busy(request[j].env)
    /\ caller' = [caller EXCEPT ![j] = "refused"]
    /\ UNCHANGED <<up, status, queue, workers, ctx, cancels, durable, crashes>>

\* Mutant: the result of persistLocked is not looked at.
AdmitUnsaved(j) ==
    /\ caller[j] = "preparing"
    /\ ~Busy(request[j].env)
    /\ \E o \in Outcome : stored' = Row(stored, j, "queued", o)
    /\ status' = [status EXCEPT ![j] = "queued"]
    /\ caller' = [caller EXCEPT ![j] = "sending"]
    /\ UNCHANGED <<up, queue, workers, ctx, cancels, drawn, cleaned, crashes>>
\* The environment is free: the job enters the map if its row is written.
Admit(j) ==
    /\ caller[j] = "preparing"
    /\ ~Busy(request[j].env)
    /\ \E o \in Outcome :
         /\ stored' = Row(stored, j, "queued", o)
         /\ IF o = "saved"
            THEN /\ status' = [status EXCEPT ![j] = "queued"]
                 /\ caller' = [caller EXCEPT ![j] = "sending"]
            ELSE /\ caller' = [caller EXCEPT ![j] = "refused"]
                 /\ UNCHANGED status
    /\ UNCHANGED <<up, queue, workers, ctx, cancels, drawn, cleaned, crashes>>

\* Mutant: select with a default branch, which drops the id.
EnqueueOrDrop(j) ==
    /\ caller[j] = "sending"
    /\ queue'  = IF Len(queue) < QueueCap THEN Append(queue, j) ELSE queue
    /\ caller' = [caller EXCEPT ![j] = "accepted"]
    /\ UNCHANGED <<up, status, workers, ctx, cancels, durable, crashes>>

\* m.queue <- id, after the lock is released; it blocks on a full channel.
Enqueue(j) ==
    /\ caller[j] = "sending"
    /\ Len(queue) < QueueCap
    /\ queue'  = Append(queue, j)
    /\ caller' = [caller EXCEPT ![j] = "accepted"]
    /\ UNCHANGED <<up, status, workers, ctx, cancels, durable, crashes>>

-------------------------------------------------------------------------------
(* Cancel, Ignore and DeleteHistory: one critical section each.            *)

\* The map changes even when the row does not, and nothing rolls it back.
CancelQueued(j) ==
    /\ status[j] = "queued"
    /\ status' = [status EXCEPT ![j] = "canceled"]
    /\ \E o \in Outcome : stored' = Row(stored, j, "canceled", o)
    /\ UNCHANGED <<up, queue, caller, workers, ctx, cancels, drawn, cleaned,
                   crashes>>

\* Only the context learns of it; the job ends when its worker does.
CancelRunning(j) ==
    /\ status[j] = "running"
    /\ j \in cancels /\ ctx[j] = "live"
    /\ ctx' = [ctx EXCEPT ![j] = "canceled"]
    /\ UNCHANGED <<up, status, queue, caller, workers, cancels, durable, crashes>>

\* Mutant: the acknowledgment is not written to the table.
IgnoreUnsaved(j) ==
    /\ status[j] \in {"failed", "canceled"}
    /\ request[j].action # "destroy"
    /\ ~Busy(request[j].env)
    /\ status' = [status EXCEPT ![j] = "ignored"]
    /\ UNCHANGED <<up, queue, caller, workers, ctx, cancels, durable, crashes>>
Ignore(j) ==
    /\ status[j] \in {"failed", "canceled"}
    /\ request[j].action # "destroy"
    /\ ~Busy(request[j].env)
    /\ status' = [status EXCEPT ![j] = "ignored"]
    /\ \E o \in Outcome : stored' = Row(stored, j, "ignored", o)
    /\ UNCHANGED <<up, queue, caller, workers, ctx, cancels, drawn, cleaned,
                   crashes>>

\* Mutant: unfinished jobs are erased too.
DeleteEverything(scope) ==
    LET targets == {j \in Job : status[j] # "absent" /\ request[j].env \in scope}
    IN  /\ status' = [j \in Job |-> IF j \in targets THEN "absent" ELSE status[j]]
        /\ stored' = [j \in Job |-> IF j \in targets THEN "absent" ELSE stored[j]]
        /\ UNCHANGED <<up, queue, caller, workers, ctx, cancels, drawn, cleaned,
                       crashes>>
\* The terminal jobs of some environments.  When the row is gone but the
\* cache entry could not be deleted, the job stays in the map.
DeleteHistory(scope) ==
    LET targets == {j \in Job : status[j] \in Terminal /\ request[j].env \in scope}
    IN  /\ targets # {}
        /\ \E gone \in SUBSET targets, rowOnly \in SUBSET targets :
             /\ ~Faults => gone = targets
             /\ status' = [j \in Job |-> IF j \in gone THEN "absent" ELSE status[j]]
             /\ stored' = [j \in Job |-> IF j \in gone \cup rowOnly
                                         THEN "absent" ELSE stored[j]]
        /\ UNCHANGED <<up, queue, caller, workers, ctx, cancels, drawn, cleaned,
                       crashes>>

\* One environment, or the whole project.
Scopes == {{e} : e \in Env} \cup {Env}

-------------------------------------------------------------------------------
(* The workers.                                                            *)

Take(w) ==
    /\ up
    /\ pc[w] = "idle" /\ queue # <<>>
    /\ pc'    = [pc EXCEPT ![w] = "taken"]
    /\ holds' = [holds EXCEPT ![w] = Head(queue)]
    /\ queue' = Tail(queue)
    /\ UNCHANGED <<up, status, caller, result, seen, ctx, cancels, durable, crashes>>

\* Mutant: the goroutine returns where it should go on.
SkipForGood(w) ==
    /\ pc[w] = "taken"
    /\ status[holds[w]] # "queued"
    /\ pc' = [pc EXCEPT ![w] = "returned"]
    /\ UNCHANGED <<up, status, queue, caller, holds, result, seen, ctx, cancels,
                   durable, crashes>>
\* The id was canceled, or erased, while it waited.
Skip(w) ==
    /\ pc[w] = "taken"
    /\ status[holds[w]] # "queued"
    /\ pc'    = [pc EXCEPT ![w] = "idle"]
    /\ holds' = [holds EXCEPT ![w] = NoJob]
    /\ UNCHANGED <<up, status, queue, caller, result, seen, ctx, cancels, durable,
                   crashes>>

\* Mutant: the status is not read again after the receive.
StartUnchecked(w) ==
    LET j == holds[w] IN
    /\ pc[w] = "taken"
    /\ pc'      = [pc EXCEPT ![w] = "running"]
    /\ status'  = [status EXCEPT ![j] = "running"]
    /\ ctx'     = [ctx EXCEPT ![j] = "live"]
    /\ cancels' = cancels \cup {j}
    /\ \E o \in Outcome : stored' = Row(stored, j, "running", o)
    /\ UNCHANGED <<up, queue, caller, holds, result, seen, drawn, cleaned, crashes>>

\* A failure to write the row is ignored from here on.
Start(w) ==
    LET j == holds[w] IN
    /\ pc[w] = "taken"
    /\ status[j] = "queued"
    /\ pc'      = [pc EXCEPT ![w] = "running"]
    /\ status'  = [status EXCEPT ![j] = "running"]
    /\ ctx'     = [ctx EXCEPT ![j] = "live"]
    /\ cancels' = cancels \cup {j}
    /\ \E o \in Outcome : stored' = Row(stored, j, "running", o)
    /\ UNCHANGED <<up, queue, caller, holds, result, seen, drawn, cleaned, crashes>>

\* updateProgress: the runner reports a step, which rewrites the row.
Progress(w) ==
    LET j == holds[w] IN
    /\ pc[w] = "running"
    /\ stored' = [stored EXCEPT ![j] = "running"]
    /\ UNCHANGED <<up, volatile, drawn, cleaned, crashes>>

\* context.WithTimeout(m.timeout) expires.
Timeout(j) ==
    /\ j \in cancels /\ ctx[j] = "live"
    /\ ctx' = [ctx EXCEPT ![j] = "deadline"]
    /\ UNCHANGED <<up, status, queue, caller, workers, cancels, durable, crashes>>

\* RunJob returns (or the log could not be opened) and run reads ctx.Err().
\* A job that was canceled while its last command succeeded returns "ok".
RunnerReturns(w) ==
    LET j == holds[w] IN
    /\ pc[w] = "running"
    /\ \E r \in {"ok", "error"} :
         /\ result' = [result EXCEPT ![w] = r]
         /\ pc' = [pc EXCEPT ![w] =
                     IF r = "ok" /\ ctx[j] = "live" /\ request[j].cleanup
                     THEN "completing" ELSE "finishing"]
    /\ seen' = [seen EXCEPT ![w] = ctx[j]]
    /\ UNCHANGED <<up, status, queue, caller, holds, ctx, cancels, durable, crashes>>

\* Mutant: the error of the completion handler is dropped.
CompleteUnheard(w) ==
    LET j == holds[w] IN
    /\ pc[w] = "completing"
    /\ cleaned' \in {cleaned, cleaned \cup {j}}
    /\ pc'   = [pc EXCEPT ![w] = "finishing"]
    /\ seen' = [seen EXCEPT ![w] = ctx[j]]
    /\ UNCHANGED <<up, status, queue, caller, holds, result, ctx, cancels, stored,
                   drawn, crashes>>
\* The completion handler removes the environment's configuration, or
\* returns an error; then ctx.Err() is read a second time.
Complete(w) ==
    LET j == holds[w] IN
    /\ pc[w] = "completing"
    /\ \/ cleaned' = cleaned \cup {j} /\ UNCHANGED result
       \/ result' = [result EXCEPT ![w] = "error"] /\ UNCHANGED cleaned
    /\ pc'   = [pc EXCEPT ![w] = "finishing"]
    /\ seen' = [seen EXCEPT ![w] = ctx[j]]
    /\ UNCHANGED <<up, status, queue, caller, holds, ctx, cancels, stored, drawn,
                   crashes>>

\* Mutant: the error of the context becomes the status.
VerdictOfContext(w) ==
    CASE seen[w] # "live"    -> seen[w]
      [] result[w] = "error" -> "failed"
      [] OTHER               -> "succeeded"
Verdict(w) ==
    CASE seen[w] = "canceled" -> "canceled"
      [] seen[w] = "deadline" -> "failed"
      [] seen[w] = "live" /\ result[w] = "error" -> "failed"
      [] OTHER -> "succeeded"

\* The last critical section of run: verdict, row, pruning.
Finish(w) ==
    LET j   == holds[w]
        st  == [status EXCEPT ![j] = Verdict(w)]
        old == Victims(st)
    IN  /\ pc[w] = "finishing"
        /\ \E o \in Outcome, kept \in SUBSET old :
             /\ ~Faults => kept = {}
             /\ stored' = [k \in Job |-> IF k \in old \ kept THEN "absent"
                                         ELSE Row(stored, j, Verdict(w), o)[k]]
        /\ status'  = [k \in Job |-> IF k \in old THEN "absent" ELSE st[k]]
        /\ cancels' = cancels \ {j}
        /\ ctx'     = [ctx EXCEPT ![j] = "live"]
        /\ pc'      = [pc EXCEPT ![w] = "idle"]
        /\ holds'   = [holds EXCEPT ![w] = NoJob]
        /\ result'  = [result EXCEPT ![w] = "ok"]
        /\ seen'    = [seen EXCEPT ![w] = "live"]
        /\ UNCHANGED <<up, queue, caller, drawn, cleaned, crashes>>

-------------------------------------------------------------------------------
(* The process dies and a new one calls NewManagerWithStores.              *)

\* Whatever is in memory is lost; a call inside submit never answers.
Crash ==
    /\ up /\ crashes < MaxCrashes
    /\ up'      = FALSE
    /\ status'  = [j \in Job |-> "absent"]
    /\ queue'   = <<>>
    /\ caller'  = [j \in Job |-> IF caller[j] \in {"preparing", "sending"}
                                 THEN "lost" ELSE caller[j]]
    /\ pc'      = [w \in Worker |-> "idle"]
    /\ holds'   = [w \in Worker |-> NoJob]
    /\ result'  = [w \in Worker |-> "ok"]
    /\ seen'    = [w \in Worker |-> "live"]
    /\ ctx'     = [j \in Job |-> "live"]
    /\ cancels' = {}
    /\ crashes' = crashes + 1
    /\ UNCHANGED durable

\* Mutant: a reload leaves unfinished jobs as they were.
ReloadedAsIs(j) == stored[j]
\* "manager restarted while job was active"
Reloaded(j) == IF stored[j] \in Active THEN "failed" ELSE stored[j]

Load ==
    /\ ~up
    /\ up'     = TRUE
    /\ status' = [j \in Job |-> Reloaded(j)]
    /\ stored' = [j \in Job |-> Reloaded(j)]
    /\ UNCHANGED <<queue, caller, workers, ctx, cancels, drawn, cleaned, crashes>>

\* A row could not be rewritten: start-up stops with the error, the newest
\* rows already rewritten (LoadJobs orders by created_at, descending).
LoadAborts ==
    /\ ~up /\ Faults
    /\ \E n \in 0..clock :
         stored' = [j \in Job |-> IF created[j] > n THEN Reloaded(j) ELSE stored[j]]
    /\ UNCHANGED <<up, volatile, drawn, cleaned, crashes>>

-------------------------------------------------------------------------------

Init ==
    /\ up = TRUE
    /\ status  = [j \in Job |-> "absent"]
    /\ queue   = <<>>
    /\ caller  = [j \in Job |-> "new"]
    /\ pc      = [w \in Worker |-> "idle"]
    /\ holds   = [w \in Worker |-> NoJob]
    /\ result  = [w \in Worker |-> "ok"]
    /\ seen    = [w \in Worker |-> "live"]
    /\ ctx     = [j \in Job |-> "live"]
    /\ cancels = {}
    /\ stored  = [j \in Job |-> "absent"]
    /\ request = [j \in Job |-> NoRequest]
    /\ created = [j \in Job |-> 0]
    /\ clock   = 0
    /\ cleaned = {}
    /\ crashes = 0

Submit(j)  == \/ \E r \in Request : Prepare(j, r)
              \/ RefuseStorage(j) \/ RefuseBusy(j) \/ Admit(j) \/ Enqueue(j)
Operate(j) == CancelQueued(j) \/ CancelRunning(j) \/ Ignore(j) \/ Timeout(j)
Run(w)     == \/ Take(w) \/ Skip(w) \/ Start(w) \/ Progress(w)
              \/ RunnerReturns(w) \/ Complete(w) \/ Finish(w)
Restart    == Crash \/ Load \/ LoadAborts

Next == \/ \E j \in Job : Submit(j) \/ Operate(j)
        \/ \E scope \in Scopes : DeleteHistory(scope)
        \/ \E w \in Worker : Run(w)
        \/ Restart

Spec == Init /\ [][Next]_vars

-------------------------------------------------------------------------------
(* Fairness.  Goroutines that can run do run; a receive on the channel     *)
(* hands its slot to the sender that has waited longest (SF on Enqueue);   *)
(* a runner always returns because its context has a deadline and          *)
(* executor.go kills the process group of the command it waits for; the    *)
(* supervisor restarts the process until the database accepts its rows.    *)
(* Nothing forces a user to submit, cancel, acknowledge or erase.          *)

Admission(j) == RefuseBusy(j) \/ Admit(j)

Fairness ==
    /\ \A j \in Job : WF_vars(Admission(j)) /\ SF_vars(Enqueue(j))
    /\ \A w \in Worker : /\ WF_vars(Take(w)) /\ WF_vars(Skip(w) \/ Start(w))
                         /\ WF_vars(RunnerReturns(w))
                         /\ WF_vars(Complete(w)) /\ WF_vars(Finish(w))
    /\ WF_vars(Load)

FairSpec == Spec /\ Fairness

-------------------------------------------------------------------------------
(* Properties.                                                             *)

CallerState == {"new", "preparing", "sending", "accepted", "refused", "lost"}
WorkerState == {"idle", "taken", "running", "completing", "finishing"}
CtxState    == {"live", "canceled", "deadline"}

\* Every variable stays in its set.
TypeOK ==
    /\ up \in BOOLEAN
    /\ status  \in [Job -> Status \cup {"absent"}]
    /\ queue   \in Seq(Job)
    /\ caller  \in [Job -> CallerState]
    /\ pc      \in [Worker -> WorkerState]
    /\ holds   \in [Worker -> Job \cup {NoJob}]
    /\ result  \in [Worker -> {"ok", "error"}]
    /\ seen    \in [Worker -> CtxState]
    /\ ctx     \in [Job -> CtxState]
    /\ cancels \in SUBSET Job
    /\ stored  \in [Job -> Status \cup {"absent"}]
    /\ request \in [Job -> Request \cup {NoRequest}]
    /\ created \in [Job -> Nat]
    /\ clock   \in Nat
    /\ cleaned \in SUBSET Job
    /\ crashes \in Nat

Executing(w) == pc[w] \in {"running", "completing", "finishing"}

\* ErrEnvironmentBusy: the map never holds two unfinished jobs of one
\* environment, whatever the callers, workers and restarts do in between.
OneActivePerEnvironment ==
    \A j, k \in Job :
        /\ status[j] \in Active /\ status[k] \in Active
        /\ request[j].env = request[k].env
        => j = k

\* Two workers never run jobs of the same environment at the same time: no
\* cancel, erasure, pruning or stale channel entry frees an environment that a
\* worker is still changing.
OneWorkerPerEnvironment ==
    \A v, w \in Worker :
        /\ Executing(v) /\ Executing(w)
        /\ request[holds[v]].env = request[holds[w]].env
        => v = w

InChannel == {queue[i] : i \in 1..Len(queue)}

\* A queued job is always on its way to a worker: its caller is blocked on the
\* channel, the channel holds its id, or a worker has just taken it.
NoJobIsStranded ==
    \A j \in Job : status[j] = "queued" =>
        \/ caller[j] = "sending"
        \/ j \in InChannel
        \/ \E w \in Worker : pc[w] = "taken" /\ holds[w] = j

\* A running job has a worker inside run, and that worker's CancelFunc is
\* registered: Cancel on a running job always reaches its context.
RunningIsCancelable ==
    \A j \in Job : status[j] = "running" =>
        /\ j \in cancels
        /\ \E w \in Worker : Executing(w) /\ holds[w] = j

\* A job that is unfinished in memory has an unfinished row, even when writes
\* fail: a restart reports it as failed and never forgets it.
ActiveIsDurable ==
    \A j \in Job : status[j] \in Active => stored[j] \in Active

\* "CompletionAction describes an operation that must run only after the task
\* runner has completed successfully": a teardown is reported, or stored, as
\* succeeded only if the environment's configuration has really been removed.
SuccessMeansCleaned ==
    \A j \in Job :
        "succeeded" \in {status[j], stored[j]} /\ request[j].cleanup => j \in cleaned

\* While the database answers, memory and table agree in every state between
\* two critical sections, so a crash loses no verdict.
MemoryIsDurable == ~Faults /\ up => status = stored

\* A job that is over stays over: no crash, reload, resurrected row or stale id
\* in the channel makes it active again; nor does an id whose submission was
\* refused or lost ever run.
Over(j) == \/ status[j] \in Terminal
           \/ status[j] = "absent" /\ caller[j] \notin {"new", "preparing"}
OverStaysOver == [][\A j \in Job : Over(j) => Over(j)']_vars

\* Every call of Submit returns, a caller never blocks for ever on the full
\* channel, and what it submitted comes to an end: refused, or with a verdict,
\* canceled, or closed by the load after a crash.
EverySubmissionEnds == \A j \in Job :
    caller[j] = "preparing" ~> /\ caller[j] \in {"accepted", "refused", "lost"}
                               /\ status[j] \notin Active

-------------------------------------------------------------------------------
(* The inductive invariant behind the safety properties.                   *)

\* An id that is still in its caller's hands has left no trace.
UnbornIsBlank ==
    \A j \in Job : caller[j] \in {"new", "preparing"} =>
        status[j] = "absent" /\ stored[j] = "absent"

\* Past the validation of submit a job has a complete request.
RequestIsDrawn == \A j \in Job : caller[j] # "new" => request[j] \in Request

ActiveWasAdmitted ==
    \A j \in Job : status[j] \in Active => caller[j] \in {"sending", "accepted"}

\* Inside run a worker holds a running job, and no other worker holds it.
WorkersHoldJobs ==
    /\ \A w \in Worker : pc[w] # "idle" => holds[w] \in Job
    /\ \A w \in Worker : Executing(w) => status[holds[w]] = "running"
    /\ \A v, w \in Worker :
          Executing(v) /\ Executing(w) /\ holds[v] = holds[w] => v = w

\* A worker about to report a clean success has seen the handler succeed.
CleanVerdict ==
    \A w \in Worker :
        /\ pc[w] = "finishing" /\ result[w] = "ok" /\ seen[w] = "live"
        /\ request[holds[w]].cleanup
        => holds[w] \in cleaned

\* Between a crash and the next load there is no map, no call and no worker.
DownIsIdle ==
    ~up => /\ \A w \in Worker : pc[w] = "idle"
           /\ \A j \in Job : status[j] = "absent" /\ caller[j] # "preparing"

IInv ==
    /\ TypeOK
    /\ UnbornIsBlank
    /\ RequestIsDrawn
    /\ ActiveWasAdmitted
    /\ WorkersHoldJobs
    /\ CleanVerdict
    /\ DownIsIdle
    /\ OneActivePerEnvironment
    /\ RunningIsCancelable
    /\ NoJobIsStranded
    /\ ActiveIsDurable
    /\ SuccessMeansCleaned
    /\ MemoryIsDurable

-------------------------------------------------------------------------------
(* The abstract view of a job.                                             *)

Phase(j) == CASE status[j] = "queued"  -> "waiting"
              [] status[j] = "running" -> "working"
              [] Over(j)               -> "over"
              [] OTHER                 -> "new"
Place(j) == IF status[j] \in Active THEN request[j].env ELSE NoRequest

Exclusion == INSTANCE EnvironmentExclusion WITH
    phase   <- [j \in Job |-> Phase(j)],
    place   <- [j \in Job |-> Place(j)],
    Nowhere <- NoRequest

\* The manager implements the promise: every step of a handler, of a worker or
\* of a restart is a step of EnvironmentExclusion or leaves its view unchanged.
KeepsEnvironmentsExclusive == Exclusion!Spec
===============================================================================
