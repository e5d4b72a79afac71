--------------------------- MODULE JobManagerProofs ---------------------------
(***************************************************************************)
(* The safety properties of JobManager, for any number of jobs,            *)
(* environments and workers, any channel capacity and history limit, with  *)
(* or without database failures, and any number of crashes; and that it    *)
(* implements EnvironmentExclusion.  IInv is the inductive invariant: one  *)
(* lemma for each action, whose steps are the conjuncts of IInv, grouped   *)
(* by the state they speak of: types; ids and their callers; workers;      *)
(* environments; the channel; the table; the verdict of a teardown.        *)
(***************************************************************************)
EXTENDS MCJobSettings, TLAPS

USE JobManagerAssumption
USE DEF Status, Active, Terminal, CallerState, WorkerState, CtxState, Executing
USE DEF volatile, workers, durable, drawn

\* A step that leaves the channel alone leaves the set of waiting ids alone.
LEMMA ChannelSame == queue' = queue => InChannel' = InChannel
  BY DEF InChannel

\* A send adds exactly the id that was sent.
LEMMA ChannelAppend ==
  ASSUME queue \in Seq(Job), NEW j \in Job, queue' = Append(queue, j)
  PROVE  InChannel' = InChannel \cup {j}
  BY DEF InChannel

\* A receive removes at most the id at the head.
LEMMA ChannelTake ==
  ASSUME queue \in Seq(Job), queue # <<>>, queue' = Tail(queue)
  PROVE  InChannel \subseteq InChannel' \cup {Head(queue)}
<1> SUFFICES ASSUME NEW i \in 1..Len(queue), i # 1
            PROVE  queue[i] \in InChannel'
    BY DEF InChannel
<1>1. i - 1 \in 1..Len(queue') /\ queue'[i - 1] = queue[i]
    OBVIOUS
<1> QED BY <1>1 DEF InChannel

\* A fresh id is blank in the map and in the table, and stays so.
LEMMA PrepareStep ==
  ASSUME IInv, NEW j \in Job, NEW r \in Request, Prepare(j, r) PROVE IInv'
<1> USE DEF IInv, Prepare
<1>1. TypeOK'
  BY DEF TypeOK, ValidRequest
<1>2. (UnbornIsBlank /\ RequestIsDrawn /\ ActiveWasAdmitted /\ DownIsIdle)'
  BY DEF TypeOK, UnbornIsBlank, RequestIsDrawn, ActiveWasAdmitted, DownIsIdle,
         WorkersHoldJobs, ValidRequest
<1>3. (WorkersHoldJobs /\ RunningIsCancelable)'
  BY DEF TypeOK, WorkersHoldJobs, RunningIsCancelable, DownIsIdle,
         UnbornIsBlank, ValidRequest
<1>4. OneActivePerEnvironment'
  BY DEF TypeOK, OneActivePerEnvironment, UnbornIsBlank, WorkersHoldJobs,
         ValidRequest
<1>5. NoJobIsStranded'
  BY ChannelSame DEF TypeOK, NoJobIsStranded, WorkersHoldJobs, DownIsIdle,
         ValidRequest
<1>6. (ActiveIsDurable /\ MemoryIsDurable)'
  BY DEF TypeOK, ActiveIsDurable, MemoryIsDurable, WorkersHoldJobs, DownIsIdle,
         ValidRequest
<1>7. (CleanVerdict /\ SuccessMeansCleaned)'
  BY DEF TypeOK, CleanVerdict, SuccessMeansCleaned, UnbornIsBlank,
         WorkersHoldJobs, ValidRequest
<1> QED BY <1>1, <1>2, <1>3, <1>4, <1>5, <1>6, <1>7

\* A refused id leaves no trace.
LEMMA RefuseStorageStep ==
  ASSUME IInv, NEW j \in Job, RefuseStorage(j) PROVE IInv'
<1> USE DEF IInv, RefuseStorage
<1>1. TypeOK'
  BY DEF TypeOK
<1>2. (UnbornIsBlank /\ RequestIsDrawn /\ ActiveWasAdmitted /\ DownIsIdle)'
  BY DEF TypeOK, UnbornIsBlank, RequestIsDrawn, ActiveWasAdmitted, DownIsIdle,
         WorkersHoldJobs
<1>3. (WorkersHoldJobs /\ RunningIsCancelable)'
  BY DEF TypeOK, WorkersHoldJobs, RunningIsCancelable, DownIsIdle,
         UnbornIsBlank
<1>4. OneActivePerEnvironment'
  BY DEF TypeOK, OneActivePerEnvironment, UnbornIsBlank, WorkersHoldJobs
<1>5. NoJobIsStranded'
  BY ChannelSame DEF TypeOK, NoJobIsStranded, WorkersHoldJobs, DownIsIdle
<1>6. (ActiveIsDurable /\ MemoryIsDurable)'
  BY DEF TypeOK, ActiveIsDurable, MemoryIsDurable, WorkersHoldJobs, DownIsIdle
<1>7. (CleanVerdict /\ SuccessMeansCleaned)'
  BY DEF TypeOK, CleanVerdict, SuccessMeansCleaned, UnbornIsBlank,
         WorkersHoldJobs
<1> QED BY <1>1, <1>2, <1>3, <1>4, <1>5, <1>6, <1>7

\* A refused id leaves no trace.
LEMMA RefuseBusyStep ==
  ASSUME IInv, NEW j \in Job, RefuseBusy(j) PROVE IInv'
<1> USE DEF IInv, RefuseBusy
<1>1. TypeOK'
  BY DEF TypeOK
<1>2. (UnbornIsBlank /\ RequestIsDrawn /\ ActiveWasAdmitted /\ DownIsIdle)'
  BY DEF TypeOK, UnbornIsBlank, RequestIsDrawn, ActiveWasAdmitted, DownIsIdle,
         WorkersHoldJobs
<1>3. (WorkersHoldJobs /\ RunningIsCancelable)'
  BY DEF TypeOK, WorkersHoldJobs, RunningIsCancelable, DownIsIdle,
         UnbornIsBlank
<1>4. OneActivePerEnvironment'
  BY DEF TypeOK, OneActivePerEnvironment, UnbornIsBlank, WorkersHoldJobs
<1>5. NoJobIsStranded'
  BY ChannelSame DEF TypeOK, NoJobIsStranded, WorkersHoldJobs, DownIsIdle
<1>6. (ActiveIsDurable /\ MemoryIsDurable)'
  BY DEF TypeOK, ActiveIsDurable, MemoryIsDurable, WorkersHoldJobs, DownIsIdle
<1>7. (CleanVerdict /\ SuccessMeansCleaned)'
  BY DEF TypeOK, CleanVerdict, SuccessMeansCleaned, UnbornIsBlank,
         WorkersHoldJobs
<1> QED BY <1>1, <1>2, <1>3, <1>4, <1>5, <1>6, <1>7

\* Two outcomes: the row is saved and the job is queued with its caller on the
\* way to the channel, or the write fails, perhaps after it committed, and the
\* map does not change.  The busy check is what keeps OneActivePerEnvironment.
LEMMA AdmitStep ==
  ASSUME IInv, NEW j \in Job, Admit(j) PROVE IInv'
<1> USE DEF IInv
<1>a. /\ caller[j] = "preparing" /\ ~Busy(request[j].env)
      /\ UNCHANGED <<up, queue, pc, holds, result, seen, ctx, cancels, request,
                     created, clock, cleaned, crashes>>
  BY DEF Admit, workers
<1>b. \/ /\ status' = [status EXCEPT ![j] = "queued"]
         /\ caller' = [caller EXCEPT ![j] = "sending"]
         /\ stored' = [stored EXCEPT ![j] = "queued"]
      \/ /\ Faults
         /\ status' = status
         /\ caller' = [caller EXCEPT ![j] = "refused"]
         /\ stored' = stored \/ stored' = [stored EXCEPT ![j] = "queued"]
  BY DEF Admit, Outcome, Row
<1>c. /\ status \in [Job -> Status \cup {"absent"}]
      /\ stored \in [Job -> Status \cup {"absent"}]
      /\ caller \in [Job -> CallerState]
  BY DEF TypeOK
<1>1. TypeOK'
  <2>1. status' \in [Job -> Status \cup {"absent"}]
    BY <1>b, ZenonT(60) DEF TypeOK
  <2>2. stored' \in [Job -> Status \cup {"absent"}]
    BY <1>b, ZenonT(60) DEF TypeOK
  <2>3. caller' \in [Job -> CallerState]
    BY <1>b, ZenonT(60) DEF TypeOK
  <2> QED BY <1>a, <2>1, <2>2, <2>3 DEF TypeOK
<1>2. (UnbornIsBlank /\ RequestIsDrawn /\ ActiveWasAdmitted /\ DownIsIdle)'
  <2>1. UnbornIsBlank'
    BY <1>a, <1>b, <1>c DEF UnbornIsBlank
  <2>2. RequestIsDrawn'
    BY <1>a, <1>b, <1>c DEF RequestIsDrawn
  <2>3. ActiveWasAdmitted'
    BY <1>a, <1>b, <1>c DEF ActiveWasAdmitted
  <2>4. DownIsIdle'
    BY <1>a, <1>b, <1>c DEF DownIsIdle
  <2> QED BY <2>1, <2>2, <2>3, <2>4
<1>3. (WorkersHoldJobs /\ RunningIsCancelable)'
  <2>1. WorkersHoldJobs'
    BY <1>a, <1>b DEF TypeOK, WorkersHoldJobs, UnbornIsBlank
  <2>2. RunningIsCancelable'
    BY <1>a, <1>b DEF TypeOK, RunningIsCancelable
  <2> QED BY <2>1, <2>2
<1>4. OneActivePerEnvironment'
  BY <1>a, <1>b, <1>c DEF OneActivePerEnvironment, Busy, ActiveIn
<1>5. NoJobIsStranded'
  BY <1>a, <1>b, <1>c, ChannelSame DEF NoJobIsStranded
<1>6. (ActiveIsDurable /\ MemoryIsDurable)'
  <2>1. ActiveIsDurable'
    BY <1>a, <1>b, <1>c DEF ActiveIsDurable
  <2>2. MemoryIsDurable'
    BY <1>a, <1>b, <1>c DEF MemoryIsDurable
  <2> QED BY <2>1, <2>2
<1>7. (CleanVerdict /\ SuccessMeansCleaned)'
  <2>1. CleanVerdict'
    BY <1>a, <1>b DEF TypeOK, CleanVerdict
  <2>2. SuccessMeansCleaned'
    BY <1>a, <1>b DEF TypeOK, SuccessMeansCleaned, UnbornIsBlank
  <2> QED BY <2>1, <2>2
<1> QED BY <1>1, <1>2, <1>3, <1>4, <1>5, <1>6, <1>7

\* The id passes from its caller to the channel.
LEMMA EnqueueStep ==
  ASSUME IInv, NEW j \in Job, Enqueue(j) PROVE IInv'
<1> USE DEF IInv, Enqueue
<1>1. TypeOK'
  BY DEF TypeOK
<1>2. (UnbornIsBlank /\ RequestIsDrawn /\ ActiveWasAdmitted /\ DownIsIdle)'
  BY DEF TypeOK, UnbornIsBlank, RequestIsDrawn, ActiveWasAdmitted, DownIsIdle,
         WorkersHoldJobs
<1>3. (WorkersHoldJobs /\ RunningIsCancelable)'
  BY DEF TypeOK, WorkersHoldJobs, RunningIsCancelable, DownIsIdle,
         UnbornIsBlank
<1>4. OneActivePerEnvironment'
  BY DEF TypeOK, OneActivePerEnvironment, UnbornIsBlank, WorkersHoldJobs
<1>5. NoJobIsStranded'
  BY ChannelAppend DEF TypeOK, NoJobIsStranded, WorkersHoldJobs, DownIsIdle
<1>6. (ActiveIsDurable /\ MemoryIsDurable)'
  BY DEF TypeOK, ActiveIsDurable, MemoryIsDurable, WorkersHoldJobs, DownIsIdle
<1>7. (CleanVerdict /\ SuccessMeansCleaned)'
  BY DEF TypeOK, CleanVerdict, SuccessMeansCleaned, UnbornIsBlank,
         WorkersHoldJobs
<1> QED BY <1>1, <1>2, <1>3, <1>4, <1>5, <1>6, <1>7

\* The job leaves the active statuses; its id may stay in the channel.
LEMMA CancelQueuedStep ==
  ASSUME IInv, NEW j \in Job, CancelQueued(j) PROVE IInv'
<1> USE DEF IInv, CancelQueued
<1>1. TypeOK'
  BY DEF TypeOK, Outcome, Row
<1>2. (UnbornIsBlank /\ RequestIsDrawn /\ ActiveWasAdmitted /\ DownIsIdle)'
  BY DEF TypeOK, UnbornIsBlank, RequestIsDrawn, ActiveWasAdmitted, DownIsIdle,
         WorkersHoldJobs, Outcome, Row
<1>3. (WorkersHoldJobs /\ RunningIsCancelable)'
  BY DEF TypeOK, WorkersHoldJobs, RunningIsCancelable, DownIsIdle,
         UnbornIsBlank, Outcome, Row
<1>4. OneActivePerEnvironment'
  BY DEF TypeOK, OneActivePerEnvironment, UnbornIsBlank, WorkersHoldJobs,
         Outcome, Row
<1>5. NoJobIsStranded'
  BY ChannelSame DEF TypeOK, NoJobIsStranded, WorkersHoldJobs, DownIsIdle,
         Outcome, Row
<1>6. (ActiveIsDurable /\ MemoryIsDurable)'
  <2>1. ActiveIsDurable'
    BY DEF TypeOK, ActiveIsDurable, Outcome, Row
  <2>2. MemoryIsDurable'
    BY DEF TypeOK, MemoryIsDurable, Outcome, Row
  <2> QED BY <2>1, <2>2
<1>7. (CleanVerdict /\ SuccessMeansCleaned)'
  BY DEF TypeOK, CleanVerdict, SuccessMeansCleaned, UnbornIsBlank,
         WorkersHoldJobs, Outcome, Row
<1> QED BY <1>1, <1>2, <1>3, <1>4, <1>5, <1>6, <1>7

\* Only the context of the job changes.
LEMMA CancelRunningStep ==
  ASSUME IInv, NEW j \in Job, CancelRunning(j) PROVE IInv'
<1> USE DEF IInv, CancelRunning
<1>1. TypeOK'
  BY DEF TypeOK
<1>2. (UnbornIsBlank /\ RequestIsDrawn /\ ActiveWasAdmitted /\ DownIsIdle)'
  BY DEF TypeOK, UnbornIsBlank, RequestIsDrawn, ActiveWasAdmitted, DownIsIdle,
         WorkersHoldJobs
<1>3. (WorkersHoldJobs /\ RunningIsCancelable)'
  BY DEF TypeOK, WorkersHoldJobs, RunningIsCancelable, DownIsIdle,
         UnbornIsBlank
<1>4. OneActivePerEnvironment'
  BY DEF TypeOK, OneActivePerEnvironment, UnbornIsBlank, WorkersHoldJobs
<1>5. NoJobIsStranded'
  BY ChannelSame DEF TypeOK, NoJobIsStranded, WorkersHoldJobs, DownIsIdle
<1>6. (ActiveIsDurable /\ MemoryIsDurable)'
  BY DEF TypeOK, ActiveIsDurable, MemoryIsDurable, WorkersHoldJobs, DownIsIdle
<1>7. (CleanVerdict /\ SuccessMeansCleaned)'
  BY DEF TypeOK, CleanVerdict, SuccessMeansCleaned, UnbornIsBlank,
         WorkersHoldJobs
<1> QED BY <1>1, <1>2, <1>3, <1>4, <1>5, <1>6, <1>7

\* One terminal status replaces another.
LEMMA IgnoreStep ==
  ASSUME IInv, NEW j \in Job, Ignore(j) PROVE IInv'
<1> USE DEF IInv, Ignore
<1>1. TypeOK'
  BY DEF TypeOK, Outcome, Row
<1>2. (UnbornIsBlank /\ RequestIsDrawn /\ ActiveWasAdmitted /\ DownIsIdle)'
  BY DEF TypeOK, UnbornIsBlank, RequestIsDrawn, ActiveWasAdmitted, DownIsIdle,
         WorkersHoldJobs, Outcome, Row
<1>3. (WorkersHoldJobs /\ RunningIsCancelable)'
  BY DEF TypeOK, WorkersHoldJobs, RunningIsCancelable, DownIsIdle,
         UnbornIsBlank, Outcome, Row
<1>4. OneActivePerEnvironment'
  BY DEF TypeOK, OneActivePerEnvironment, UnbornIsBlank, WorkersHoldJobs,
         Outcome, Row
<1>5. NoJobIsStranded'
  BY ChannelSame DEF TypeOK, NoJobIsStranded, WorkersHoldJobs, DownIsIdle,
         Outcome, Row
<1>6. (ActiveIsDurable /\ MemoryIsDurable)'
  <2>1. ActiveIsDurable'
    BY DEF TypeOK, ActiveIsDurable, Outcome, Row
  <2>2. MemoryIsDurable'
    BY DEF TypeOK, MemoryIsDurable, Outcome, Row
  <2> QED BY <2>1, <2>2
<1>7. (CleanVerdict /\ SuccessMeansCleaned)'
  BY DEF TypeOK, CleanVerdict, SuccessMeansCleaned, UnbornIsBlank,
         WorkersHoldJobs, Outcome, Row
<1> QED BY <1>1, <1>2, <1>3, <1>4, <1>5, <1>6, <1>7

\* Only the context of the job changes.
LEMMA TimeoutStep ==
  ASSUME IInv, NEW j \in Job, Timeout(j) PROVE IInv'
<1> USE DEF IInv, Timeout
<1>1. TypeOK'
  BY DEF TypeOK
<1>2. (UnbornIsBlank /\ RequestIsDrawn /\ ActiveWasAdmitted /\ DownIsIdle)'
  BY DEF TypeOK, UnbornIsBlank, RequestIsDrawn, ActiveWasAdmitted, DownIsIdle,
         WorkersHoldJobs
<1>3. (WorkersHoldJobs /\ RunningIsCancelable)'
  BY DEF TypeOK, WorkersHoldJobs, RunningIsCancelable, DownIsIdle,
         UnbornIsBlank
<1>4. OneActivePerEnvironment'
  BY DEF TypeOK, OneActivePerEnvironment, UnbornIsBlank, WorkersHoldJobs
<1>5. NoJobIsStranded'
  BY ChannelSame DEF TypeOK, NoJobIsStranded, WorkersHoldJobs, DownIsIdle
<1>6. (ActiveIsDurable /\ MemoryIsDurable)'
  BY DEF TypeOK, ActiveIsDurable, MemoryIsDurable, WorkersHoldJobs, DownIsIdle
<1>7. (CleanVerdict /\ SuccessMeansCleaned)'
  BY DEF TypeOK, CleanVerdict, SuccessMeansCleaned, UnbornIsBlank,
         WorkersHoldJobs
<1> QED BY <1>1, <1>2, <1>3, <1>4, <1>5, <1>6, <1>7

\* Only terminal jobs are erased, so nothing active loses its entry or its row;
\* a job whose entry goes also loses its row.
LEMMA DeleteHistoryStep ==
  ASSUME IInv, NEW scope \in Scopes, DeleteHistory(scope) PROVE IInv'
<1> USE DEF IInv
<1>a. UNCHANGED <<up, queue, caller, pc, holds, result, seen, ctx, cancels,
                  request, created, clock, cleaned, crashes>>
  BY DEF DeleteHistory, workers
<1>b. PICK gone \in SUBSET {j \in Job : status[j] \in Terminal},
           rowOnly \in SUBSET {j \in Job : status[j] \in Terminal} :
        /\ ~Faults => rowOnly \subseteq gone
        /\ status' = [j \in Job |-> IF j \in gone THEN "absent" ELSE status[j]]
        /\ stored' = [j \in Job |-> IF j \in gone \cup rowOnly
                                    THEN "absent" ELSE stored[j]]
  <2> DEFINE targets == {j \in Job : status[j] \in Terminal /\ request[j].env \in scope}
  <2>1. PICK gone \in SUBSET targets, rowOnly \in SUBSET targets :
          /\ ~Faults => gone = targets
          /\ status' = [j \in Job |-> IF j \in gone THEN "absent" ELSE status[j]]
          /\ stored' = [j \in Job |-> IF j \in gone \cup rowOnly
                                      THEN "absent" ELSE stored[j]]
    BY DEF DeleteHistory
  <2>2. /\ gone \in SUBSET {j \in Job : status[j] \in Terminal}
        /\ rowOnly \in SUBSET {j \in Job : status[j] \in Terminal}
        /\ ~Faults => rowOnly \subseteq gone
    BY <2>1
  <2> QED BY <2>1, <2>2
<1>1. TypeOK'
  BY <1>a, <1>b DEF TypeOK
<1>2. (UnbornIsBlank /\ RequestIsDrawn /\ ActiveWasAdmitted /\ DownIsIdle)'
  <2>1. UnbornIsBlank'
    BY <1>a, <1>b DEF TypeOK, UnbornIsBlank
  <2>2. RequestIsDrawn'
    BY <1>a, <1>b DEF TypeOK, RequestIsDrawn
  <2>3. ActiveWasAdmitted'
    BY <1>a, <1>b DEF TypeOK, ActiveWasAdmitted
  <2>4. DownIsIdle'
    BY <1>a, <1>b DEF TypeOK, DownIsIdle
  <2> QED BY <2>1, <2>2, <2>3, <2>4
<1>3. (WorkersHoldJobs /\ RunningIsCancelable)'
  <2>1. WorkersHoldJobs'
    BY <1>a, <1>b, ZenonT(60) DEF TypeOK, WorkersHoldJobs
  <2>2. RunningIsCancelable'
    BY <1>a, <1>b DEF TypeOK, RunningIsCancelable
  <2> QED BY <2>1, <2>2
<1>4. OneActivePerEnvironment'
  BY <1>a, <1>b DEF TypeOK, OneActivePerEnvironment
<1>5. NoJobIsStranded'
  BY <1>a, <1>b, ChannelSame DEF TypeOK, NoJobIsStranded
<1>6. (ActiveIsDurable /\ MemoryIsDurable)'
  <2>1. ActiveIsDurable'
    BY <1>a, <1>b DEF TypeOK, ActiveIsDurable
  <2>2. MemoryIsDurable'
    BY <1>a, <1>b DEF TypeOK, MemoryIsDurable
  <2> QED BY <2>1, <2>2
<1>7. (CleanVerdict /\ SuccessMeansCleaned)'
  <2>1. CleanVerdict'
    BY <1>a, <1>b DEF TypeOK, CleanVerdict
  <2>2. SuccessMeansCleaned'
    BY <1>a, <1>b DEF TypeOK, SuccessMeansCleaned
  <2> QED BY <2>1, <2>2
<1> QED BY <1>1, <1>2, <1>3, <1>4, <1>5, <1>6, <1>7

\* The id passes from the channel to an idle worker.
LEMMA TakeStep ==
  ASSUME IInv, NEW w \in Worker, Take(w) PROVE IInv'
<1> USE DEF IInv, Take
<1>1. TypeOK'
  BY DEF TypeOK
<1>2. (UnbornIsBlank /\ RequestIsDrawn /\ ActiveWasAdmitted /\ DownIsIdle)'
  BY DEF TypeOK, UnbornIsBlank, RequestIsDrawn, ActiveWasAdmitted, DownIsIdle,
         WorkersHoldJobs
<1>3. (WorkersHoldJobs /\ RunningIsCancelable)'
  <2>1. WorkersHoldJobs'
    BY DEF TypeOK, WorkersHoldJobs
  <2>2. RunningIsCancelable'
    BY DEF TypeOK, WorkersHoldJobs, RunningIsCancelable
  <2> QED BY <2>1, <2>2
<1>4. OneActivePerEnvironment'
  BY DEF TypeOK, OneActivePerEnvironment, UnbornIsBlank, WorkersHoldJobs
<1>5. NoJobIsStranded'
  BY ChannelTake DEF TypeOK, NoJobIsStranded, WorkersHoldJobs, DownIsIdle
<1>6. (ActiveIsDurable /\ MemoryIsDurable)'
  BY DEF TypeOK, ActiveIsDurable, MemoryIsDurable, WorkersHoldJobs, DownIsIdle
<1>7. (CleanVerdict /\ SuccessMeansCleaned)'
  BY DEF TypeOK, CleanVerdict, SuccessMeansCleaned, UnbornIsBlank,
         WorkersHoldJobs
<1> QED BY <1>1, <1>2, <1>3, <1>4, <1>5, <1>6, <1>7

\* The worker drops an id whose job is not queued.
LEMMA SkipStep ==
  ASSUME IInv, NEW w \in Worker, Skip(w) PROVE IInv'
<1> USE DEF IInv, Skip
<1>1. TypeOK'
  BY DEF TypeOK
<1>2. (UnbornIsBlank /\ RequestIsDrawn /\ ActiveWasAdmitted /\ DownIsIdle)'
  BY DEF TypeOK, UnbornIsBlank, RequestIsDrawn, ActiveWasAdmitted, DownIsIdle,
         WorkersHoldJobs
<1>3. (WorkersHoldJobs /\ RunningIsCancelable)'
  <2>1. WorkersHoldJobs'
    BY DEF TypeOK, WorkersHoldJobs
  <2>2. RunningIsCancelable'
    BY DEF TypeOK, WorkersHoldJobs, RunningIsCancelable
  <2> QED BY <2>1, <2>2
<1>4. OneActivePerEnvironment'
  BY DEF TypeOK, OneActivePerEnvironment, UnbornIsBlank, WorkersHoldJobs
<1>5. NoJobIsStranded'
  BY ChannelSame DEF TypeOK, NoJobIsStranded, WorkersHoldJobs, DownIsIdle
<1>6. (ActiveIsDurable /\ MemoryIsDurable)'
  BY DEF TypeOK, ActiveIsDurable, MemoryIsDurable, WorkersHoldJobs, DownIsIdle
<1>7. (CleanVerdict /\ SuccessMeansCleaned)'
  BY DEF TypeOK, CleanVerdict, SuccessMeansCleaned, UnbornIsBlank,
         WorkersHoldJobs
<1> QED BY <1>1, <1>2, <1>3, <1>4, <1>5, <1>6, <1>7

\* The job is queued, so no worker executes it yet: the worker that starts it
\* is its only one.
LEMMA StartStep ==
  ASSUME IInv, NEW w \in Worker, Start(w) PROVE IInv'
<1> USE DEF IInv, Start
<1>1. TypeOK'
  <2>1. status' \in [Job -> Status \cup {"absent"}]
    BY DEF TypeOK, WorkersHoldJobs
  <2>2. stored' \in [Job -> Status \cup {"absent"}]
    BY DEF TypeOK, WorkersHoldJobs, Outcome, Row
  <2>3. pc' \in [Worker -> WorkerState]
    BY DEF TypeOK
  <2>4. ctx' \in [Job -> CtxState] /\ cancels' \in SUBSET Job
    BY DEF TypeOK, WorkersHoldJobs
  <2> QED BY <2>1, <2>2, <2>3, <2>4 DEF TypeOK
<1>2. (UnbornIsBlank /\ RequestIsDrawn /\ ActiveWasAdmitted /\ DownIsIdle)'
  BY DEF TypeOK, UnbornIsBlank, RequestIsDrawn, ActiveWasAdmitted, DownIsIdle,
         WorkersHoldJobs, Outcome, Row
<1>3. (WorkersHoldJobs /\ RunningIsCancelable)'
  BY DEF TypeOK, WorkersHoldJobs, RunningIsCancelable, DownIsIdle,
         UnbornIsBlank, Outcome, Row
<1>4. OneActivePerEnvironment'
  BY DEF TypeOK, OneActivePerEnvironment, UnbornIsBlank, WorkersHoldJobs,
         Outcome, Row
<1>5. NoJobIsStranded'
  BY ChannelSame DEF TypeOK, NoJobIsStranded, WorkersHoldJobs, DownIsIdle,
         Outcome, Row
<1>6. (ActiveIsDurable /\ MemoryIsDurable)'
  <2>1. ActiveIsDurable'
    BY DEF TypeOK, ActiveIsDurable, WorkersHoldJobs, Outcome, Row
  <2>2. MemoryIsDurable'
    BY DEF TypeOK, MemoryIsDurable, WorkersHoldJobs, Outcome, Row
  <2> QED BY <2>1, <2>2
<1>7. (CleanVerdict /\ SuccessMeansCleaned)'
  BY DEF TypeOK, CleanVerdict, SuccessMeansCleaned, UnbornIsBlank,
         WorkersHoldJobs, Outcome, Row
<1> QED BY <1>1, <1>2, <1>3, <1>4, <1>5, <1>6, <1>7

\* The row of a running job is rewritten as running.
LEMMA ProgressStep ==
  ASSUME IInv, NEW w \in Worker, Progress(w) PROVE IInv'
<1> USE DEF IInv, Progress
<1>1. TypeOK'
  BY DEF TypeOK
<1>2. (UnbornIsBlank /\ RequestIsDrawn /\ ActiveWasAdmitted /\ DownIsIdle)'
  BY DEF TypeOK, UnbornIsBlank, RequestIsDrawn, ActiveWasAdmitted, DownIsIdle,
         WorkersHoldJobs
<1>3. (WorkersHoldJobs /\ RunningIsCancelable)'
  BY DEF TypeOK, WorkersHoldJobs, RunningIsCancelable, DownIsIdle,
         UnbornIsBlank
<1>4. OneActivePerEnvironment'
  BY DEF TypeOK, OneActivePerEnvironment, UnbornIsBlank, WorkersHoldJobs
<1>5. NoJobIsStranded'
  BY ChannelSame DEF TypeOK, NoJobIsStranded, WorkersHoldJobs, DownIsIdle
<1>6. (ActiveIsDurable /\ MemoryIsDurable)'
  BY DEF TypeOK, ActiveIsDurable, MemoryIsDurable, WorkersHoldJobs, DownIsIdle
<1>7. (CleanVerdict /\ SuccessMeansCleaned)'
  BY DEF TypeOK, CleanVerdict, SuccessMeansCleaned, UnbornIsBlank,
         WorkersHoldJobs
<1> QED BY <1>1, <1>2, <1>3, <1>4, <1>5, <1>6, <1>7

\* The worker goes to the completion handler or to its verdict.
LEMMA RunnerReturnsStep ==
  ASSUME IInv, NEW w \in Worker, RunnerReturns(w) PROVE IInv'
<1> USE DEF IInv, RunnerReturns
<1>1. TypeOK'
  <2>1. result' \in [Worker -> {"ok", "error"}]
    BY DEF TypeOK
  <2>2. pc' \in [Worker -> WorkerState]
    BY DEF TypeOK
  <2>3. seen' \in [Worker -> CtxState]
    BY DEF TypeOK, WorkersHoldJobs
  <2> QED BY <2>1, <2>2, <2>3 DEF TypeOK, durable
<1>2. (UnbornIsBlank /\ RequestIsDrawn /\ ActiveWasAdmitted /\ DownIsIdle)'
  BY DEF TypeOK, UnbornIsBlank, RequestIsDrawn, ActiveWasAdmitted, DownIsIdle,
         WorkersHoldJobs
<1>3. (WorkersHoldJobs /\ RunningIsCancelable)'
  BY DEF TypeOK, WorkersHoldJobs, RunningIsCancelable, DownIsIdle,
         UnbornIsBlank
<1>4. OneActivePerEnvironment'
  BY DEF TypeOK, OneActivePerEnvironment, UnbornIsBlank, WorkersHoldJobs
<1>5. NoJobIsStranded'
  BY ChannelSame DEF TypeOK, NoJobIsStranded, WorkersHoldJobs, DownIsIdle
<1>6. (ActiveIsDurable /\ MemoryIsDurable)'
  BY DEF TypeOK, ActiveIsDurable, MemoryIsDurable, WorkersHoldJobs, DownIsIdle
<1>7. (CleanVerdict /\ SuccessMeansCleaned)'
  BY DEF TypeOK, CleanVerdict, SuccessMeansCleaned, UnbornIsBlank,
         WorkersHoldJobs
<1> QED BY <1>1, <1>2, <1>3, <1>4, <1>5, <1>6, <1>7

\* The handler removes the environment or the result becomes an error.
LEMMA CompleteStep ==
  ASSUME IInv, NEW w \in Worker, Complete(w) PROVE IInv'
<1> USE DEF IInv, Complete
<1>1. TypeOK'
  <2>1. result' \in [Worker -> {"ok", "error"}]
    BY ZenonT(60) DEF TypeOK
  <2>2. cleaned' \in SUBSET Job
    BY DEF TypeOK, WorkersHoldJobs
  <2>3. pc' \in [Worker -> WorkerState]
    BY DEF TypeOK
  <2>4. seen' \in [Worker -> CtxState]
    BY DEF TypeOK, WorkersHoldJobs
  <2> QED BY <2>1, <2>2, <2>3, <2>4 DEF TypeOK
<1>2. (UnbornIsBlank /\ RequestIsDrawn /\ ActiveWasAdmitted /\ DownIsIdle)'
  BY DEF TypeOK, UnbornIsBlank, RequestIsDrawn, ActiveWasAdmitted, DownIsIdle,
         WorkersHoldJobs
<1>3. (WorkersHoldJobs /\ RunningIsCancelable)'
  BY DEF TypeOK, WorkersHoldJobs, RunningIsCancelable, DownIsIdle,
         UnbornIsBlank
<1>4. OneActivePerEnvironment'
  BY DEF TypeOK, OneActivePerEnvironment, UnbornIsBlank, WorkersHoldJobs
<1>5. NoJobIsStranded'
  BY ChannelSame DEF TypeOK, NoJobIsStranded, WorkersHoldJobs, DownIsIdle
<1>6. (ActiveIsDurable /\ MemoryIsDurable)'
  BY DEF TypeOK, ActiveIsDurable, MemoryIsDurable, WorkersHoldJobs, DownIsIdle
<1>7. (CleanVerdict /\ SuccessMeansCleaned)'
  BY DEF TypeOK, CleanVerdict, SuccessMeansCleaned, UnbornIsBlank,
         WorkersHoldJobs
<1> QED BY <1>1, <1>2, <1>3, <1>4, <1>5, <1>6, <1>7

\* The verdict is terminal, and pruning drops terminal jobs only; a clean
\* success was seen by the handler.
LEMMA FinishStep ==
  ASSUME IInv, NEW w \in Worker, Finish(w) PROVE IInv'
<1> USE DEF IInv, Finish
<1>1. TypeOK'
  <2>1. Verdict(w) \in Status
    BY DEF TypeOK, Verdict
  <2>2. status' \in [Job -> Status \cup {"absent"}]
    BY <2>1 DEF TypeOK, WorkersHoldJobs
  <2>3. stored' \in [Job -> Status \cup {"absent"}]
    BY <2>1 DEF TypeOK, WorkersHoldJobs, Outcome, Row
  <2>4. pc' \in [Worker -> WorkerState] /\ holds' \in [Worker -> Job \cup {NoJob}]
    BY DEF TypeOK
  <2>5. result' \in [Worker -> {"ok", "error"}] /\ seen' \in [Worker -> CtxState]
    BY DEF TypeOK
  <2>6. ctx' \in [Job -> CtxState] /\ cancels' \in SUBSET Job
    BY DEF TypeOK
  <2> QED BY <2>1, <2>2, <2>3, <2>4, <2>5, <2>6 DEF TypeOK
<1>2. (UnbornIsBlank /\ RequestIsDrawn /\ ActiveWasAdmitted /\ DownIsIdle)'
  BY DEF TypeOK, UnbornIsBlank, RequestIsDrawn, ActiveWasAdmitted, DownIsIdle,
         WorkersHoldJobs, Outcome, Row, Verdict, Victims
<1>3. (WorkersHoldJobs /\ RunningIsCancelable)'
  BY DEF TypeOK, WorkersHoldJobs, RunningIsCancelable, DownIsIdle,
         UnbornIsBlank, Outcome, Row, Verdict, Victims
<1>4. OneActivePerEnvironment'
  BY DEF TypeOK, OneActivePerEnvironment, UnbornIsBlank, WorkersHoldJobs,
         Outcome, Row, Verdict, Victims
<1>5. NoJobIsStranded'
  BY ChannelSame DEF TypeOK, NoJobIsStranded, WorkersHoldJobs, DownIsIdle,
         Outcome, Row, Verdict, Victims
<1>6. (ActiveIsDurable /\ MemoryIsDurable)'
  BY DEF TypeOK, ActiveIsDurable, MemoryIsDurable, WorkersHoldJobs, DownIsIdle,
         Outcome, Row, Verdict, Victims
<1>7. (CleanVerdict /\ SuccessMeansCleaned)'
  BY DEF TypeOK, CleanVerdict, SuccessMeansCleaned, UnbornIsBlank,
         WorkersHoldJobs, Outcome, Row, Verdict, Victims
<1> QED BY <1>1, <1>2, <1>3, <1>4, <1>5, <1>6, <1>7

\* Memory is emptied; callers inside submit are lost.
LEMMA CrashStep ==
  ASSUME IInv, Crash PROVE IInv'
<1> USE DEF IInv, Crash
<1>1. TypeOK'
  <2>1. status' \in [Job -> Status \cup {"absent"}] /\ queue' \in Seq(Job)
    OBVIOUS
  <2>2. caller' \in [Job -> CallerState]
    BY DEF TypeOK
  <2>3. /\ pc' \in [Worker -> WorkerState] /\ holds' \in [Worker -> Job \cup {NoJob}]
       /\ result' \in [Worker -> {"ok", "error"}] /\ seen' \in [Worker -> CtxState]
    OBVIOUS
  <2>4. ctx' \in [Job -> CtxState] /\ cancels' \in SUBSET Job
    OBVIOUS
  <2>5. UNCHANGED <<stored, request, created, clock, cleaned>>
    BY DEF durable
  <2>6. up' = FALSE
    OBVIOUS
  <2>7. crashes' \in Nat
    BY DEF TypeOK
  <2> HIDE DEF Crash
  <2> QED BY <2>1, <2>2, <2>3, <2>4, <2>5, <2>6, <2>7 DEF TypeOK
<1>2. (UnbornIsBlank /\ RequestIsDrawn /\ ActiveWasAdmitted /\ DownIsIdle)'
  BY DEF TypeOK, UnbornIsBlank, RequestIsDrawn, ActiveWasAdmitted, DownIsIdle,
         WorkersHoldJobs
<1>3. (WorkersHoldJobs /\ RunningIsCancelable)'
  BY DEF TypeOK, WorkersHoldJobs, RunningIsCancelable, DownIsIdle,
         UnbornIsBlank
<1>4. OneActivePerEnvironment'
  BY DEF TypeOK, OneActivePerEnvironment, UnbornIsBlank, WorkersHoldJobs
<1>5. NoJobIsStranded'
  BY ChannelSame DEF TypeOK, NoJobIsStranded, WorkersHoldJobs, DownIsIdle
<1>6. (ActiveIsDurable /\ MemoryIsDurable)'
  BY DEF TypeOK, ActiveIsDurable, MemoryIsDurable, WorkersHoldJobs, DownIsIdle
<1>7. (CleanVerdict /\ SuccessMeansCleaned)'
  BY DEF TypeOK, CleanVerdict, SuccessMeansCleaned, UnbornIsBlank,
         WorkersHoldJobs
<1> QED BY <1>1, <1>2, <1>3, <1>4, <1>5, <1>6, <1>7

\* The map is rebuilt from the table with no active job in it.
LEMMA LoadStep ==
  ASSUME IInv, Load PROVE IInv'
<1> USE DEF IInv, Load
<1>1. TypeOK'
  BY DEF TypeOK, Reloaded
<1>2. (UnbornIsBlank /\ RequestIsDrawn /\ ActiveWasAdmitted /\ DownIsIdle)'
  BY DEF TypeOK, UnbornIsBlank, RequestIsDrawn, ActiveWasAdmitted, DownIsIdle,
         WorkersHoldJobs, Reloaded
<1>3. (WorkersHoldJobs /\ RunningIsCancelable)'
  BY DEF TypeOK, WorkersHoldJobs, RunningIsCancelable, DownIsIdle,
         UnbornIsBlank, Reloaded
<1>4. OneActivePerEnvironment'
  BY DEF TypeOK, OneActivePerEnvironment, UnbornIsBlank, WorkersHoldJobs,
         Reloaded
<1>5. NoJobIsStranded'
  BY ChannelSame DEF TypeOK, NoJobIsStranded, WorkersHoldJobs, DownIsIdle,
         Reloaded
<1>6. (ActiveIsDurable /\ MemoryIsDurable)'
  BY DEF TypeOK, ActiveIsDurable, MemoryIsDurable, WorkersHoldJobs, DownIsIdle,
         Reloaded
<1>7. (CleanVerdict /\ SuccessMeansCleaned)'
  BY DEF TypeOK, CleanVerdict, SuccessMeansCleaned, UnbornIsBlank,
         WorkersHoldJobs, Reloaded
<1> QED BY <1>1, <1>2, <1>3, <1>4, <1>5, <1>6, <1>7

\* Some rows are rewritten and the map stays empty.
LEMMA LoadAbortsStep ==
  ASSUME IInv, LoadAborts PROVE IInv'
<1> USE DEF IInv, LoadAborts
<1>1. TypeOK'
  BY DEF TypeOK, Reloaded
<1>2. (UnbornIsBlank /\ RequestIsDrawn /\ ActiveWasAdmitted /\ DownIsIdle)'
  BY DEF TypeOK, UnbornIsBlank, RequestIsDrawn, ActiveWasAdmitted, DownIsIdle,
         WorkersHoldJobs, Reloaded
<1>3. (WorkersHoldJobs /\ RunningIsCancelable)'
  BY DEF TypeOK, WorkersHoldJobs, RunningIsCancelable, DownIsIdle,
         UnbornIsBlank, Reloaded
<1>4. OneActivePerEnvironment'
  BY DEF TypeOK, OneActivePerEnvironment, UnbornIsBlank, WorkersHoldJobs,
         Reloaded
<1>5. NoJobIsStranded'
  BY ChannelSame DEF TypeOK, NoJobIsStranded, WorkersHoldJobs, DownIsIdle,
         Reloaded
<1>6. (ActiveIsDurable /\ MemoryIsDurable)'
  BY DEF TypeOK, ActiveIsDurable, MemoryIsDurable, WorkersHoldJobs, DownIsIdle,
         Reloaded
<1>7. (CleanVerdict /\ SuccessMeansCleaned)'
  BY DEF TypeOK, CleanVerdict, SuccessMeansCleaned, UnbornIsBlank,
         WorkersHoldJobs, Reloaded
<1> QED BY <1>1, <1>2, <1>3, <1>4, <1>5, <1>6, <1>7

-------------------------------------------------------------------------------
(* The invariant and the properties it implies.                            *)

HIDE DEF volatile, workers, durable, drawn

\* The initial state, an empty map over an empty table, satisfies IInv.
LEMMA InitIInv == Init => IInv
<1> SUFFICES ASSUME Init PROVE IInv
  OBVIOUS
<1>1. TypeOK
  BY DEF Init, TypeOK
<1>2. UnbornIsBlank /\ RequestIsDrawn /\ ActiveWasAdmitted /\ DownIsIdle
  BY DEF Init, UnbornIsBlank, RequestIsDrawn, ActiveWasAdmitted, DownIsIdle
<1>3. WorkersHoldJobs /\ RunningIsCancelable /\ CleanVerdict
  BY DEF Init, WorkersHoldJobs, RunningIsCancelable, CleanVerdict
<1>4. OneActivePerEnvironment /\ NoJobIsStranded
  BY DEF Init, OneActivePerEnvironment, NoJobIsStranded
<1>5. ActiveIsDurable /\ SuccessMeansCleaned /\ MemoryIsDurable
  BY DEF Init, ActiveIsDurable, SuccessMeansCleaned, MemoryIsDurable
<1> QED BY <1>1, <1>2, <1>3, <1>4, <1>5 DEF IInv

\* A step that changes nothing keeps IInv.
LEMMA StutterStep == IInv /\ UNCHANGED vars => IInv'
<1> SUFFICES ASSUME IInv, UNCHANGED vars PROVE IInv'
  OBVIOUS
<1> USE DEF vars, volatile, workers, durable, drawn
<1>1. TypeOK'
  BY DEF IInv, TypeOK
<1>2. (UnbornIsBlank /\ RequestIsDrawn /\ ActiveWasAdmitted /\ DownIsIdle)'
  BY DEF IInv, UnbornIsBlank, RequestIsDrawn, ActiveWasAdmitted, DownIsIdle
<1>3. (WorkersHoldJobs /\ RunningIsCancelable /\ CleanVerdict)'
  BY DEF IInv, WorkersHoldJobs, RunningIsCancelable, CleanVerdict
<1>4. (OneActivePerEnvironment /\ NoJobIsStranded)'
  BY ChannelSame DEF IInv, OneActivePerEnvironment, NoJobIsStranded
<1>5. (ActiveIsDurable /\ SuccessMeansCleaned /\ MemoryIsDurable)'
  BY DEF IInv, ActiveIsDurable, SuccessMeansCleaned, MemoryIsDurable
<1> QED BY <1>1, <1>2, <1>3, <1>4, <1>5 DEF IInv

\* IInv is inductive: no step of a caller, an operator, a worker or a restart
\* leads out of it.
LEMMA NextIInv == IInv /\ [Next]_vars => IInv'
<1> SUFFICES ASSUME IInv, [Next]_vars PROVE IInv'
  OBVIOUS
<1>1. ASSUME NEW j \in Job, Submit(j) PROVE IInv'
  BY <1>1, PrepareStep, RefuseStorageStep, RefuseBusyStep, AdmitStep,
     EnqueueStep DEF Submit
<1>2. ASSUME NEW j \in Job, Operate(j) PROVE IInv'
  BY <1>2, CancelQueuedStep, CancelRunningStep, IgnoreStep, TimeoutStep
     DEF Operate
<1>3. ASSUME NEW scope \in Scopes, DeleteHistory(scope) PROVE IInv'
  BY <1>3, DeleteHistoryStep
<1>4. ASSUME NEW w \in Worker, Run(w) PROVE IInv'
  BY <1>4, TakeStep, SkipStep, StartStep, ProgressStep, RunnerReturnsStep,
     CompleteStep, FinishStep DEF Run
<1>5. ASSUME Restart PROVE IInv'
  BY <1>5, CrashStep, LoadStep, LoadAbortsStep DEF Restart
<1> QED BY <1>1, <1>2, <1>3, <1>4, <1>5, StutterStep DEF Next

\* Every reachable state satisfies IInv.
THEOREM Inductive == Spec => []IInv
<1>1. IInv /\ [Next]_vars => IInv'
  BY NextIInv
<1> QED BY InitIInv, <1>1, PTL DEF Spec

\* Every variable of the manager stays in its set.
THEOREM TypeCorrect == Spec => []TypeOK
<1>1. IInv => TypeOK
  BY DEF IInv
<1> QED BY Inductive, <1>1, PTL

\* The busy check of submit is enough: the job map never holds two unfinished
\* jobs of one environment.
THEOREM EnvironmentsStayExclusive == Spec => []OneActivePerEnvironment
<1>1. IInv => OneActivePerEnvironment
  BY DEF IInv
<1> QED BY Inductive, <1>1, PTL

\* No two workers ever run jobs of one environment at the same time.
THEOREM WorkersStayExclusive == Spec => []OneWorkerPerEnvironment
<1>1. IInv => OneWorkerPerEnvironment
  <2> SUFFICES ASSUME IInv, NEW v \in Worker, NEW w \in Worker,
                      Executing(v), Executing(w),
                      request[holds[v]].env = request[holds[w]].env
               PROVE  v = w
    BY DEF OneWorkerPerEnvironment
  <2>1. holds[v] \in Job /\ holds[w] \in Job
    BY DEF IInv, WorkersHoldJobs
  <2>2. status[holds[v]] = "running" /\ status[holds[w]] = "running"
    BY DEF IInv, WorkersHoldJobs
  <2>3. holds[v] = holds[w]
    BY <2>1, <2>2 DEF IInv, OneActivePerEnvironment
  <2> QED BY <2>3 DEF IInv, WorkersHoldJobs
<1> QED BY Inductive, <1>1, PTL

\* A queued job always has a way to a worker.
THEOREM QueuedJobsReachWorkers == Spec => []NoJobIsStranded
<1>1. IInv => NoJobIsStranded
  BY DEF IInv
<1> QED BY Inductive, <1>1, PTL

\* A running job always has a worker and a registered CancelFunc.
THEOREM RunningJobsCanBeCanceled == Spec => []RunningIsCancelable
<1>1. IInv => RunningIsCancelable
  BY DEF IInv
<1> QED BY Inductive, <1>1, PTL

\* An unfinished job has an unfinished row, whatever writes fail.
THEOREM ActiveJobsAreDurable == Spec => []ActiveIsDurable
<1>1. IInv => ActiveIsDurable
  BY DEF IInv
<1> QED BY Inductive, <1>1, PTL

\* A teardown is called succeeded only when its completion handler succeeded.
THEOREM SuccessIsHonest == Spec => []SuccessMeansCleaned
<1>1. IInv => SuccessMeansCleaned
  BY DEF IInv
<1> QED BY Inductive, <1>1, PTL

\* While no write fails, memory and table agree.
THEOREM MemoryMatchesTable == Spec => []MemoryIsDurable
<1>1. IInv => MemoryIsDurable
  BY DEF IInv
<1> QED BY Inductive, <1>1, PTL

\* The same of the two settings that one run explores: in the sound one every
\* step is a step of the manager, so IInv goes on holding.
THEOREM SoundMemoryHolds == SettingsSpec => []SoundMemory
<1> DEFINE Inv == setting = "sound" => IInv
<1>1. SettingsInit => Inv
  BY InitIInv DEF SettingsInit
<1>2. Inv /\ [SettingsNext]_<<vars, setting>> => Inv'
  <2> SUFFICES ASSUME Inv, [SettingsNext]_<<vars, setting>>, setting' = "sound"
               PROVE  IInv'
    OBVIOUS
  <2>1. setting = "sound" /\ [Next]_vars
    BY DEF SettingsNext
  <2> QED BY <2>1, NextIInv
<1>3. Inv => SoundMemory
  BY DEF SoundMemory, IInv
<1> QED BY <1>1, <1>2, <1>3, PTL DEF SettingsSpec

-------------------------------------------------------------------------------
(* The refinement.  Two steps matter to the abstract view: Admit accepts a *)
(* job, Start begins it.  Every other step either leaves the phase of a    *)
(* job alone or retires the job: it is calm.                               *)

HIDE DEF Executing

\* What every step but a successful Admit and a Start does to one job.
Calm(j) == \/ Over(j)'
           \/ /\ ~Over(j)
              /\ status'[j] = status[j]
              /\ status[j] \in Active => request'[j].env = request[j].env

\* A step that is calm for every job retires the jobs that became over.
LEMMA CalmRetires ==
  ASSUME \A j \in Job : Calm(j)
  PROVE  \E S \in SUBSET Job : Exclusion!Retire(S)
<1>1. PICK S \in SUBSET Job : \A j \in Job : j \in S <=> ~Over(j) /\ Over(j)'
  <2> WITNESS {j \in Job : ~Over(j) /\ Over(j)'} \in SUBSET Job
  <2> QED OBVIOUS
<1>2. \A j \in S : Phase(j) # "over"
  BY <1>1 DEF Phase
<1>3. \A j \in Job : Phase(j)' = IF j \in S THEN "over" ELSE Phase(j)
  BY <1>1 DEF Calm, Phase, Over
<1>4. \A j \in Job : Place(j)' = IF j \in S THEN NoRequest ELSE Place(j)
  BY <1>1 DEF Calm, Place, Over
<1>5. Exclusion!Retire(S)
  BY <1>2, <1>3, <1>4 DEF Exclusion!Retire
<1> QED BY <1>5

\* Every call but a successful Admit is calm for every job.
LEMMA CallsAreCalm ==
  ASSUME IInv, NEW j \in Job,
         \/ \E r \in Request : Prepare(j, r)
         \/ RefuseStorage(j) \/ RefuseBusy(j) \/ Enqueue(j)
         \/ CancelQueued(j) \/ CancelRunning(j) \/ Ignore(j) \/ Timeout(j)
  PROVE  \A k \in Job : Calm(k)
<1> SUFFICES ASSUME NEW k \in Job PROVE Calm(k)
  OBVIOUS
<1> USE DEF volatile, workers, durable, drawn, Calm, Over
<1>1. /\ status \in [Job -> Status \cup {"absent"}]
      /\ caller \in [Job -> CallerState]
      /\ request \in [Job -> Request \cup {NoRequest}]
  BY DEF IInv, TypeOK
<1>2. status[j] \in Active => caller[j] \in {"sending", "accepted"}
  BY DEF IInv, ActiveWasAdmitted
<1>3. CASE \E r \in Request : Prepare(j, r)
  BY <1>1, <1>2, <1>3 DEF Prepare
<1>4. CASE RefuseStorage(j) \/ RefuseBusy(j)
  BY <1>1, <1>2, <1>4 DEF RefuseStorage, RefuseBusy
<1>5. CASE Enqueue(j)
  BY <1>1, <1>5 DEF Enqueue
<1>6. CASE CancelQueued(j)
  BY <1>1, <1>6 DEF CancelQueued
<1>7. CASE Ignore(j)
  BY <1>1, <1>7 DEF Ignore
<1>8. CASE CancelRunning(j) \/ Timeout(j)
  BY <1>1, <1>8 DEF CancelRunning, Timeout
<1> QED BY <1>3, <1>4, <1>5, <1>6, <1>7, <1>8

\* So is an erasure.
LEMMA EraseIsCalm ==
  ASSUME IInv, NEW scope \in Scopes, DeleteHistory(scope)
  PROVE  \A k \in Job : Calm(k)
<1> SUFFICES ASSUME NEW k \in Job PROVE Calm(k)
  OBVIOUS
<1>1. \/ status'[k] = status[k]
      \/ status[k] \in Terminal /\ status'[k] = "absent"
  <2> DEFINE targets == {j \in Job : status[j] \in Terminal /\ request[j].env \in scope}
  <2>1. PICK gone \in SUBSET targets :
          status' = [j \in Job |-> IF j \in gone THEN "absent" ELSE status[j]]
    BY DEF DeleteHistory
  <2>2. k \in gone => status[k] \in Terminal
    BY <2>1
  <2>3. status'[k] = IF k \in gone THEN "absent" ELSE status[k]
    BY <2>1
  <2> QED BY <2>2, <2>3
<1>2. UNCHANGED <<caller, request>>
  BY DEF DeleteHistory, drawn
<1>3. ASSUME status[k] \in Terminal PROVE caller[k] \notin {"new", "preparing"}
  BY <1>3 DEF IInv, UnbornIsBlank
<1> QED BY <1>1, <1>2, <1>3 DEF Calm, Over

\* Every step of a worker but Start is calm for every job.
LEMMA WorkIsCalm ==
  ASSUME IInv, NEW w \in Worker,
         \/ Take(w) \/ Skip(w) \/ Progress(w) \/ RunnerReturns(w)
         \/ Complete(w) \/ Finish(w)
  PROVE  \A k \in Job : Calm(k)
<1> SUFFICES ASSUME NEW k \in Job PROVE Calm(k)
  OBVIOUS
<1>1. CASE Take(w) \/ Skip(w) \/ Progress(w) \/ RunnerReturns(w) \/ Complete(w)
  <2>1. UNCHANGED <<status, caller, request>>
    BY <1>1 DEF Take, Skip, Progress, RunnerReturns, Complete, durable, drawn,
                volatile
  <2> QED BY <2>1 DEF Calm, Over
<1>2. CASE Finish(w)
  <2>1. UNCHANGED <<caller, request>>
    BY <1>2 DEF Finish, drawn
  <2>2. Verdict(w) \in Terminal
    BY DEF IInv, TypeOK, Verdict
  <2>3. /\ status \in [Job -> Status \cup {"absent"}]
        /\ holds[w] \in Job
    BY <1>2 DEF IInv, TypeOK, WorkersHoldJobs, Finish
  <2>4. status[holds[w]] = "running"
    BY <1>2 DEF IInv, WorkersHoldJobs, Finish, Executing
  <2>5. \A i \in Job : status[i] \in Status => caller[i] \notin {"new", "preparing"}
    BY DEF IInv, UnbornIsBlank
  <2>6. \/ status'[k] = status[k]
        \/ status'[k] \in Terminal
        \/ status[k] \in Status /\ status'[k] = "absent"
    BY <1>2, <2>2, <2>3, <2>4 DEF Finish, Victims
  <2> QED BY <2>1, <2>3, <2>5, <2>6 DEF Calm, Over
<1> QED BY <1>1, <1>2

\* A crash retires what was accepted; a reload brings no job back to life.
LEMMA RestartIsCalm ==
  ASSUME IInv, Restart PROVE \A k \in Job : Calm(k)
<1> SUFFICES ASSUME NEW k \in Job PROVE Calm(k)
  OBVIOUS
<1>1. /\ status \in [Job -> Status \cup {"absent"}]
      /\ stored \in [Job -> Status \cup {"absent"}]
      /\ caller \in [Job -> CallerState]
  BY DEF IInv, TypeOK
<1>2. /\ caller[k] \in {"new", "preparing"} => status[k] = "absent" /\ stored[k] = "absent"
      /\ status[k] \in Active => caller[k] \in {"sending", "accepted"}
  BY DEF IInv, UnbornIsBlank, ActiveWasAdmitted
<1>3. CASE Crash
  BY <1>1, <1>2, <1>3 DEF Crash, durable, drawn, Calm, Over
<1>4. CASE Load
  <2>1. status[k] = "absent" /\ caller[k] # "preparing"
    BY <1>4 DEF IInv, DownIsIdle, Load
  <2>2. status'[k] = (IF stored[k] \in Active THEN "failed" ELSE stored[k])
        /\ caller'[k] = caller[k]
    BY <1>4 DEF Load, Reloaded
  <2> QED BY <1>1, <1>2, <2>1, <2>2 DEF Calm, Over
<1>5. CASE LoadAborts
  BY <1>5 DEF LoadAborts, volatile, drawn, Calm, Over
<1> QED BY <1>3, <1>4, <1>5 DEF Restart

\* Admit accepts the job for an environment that no other job holds, or
\* refuses it; either way no other job's phase moves.
LEMMA AdmitAccepts ==
  ASSUME IInv, NEW j \in Job, Admit(j)
  PROVE  \/ \A k \in Job : Calm(k)
         \/ /\ \E e \in Env : Exclusion!Accept(j, e)
            /\ \A k \in Job : Over(k) => Over(k)'
<1>1. /\ status \in [Job -> Status \cup {"absent"}]
      /\ caller \in [Job -> CallerState]
      /\ request' = request
      /\ caller[j] = "preparing" /\ status[j] = "absent"
      /\ ~Busy(request[j].env)
  BY DEF IInv, TypeOK, UnbornIsBlank, Admit, drawn
<1>2. CASE status' = status /\ caller' = [caller EXCEPT ![j] = "refused"]
  BY <1>1, <1>2 DEF Calm, Over
<1>3. CASE /\ status' = [status EXCEPT ![j] = "queued"]
           /\ caller' = [caller EXCEPT ![j] = "sending"]
  <2> DEFINE e == request[j].env
  <2>1. e \in Env
    BY DEF IInv, RequestIsDrawn, Admit, Request
  <2>2. Phase(j) = "new" /\ Phase(j)' = "waiting" /\ Place(j)' = e
    BY <1>1, <1>3 DEF Phase, Place, Over
  <2>3. \A k \in Job : ~(Exclusion!Holding(k) /\ Place(k) = e)
    BY <1>1 DEF Exclusion!Holding, Phase, Place, Busy, ActiveIn, Over
  <2>4. \A k \in Job : k # j => Phase(k)' = Phase(k) /\ Place(k)' = Place(k)
    BY <1>1, <1>3 DEF Phase, Place, Over
  <2>5. Exclusion!Accept(j, e)
    BY <2>2, <2>3, <2>4 DEF Exclusion!Accept
  <2>6. \A k \in Job : Over(k) => Over(k)'
    BY <1>1, <1>3 DEF Over
  <2> QED BY <2>1, <2>5, <2>6
<1> QED BY <1>2, <1>3 DEF Admit, Outcome

\* Start takes its job from waiting to working and moves no other job.
LEMMA StartBegins ==
  ASSUME IInv, NEW w \in Worker, Start(w)
  PROVE  /\ \E j \in Job : Exclusion!Begin(j)
         /\ \A k \in Job : Over(k) => Over(k)'
<1>1. PICK j \in Job :
        /\ status \in [Job -> Status \cup {"absent"}]
        /\ status[j] = "queued"
        /\ status' = [status EXCEPT ![j] = "running"]
        /\ UNCHANGED <<caller, request>>
  <2>1. holds[w] \in Job
    BY DEF IInv, WorkersHoldJobs, Start
  <2>2. status \in [Job -> Status \cup {"absent"}]
    BY DEF IInv, TypeOK
  <2> QED BY <2>1, <2>2 DEF Start, drawn
<1>2. Phase(j) = "waiting" /\ Phase(j)' = "working"
  BY <1>1 DEF Phase, Over
<1>3. \A k \in Job : k # j => Phase(k)' = Phase(k)
  BY <1>1 DEF Phase, Over
<1>4. \A k \in Job : Place(k)' = Place(k)
  BY <1>1 DEF Place
<1>5. Exclusion!Begin(j)
  BY <1>1, <1>2, <1>3, <1>4 DEF Exclusion!Begin
<1>6. \A k \in Job : Over(k) => Over(k)'
  BY <1>1 DEF Over
<1> QED BY <1>1, <1>5, <1>6

\* Each step of the manager is a step of EnvironmentExclusion or a stutter,
\* and makes no finished job unfinished.
LEMMA NextSimulates ==
  ASSUME IInv, [Next]_vars
  PROVE  /\ [Exclusion!Next]_<<[j \in Job |-> Phase(j)], [j \in Job |-> Place(j)]>>
         /\ \A j \in Job : Over(j) => Over(j)'
<1>1. CASE \A k \in Job : Calm(k)
  <2>1. Exclusion!Next
    BY <1>1, CalmRetires DEF Exclusion!Next
  <2> QED BY <1>1, <2>1 DEF Calm
<1>2. CASE UNCHANGED vars
  BY <1>2 DEF vars, volatile, durable, drawn, Phase, Place, Over
<1>3. ASSUME NEW j \in Job, Admit(j), ~\A k \in Job : Calm(k)
      PROVE  Exclusion!Next /\ \A k \in Job : Over(k) => Over(k)'
  BY <1>3, AdmitAccepts DEF Exclusion!Next
<1>4. ASSUME NEW w \in Worker, Start(w)
      PROVE  Exclusion!Next /\ \A k \in Job : Over(k) => Over(k)'
  BY <1>4, StartBegins DEF Exclusion!Next
<1>5. ASSUME NEW j \in Job, Submit(j) \/ Operate(j), ~Admit(j)
      PROVE  \A k \in Job : Calm(k)
  BY <1>5, CallsAreCalm DEF Submit, Operate
<1>6. ASSUME NEW scope \in Scopes, DeleteHistory(scope)
      PROVE  \A k \in Job : Calm(k)
  BY <1>6, EraseIsCalm
<1>7. ASSUME NEW w \in Worker, Run(w), ~Start(w)
      PROVE  \A k \in Job : Calm(k)
  BY <1>7, WorkIsCalm DEF Run
<1>8. ASSUME Restart PROVE \A k \in Job : Calm(k)
  BY <1>8, RestartIsCalm
<1> QED BY <1>1, <1>2, <1>3, <1>4, <1>5, <1>6, <1>7, <1>8 DEF Next

\* Every initial state of the manager is an initial state of the promise.
LEMMA InitSimulates == Init => Exclusion!Init
  BY DEF Init, Exclusion!Init, Phase, Place, Over

\* A job that is over (finished, canceled, refused or lost) stays over: no
\* crash, reload, resurrected row or stale channel entry makes it run again.
THEOREM OverIsForGood == Spec => OverStaysOver
<1>1. IInv /\ [Next]_vars => [\A j \in Job : Over(j) => Over(j)']_vars
  BY NextSimulates
<1> QED BY Inductive, <1>1, PTL DEF Spec, OverStaysOver

\* The manager implements EnvironmentExclusion.
THEOREM ManagerKeepsPromise == Spec => KeepsEnvironmentsExclusive
<1>1. IInv /\ [Next]_vars =>
        [Exclusion!Next]_<<[j \in Job |-> Phase(j)], [j \in Job |-> Place(j)]>>
  BY NextSimulates
<1> QED BY Inductive, InitSimulates, <1>1, PTL
        DEF Spec, KeepsEnvironmentsExclusive, Exclusion!Spec
===============================================================================
