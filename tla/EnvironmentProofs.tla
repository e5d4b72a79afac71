--------------------------- MODULE EnvironmentProofs ---------------------------
(***************************************************************************)
(* What an environment keeps, for every value of the constants: the        *)
(* document that the deletion gate protects, with a history nobody erases, *)
(* with failed writes and with a history that is erased, one handler at a  *)
(* time; what an upgraded document deploys; and what the jobs find of the  *)
(* cluster and of the ingresses that a document describes.                 *)
(***************************************************************************)
EXTENDS MCEnvironmentLifecycle, DocumentUpgrade, ClusterStages, DomainRoutes,
        SequenceTheorems, FiniteSetTheorems, WellFoundedInduction, TLAPS

USE EnvironmentLifecycleAssumption DEF EnvironmentLifecycleAssumption
USE DEF Stamp, Mutation, Action, Handler

Handle(r) == Edit(r) \/ Remove(r) \/ Submit(r) \/ Refuse(r)

-------------------------------------------------------------------------------
(* Types.                                                                  *)

\* A job, and a submission that has its stamp, have a positive stamp.
Stamped ==
    /\ job.at # "none" => job.stamp \in Stamp
    /\ \A r \in Request : request[r].at = "stamped" => request[r].stamp \in Stamp

Types == TypeOK /\ Stamped

\* A step of one handler leaves the others where they are, and only TakeStamp
\* gives out a stamp.
LEMMA HandlerMoves ==
    ASSUME TypeOK, NEW r \in Request, Handle(r)
    PROVE  /\ request' \in [Request -> Call]
           /\ \A q \in Request : q # r => request'[q] = request[q]
           /\ request'[r].at = "stamped" => TakeStamp(r)
           /\ request'[r].op \in Operation \cup {"none", request[r].op}
<1> USE DEF TypeOK, Call, Begin, Move, Return, Idle
<1>1. CASE AskCreate(r)  BY <1>1 DEF AskCreate, At
<1>2. CASE AskSave(r)  BY <1>2 DEF AskSave, At
<1>3. CASE WriteDoc(r)  BY <1>3 DEF WriteDoc, At
<1>4. CASE WriteDocFails(r)  BY <1>4 DEF WriteDocFails, At
<1>5. CASE WriteRecord(r)  BY <1>5 DEF WriteRecord, At
<1>6. CASE WriteRecordFails(r)  BY <1>6 DEF WriteRecordFails, At
<1>7. CASE PassGate(r)  BY <1>7 DEF PassGate, At
<1>8. CASE RemoveDoc(r)  BY <1>8 DEF RemoveDoc, At
<1>9. CASE RemoveDocFails(r)  BY <1>9 DEF RemoveDocFails, At
<1>10. CASE ForgetHistory(r)  BY <1>10 DEF ForgetHistory, At
<1>11. CASE RemoveRecord(r)  BY <1>11 DEF RemoveRecord, At
<1>12. CASE RemoveRecordFails(r)  BY <1>12 DEF RemoveRecordFails, At
<1>13. CASE TakeStamp(r)
  <2>1. clock + 1 \in Stamp
    BY <1>13 DEF TakeStamp
  <2>2. request' = [request EXCEPT ![r] = [op |-> request[r].op, at |-> "stamped",
                                         stamp |-> clock + 1]]
    BY <1>13 DEF TakeStamp
  <2> QED
    BY <1>13, <2>1, <2>2
<1>14. CASE AdmitJob(r)  BY <1>14 DEF AdmitJob, At
<1>15. CASE Refuse(r)  BY <1>15 DEF Refuse, At
<1>16. CASE \E op \in {"delete", "project", "teardown"} : AskDelete(r, op)
  BY <1>16 DEF AskDelete
<1>17. CASE \E action \in Action \cup {"teardown"} : AskJob(r, action)
  BY <1>17 DEF AskJob
<1> QED
  BY <1>1, <1>2, <1>3, <1>4, <1>5, <1>6, <1>7, <1>8, <1>9, <1>10,
     <1>11, <1>12, <1>13, <1>14, <1>15, <1>16, <1>17
  DEF Handle, Edit, Remove, Submit

\* The empty job is a job.
LEMMA NoJobType == NoJob \in Job /\ NoJob.at = "none"
BY DEF NoJob, Job

\* The row of a job that is over.
LEMMA OverEffect ==
    ASSUME Types, job.at # "none", NEW ok \in BOOLEAN, Over(ok)
    PROVE  /\ job' = NoJob
           /\ history' \subseteq Row
           /\ \A m \in history' : m \in history \/ (m.stamp = job.stamp /\ m.ok = ok)
           /\ history \subseteq history'
           /\ job.action \in Mutation =>
                \E m \in history' : m.stamp = job.stamp /\ m.ok = ok
           /\ job.action = "plan" => history' = history
<1> USE DEF Types, Stamped, TypeOK, Row, Job
<1>1. \A m \in Finished(job, ok) : m \in Row /\ m.stamp = job.stamp /\ m.ok = ok
  BY DEF Finished
<1>2. job.action \in Mutation =>
        [action |-> job.action, stamp |-> job.stamp, ends |-> job.ends, ok |-> ok]
            \in Finished(job, ok)
  BY DEF Finished
<1>3. job.action = "plan" => Finished(job, ok) = {}
  BY DEF Finished
<1>4. job' = NoJob /\ history' = history \cup Finished(job, ok)
  BY DEF Over
<1>5. job.action \in Mutation =>
        \E m \in history' : m.stamp = job.stamp /\ m.ok = ok
  BY <1>2, <1>4
<1> QED
  BY <1>1, <1>3, <1>4, <1>5

\* A step of a handler keeps the types.
LEMMA HandlerTypes == ASSUME Types, NEW r \in Request, Handle(r) PROVE Types'
<1> USE DEF Types, TypeOK, Stamped
<1>1. \A q \in Request : request'[q].at = "stamped" => request'[q].stamp \in Stamp
  <2>1. TakeStamp(r) => request'[r].stamp = clock + 1 /\ clock + 1 \in Stamp
    BY DEF TakeStamp
  <2> QED
    BY <2>1, HandlerMoves
<1>2. request' \in [Request -> Call]
  BY HandlerMoves
<1>3. TypeOK' /\ (job'.at # "none" => job'.stamp \in Stamp)
  <2> USE DEF Saved, Deleted, stores, cloud, tasks, bounds
  <2>1. CASE AdmitJob(r)
    <3>1. request[r].op \in Action \cup {"teardown"} /\ request[r].stamp \in Stamp
      BY <2>1 DEF AdmitJob, At
    <3>2. job' \in Job /\ job'.stamp = request[r].stamp
      BY <2>1, <3>1 DEF AdmitJob, Job
    <3> QED
      BY <1>2, <2>1, <3>1, <3>2 DEF AdmitJob
  <2>2. CASE AskCreate(r)  BY <1>2, <2>2 DEF AskCreate
  <2>3. CASE AskSave(r)  BY <1>2, <2>3 DEF AskSave
  <2>4. CASE WriteDoc(r)  BY <1>2, <2>4 DEF WriteDoc
  <2>5. CASE WriteDocFails(r)
    <3>1. faults' \in 0 .. MaxFaults
      BY <2>5 DEF WriteDocFails, Fault
    <3> QED
      BY <1>2, <2>5, <3>1 DEF WriteDocFails
  <2>6. CASE WriteRecord(r)  BY <1>2, <2>6 DEF WriteRecord
  <2>7. CASE WriteRecordFails(r)
    <3>1. faults' \in 0 .. MaxFaults
      BY <2>7 DEF WriteRecordFails, Fault
    <3> QED
      BY <1>2, <2>7, <3>1 DEF WriteRecordFails
  <2>8. CASE PassGate(r)  BY <1>2, <2>8 DEF PassGate
  <2>9. CASE RemoveDoc(r)  BY <1>2, <2>9 DEF RemoveDoc
  <2>10. CASE RemoveDocFails(r)
    <3>1. faults' \in 0 .. MaxFaults
      BY <2>10 DEF RemoveDocFails, Fault
    <3> QED
      BY <1>2, <2>10, <3>1 DEF RemoveDocFails
  <2>11. CASE ForgetHistory(r)  BY <1>2, <2>11 DEF ForgetHistory
  <2>12. CASE RemoveRecord(r)  BY <1>2, <2>12 DEF RemoveRecord
  <2>13. CASE RemoveRecordFails(r)
    <3>1. faults' \in 0 .. MaxFaults
      BY <2>13 DEF RemoveRecordFails, Fault
    <3> QED
      BY <1>2, <2>13, <3>1 DEF RemoveRecordFails
  <2>14. CASE TakeStamp(r)  BY <1>2, <2>14 DEF TakeStamp
  <2>15. CASE Refuse(r)  BY <1>2, <2>15 DEF Refuse
  <2>16. CASE \E op \in {"delete", "project", "teardown"} : AskDelete(r, op)
    BY <1>2, <2>16 DEF AskDelete
  <2>17. CASE \E action \in Action \cup {"teardown"} : AskJob(r, action)
    BY <1>2, <2>17 DEF AskJob
  <2> QED
    BY <2>1, <2>2, <2>3, <2>4, <2>5, <2>6, <2>7, <2>8, <2>9, <2>10,
       <2>11, <2>12, <2>13, <2>14, <2>15, <2>16, <2>17
    DEF Handle, Edit, Remove, Submit
<1> QED
  BY <1>1, <1>3

\* A step of the runner keeps the types.
LEMMA RunTypes == ASSUME Types, Run PROVE Types'
<1> USE DEF Types, TypeOK, Stamped, Runs, Step, Saved, Deleted, Job,
            stores, cloud, tasks, bounds
<1>1. CASE LoadDoc  BY <1>1 DEF LoadDoc
<1>2. CASE SaveDefaults  BY <1>2 DEF SaveDefaults
<1>3. CASE SelectWorkspace  BY <1>3 DEF SelectWorkspace
<1>4. CASE Terraform  BY <1>4 DEF Terraform
<1>5. CASE PersistMetadata  BY <1>5 DEF PersistMetadata
<1>6. CASE RunnerFails  BY <1>6 DEF RunnerFails
<1>7. CASE CompleteJob  BY <1>7 DEF CompleteJob
<1>8. CASE CompleteDoc
  <2>1. CASE doc  BY <1>8, <2>1, ZenonT(60) DEF CompleteDoc
  <2>2. CASE ~doc  BY <1>8, <2>2, ZenonT(60) DEF CompleteDoc
  <2> QED BY <2>1, <2>2
<1>9. CASE CompleteDocFails
  <2>1. faults' \in 0 .. MaxFaults
    BY <1>9 DEF CompleteDocFails, Fault
  <2> QED
    BY <1>9, <2>1 DEF CompleteDocFails
<1>10. CASE CompleteRecord
  <2>1. CASE job.canceled  BY <1>10, <2>1, ZenonT(60) DEF CompleteRecord
  <2>2. CASE ~job.canceled  BY <1>10, <2>2, ZenonT(60) DEF CompleteRecord
  <2> QED BY <2>1, <2>2
<1>11. CASE FinishJob
  <2>1. job' = NoJob /\ history' \subseteq Row
    BY <1>11, OverEffect DEF FinishJob
  <2> QED
    BY <1>11, <2>1, NoJobType DEF FinishJob
<1> QED
  BY <1>1, <1>2, <1>3, <1>4, <1>5, <1>6, <1>7, <1>8, <1>9, <1>10, <1>11 DEF Run

\* Cancels, erasures and restarts keep the types.
LEMMA OtherTypes ==
    ASSUME Types, CancelJob \/ EraseHistory \/ Restart PROVE Types'
<1> USE DEF Types, TypeOK, Stamped, stores, cloud, tasks, bounds
<1>1. CASE CancelJob /\ job.at = "queued"
  <2>1. /\ Over(FALSE) /\ job.at # "none"
        /\ UNCHANGED <<stores, cloud, clock, request, bounds>>
    BY <1>1 DEF CancelJob
  <2> QED
    BY <2>1, OverEffect, NoJobType
<1>2. CASE CancelJob /\ job.at # "queued"
  BY <1>2, ZenonT(60) DEF CancelJob, Job
<1>3. CASE EraseHistory
  BY <1>3 DEF EraseHistory
<1>4. CASE Restart
  <2>1. request' \in [Request -> Call]
        /\ \A r \in Request : request'[r].at # "stamped"
    BY <1>4 DEF Restart, Idle, Call
  <2>2. job' \in Job /\ history' \subseteq Row /\ (job'.at # "none" => job' = job)
    <3>1. CASE job.at = "none" /\ UNCHANGED tasks  BY <3>1
    <3>2. CASE job.at # "none" /\ Over(FALSE)
      BY <3>2, OverEffect, NoJobType
    <3> QED BY <1>4, <3>1, <3>2 DEF Restart
  <2>3. doc' \in BOOLEAN /\ file' \in BOOLEAN /\ record' \in BOOLEAN
    BY <1>4 DEF Restart
  <2> QED
    BY <1>4, <2>1, <2>2, <2>3 DEF Restart
<1> QED
  BY <1>1, <1>2, <1>3, <1>4

\* The two halves of the induction.
LEMMA TypesInit == Init => Types
<1>1. NoJob \in Job /\ NoJob.at = "none" /\ Idle \in Call /\ Idle.at # "stamped"
  BY DEF NoJob, Job, Idle, Call
<1>2. 0 \in 0 .. MaxJobs /\ 0 \in 0 .. MaxFaults /\ 0 \in 0 .. MaxCrashes
      /\ 0 \in 0 .. MaxErasures
  OBVIOUS
<1> QED
  BY <1>1, <1>2 DEF Init, Types, TypeOK, Stamped

\* Every step keeps the types.
LEMMA TypesStep == ASSUME Types, [Next]_vars PROVE Types'
<1>1. CASE UNCHANGED vars
  BY <1>1 DEF Types, TypeOK, Stamped, vars, stores, cloud, tasks, bounds
<1>2. CASE Next
  BY <1>2, HandlerTypes, RunTypes, OtherTypes DEF Next, Handle
<1> QED
  BY <1>1, <1>2

\* Type correctness, for every value of the constants.
THEOREM TypeCorrect == Spec => []TypeOK
<1>1. Types => TypeOK
  BY DEF Types
<1> QED
  BY <1>1, TypesInit, TypesStep, PTL DEF Spec

-------------------------------------------------------------------------------
(* The ledger.                                                             *)

\* One handler at a time, projects are not deleted, the history is not erased.
OneHandler == \A r, q \in Request : r = q
Undisturbed ==
    /\ OneHandler
    /\ "project" \notin Operation
    /\ MaxErasures = 0

\* Stamps are given out, admitted and recorded in the same order.
StampsGrow ==
    /\ \A m \in history : m.stamp <= clock
    /\ job.at # "none" => job.stamp <= clock /\ \A m \in history : m.stamp < job.stamp
    /\ \A r \in Request : request[r].at = "stamped" =>
          /\ request[r].stamp = clock
          /\ \A m \in history : m.stamp < clock
          /\ job.at # "none" => job.stamp < clock

\* What the metadata says at each step of a job.
Lagging == tracked # owned => ~Settled(history)

Ledger ==
    /\ job.at \in {"none", "queued", "loaded", "saved"} => Lagging
    /\ job.at \in {"ready", "completing", "clearing", "cleared"} => tracked = owned
    /\ job.at \in {"ready", "changed", "completing", "clearing", "cleared"} =>
          job.action \in Mutation
    /\ job.at = "ending" => /\ job.ok => tracked = owned
                            /\ job.action = "plan" => Lagging

CallsAreKnown == \A r \in Request : request[r].op \in Operation \cup {"none"}

IInv == Types /\ CallsAreKnown /\ StampsGrow /\ Ledger

\* The row of a job that did not succeed is the newest: the history is not
\* settled.
LEMMA OverLedger ==
    ASSUME IInv, job.at # "none", NEW ok \in BOOLEAN, Over(ok),
           UNCHANGED <<owned, tracked, clock>>,
           \A r \in Request : request'[r].at = "stamped" => request'[r] = request[r],
           ok => tracked = owned,
           job.action = "plan" => Lagging
    PROVE  StampsGrow' /\ Ledger'
<1> USE DEF IInv, Types, TypeOK
<1>1. /\ job' = NoJob
      /\ \A m \in history' : m \in history \/ (m.stamp = job.stamp /\ m.ok = ok)
      /\ job.action \in Mutation => \E m \in history' : m.stamp = job.stamp /\ m.ok = ok
      /\ job.action = "plan" => history' = history
  BY OverEffect
<1>2. job' = NoJob /\ NoJob.at = "none" /\ job.stamp \in Nat /\ clock \in Nat
  BY <1>1, NoJobType DEF Job
<1>3. StampsGrow'
  BY <1>1, <1>2 DEF StampsGrow
<1>4. Lagging'
  <2>1. CASE ok
    BY <2>1 DEF Lagging
  <2>2. CASE job.action = "plan"
    BY <1>1, <2>2 DEF Lagging
  <2>3. CASE ~ok /\ job.action \in Mutation
    <3>1. PICK m \in history' : m.stamp = job.stamp /\ m.ok = ok
      BY <1>1, <2>3
    <3>2. \A n \in history : n.stamp < job.stamp
      BY DEF StampsGrow
    <3>3. \A n \in history : n.stamp \in Nat
      BY DEF Row
    <3>4. \A n \in history' : n.stamp <= m.stamp
      BY <1>1, <1>2, <3>1, <3>2, <3>3
    <3>5. ~Settled(history')
      BY <2>3, <3>1, <3>4 DEF Settled
    <3> QED
      BY <3>5 DEF Lagging
  <2> QED
    BY <2>1, <2>2, <2>3 DEF Job
<1> QED
  BY <1>2, <1>3, <1>4 DEF Ledger

\* A handler submits with a stamp newer than everything before it, and touches
\* neither the metadata nor the history.
LEMMA HandlerLedger ==
    ASSUME OneHandler, IInv, NEW r \in Request, Handle(r), ForgetHistory(r) => tracked = owned
    PROVE  CallsAreKnown' /\ StampsGrow' /\ Ledger'
<1> USE DEF IInv, Types, TypeOK
<1>1. /\ request' \in [Request -> Call]
      /\ \A q \in Request : q = r
      /\ request'[r].at = "stamped" => TakeStamp(r)
      /\ request'[r].op \in Operation \cup {"none", request[r].op}
  BY HandlerMoves DEF OneHandler
<1>2. CallsAreKnown'
  BY <1>1 DEF CallsAreKnown
<1>3. job \in Job /\ clock \in Nat /\ \A m \in history : m.stamp \in Nat
  BY DEF Row
<1>4. CASE TakeStamp(r)
  <2>1. UNCHANGED <<job, history, owned, tracked>> /\ clock' = clock + 1
        /\ request'[r].stamp = clock + 1
    BY <1>4 DEF TakeStamp, tasks, cloud
  <2>2. job.stamp \in Nat
    BY <1>3 DEF Job
  <2>3. StampsGrow'
    BY <1>1, <1>3, <2>1, <2>2 DEF StampsGrow
  <2> QED
    BY <1>2, <2>1, <2>3 DEF Ledger, Lagging
<1>5. CASE AdmitJob(r)
  <2>1. /\ job.at = "none" /\ job'.at = "queued"
        /\ job'.stamp = request[r].stamp /\ request[r].at = "stamped"
        /\ request'[r].at # "stamped"
        /\ UNCHANGED <<history, clock, owned, tracked>>
    BY <1>5 DEF AdmitJob, At, Return, Idle, cloud
  <2>2. StampsGrow'
    BY <1>1, <1>3, <2>1 DEF StampsGrow
  <2>3. Ledger'
    BY <2>1 DEF Ledger, Lagging
  <2> QED
    BY <1>2, <2>2, <2>3
<1>7. CASE ForgetHistory(r)
  <2>1. UNCHANGED <<job, clock, owned, tracked>> /\ history' = {} /\ tracked = owned
        /\ request'[r].at # "stamped"
    BY <1>1, <1>7 DEF ForgetHistory, cloud, Move, Call
  <2> QED
    BY <1>1, <1>2, <2>1 DEF StampsGrow, Ledger, Lagging
<1>6. CASE ~TakeStamp(r) /\ ~AdmitJob(r) /\ ~ForgetHistory(r)
  <2>1. ~ForgetHistory(r)
    BY <1>6
  <2>2. UNCHANGED <<job, history, clock, owned, tracked>>
    BY <1>6, <2>1
    DEF Handle, Edit, Remove, Submit, Refuse, AskCreate, AskSave, WriteDoc,
        WriteDocFails, WriteRecord, WriteRecordFails, AskDelete, PassGate,
        RemoveDoc, RemoveDocFails, RemoveRecord, RemoveRecordFails, AskJob,
        tasks, cloud
  <2>3. StampsGrow'
    BY <1>1, <1>6, <2>2 DEF StampsGrow
  <2> QED
    BY <1>2, <2>2, <2>3 DEF Ledger, Lagging
<1> QED
  BY <1>4, <1>5, <1>6, <1>7

\* The runner reports success only once the metadata says what the state says.
LEMMA RunLedger ==
    ASSUME IInv, Run
    PROVE  CallsAreKnown' /\ StampsGrow' /\ Ledger'
<1> USE DEF IInv, Types, TypeOK
<1>1. CallsAreKnown' /\ UNCHANGED <<request, clock>>
  BY DEF Run, LoadDoc, SaveDefaults, SelectWorkspace, Terraform, PersistMetadata,
         RunnerFails, CompleteJob, CompleteDoc, CompleteDocFails, CompleteRecord,
         FinishJob, CallsAreKnown, bounds
<1>2. CASE FinishJob
  <2>1. UNCHANGED <<owned, tracked>>
    BY <1>2 DEF FinishJob, cloud
  <2>2. (job.ok /\ ~job.canceled) \in BOOLEAN /\ Over(job.ok /\ ~job.canceled)
        /\ job.at = "ending"
    BY <1>2 DEF FinishJob
  <2> QED
    BY <1>1, <2>1, <2>2, OverLedger DEF Ledger
<1>3. CASE ~FinishJob
  <2> USE DEF Job, Step, Runs, stores, cloud
  <2>1. CASE LoadDoc
    BY <1>1, <2>1 DEF LoadDoc, StampsGrow, Ledger, Lagging
  <2>2. CASE SaveDefaults
    BY <1>1, <2>2 DEF SaveDefaults, StampsGrow, Ledger, Lagging
  <2>3. CASE SelectWorkspace
    BY <1>1, <2>3 DEF SelectWorkspace, StampsGrow, Ledger, Lagging
  <2>4. CASE Terraform
    BY <1>1, <2>4 DEF Terraform, StampsGrow, Ledger, Lagging
  <2>5. CASE PersistMetadata
    BY <1>1, <2>5 DEF PersistMetadata, StampsGrow, Ledger, Lagging
  <2>6. CASE RunnerFails
    BY <1>1, <2>6 DEF RunnerFails, StampsGrow, Ledger, Lagging
  <2>7. CASE CompleteJob
    BY <1>1, <2>7 DEF CompleteJob, StampsGrow, Ledger, Lagging
  <2>8. CASE CompleteDoc
    <3>1. CASE doc
      BY <1>1, <2>8, <3>1 DEF CompleteDoc, StampsGrow, Ledger, Lagging
    <3>2. CASE ~doc
      BY <1>1, <2>8, <3>2, ZenonT(60) DEF CompleteDoc, StampsGrow, Ledger, Lagging
    <3> QED BY <3>1, <3>2
  <2>9. CASE CompleteDocFails
    BY <1>1, <2>9 DEF CompleteDocFails, StampsGrow, Ledger, Lagging
  <2>10. CASE CompleteRecord
    BY <1>1, <2>10, ZenonT(60) DEF CompleteRecord, StampsGrow, Ledger, Lagging
  <2> QED
    BY <1>3, <2>1, <2>2, <2>3, <2>4, <2>5, <2>6, <2>7, <2>8, <2>9, <2>10 DEF Run
<1> QED
  BY <1>2, <1>3

\* A cancel, or a crash, ends a job without a success.
LEMMA OtherLedger ==
    ASSUME IInv, CancelJob \/ Restart
    PROVE  CallsAreKnown' /\ StampsGrow' /\ Ledger'
<1> USE DEF IInv, Types, TypeOK
<1>2. CASE CancelJob
  <2>1. CallsAreKnown' /\ UNCHANGED <<request, clock, owned, tracked>>
    BY <1>2 DEF CancelJob, CallsAreKnown, cloud
  <2>2. CASE job.at = "queued"
    <3>1. Over(FALSE) /\ job.at # "none" /\ Lagging
      BY <1>2, <2>2 DEF CancelJob, Ledger
    <3> QED
      BY <2>1, <3>1, OverLedger
  <2>3. CASE job.at # "queued"
    BY <1>2, <2>1, <2>3 DEF CancelJob, Job, StampsGrow, Ledger, Lagging
  <2> QED
    BY <2>1, <2>2, <2>3
<1>3. CASE Restart
  <2>1. /\ \A r \in Request : request'[r].at # "stamped" /\ request'[r].op = "none"
        /\ UNCHANGED <<clock, owned, tracked>>
    BY <1>3 DEF Restart, Idle, cloud
  <2>2. CallsAreKnown'
    BY <2>1 DEF CallsAreKnown
  <2>3. CASE job.at = "none"
    BY <1>3, <2>1, <2>2, <2>3 DEF Restart, tasks, StampsGrow, Ledger, Lagging
  <2>4. CASE job.at # "none"
    <3>1. Over(FALSE)
      BY <1>3, <2>4 DEF Restart
    <3>2. job.action = "plan" => Lagging
      BY <2>4 DEF Ledger, Job, Lagging
    <3> QED
      BY <2>1, <2>2, <2>4, <3>1, <3>2, OverLedger
  <2> QED
    BY <2>3, <2>4
<1> QED
  BY <1>2, <1>3

\* While one handler at a time is served and nobody erases the history, the
\* gate never trusts metadata that is out of date: for any number of jobs,
\* crashes, cancels and failed writes.
THEOREM LedgerOrHistory ==
    ASSUME Undisturbed PROVE Spec => []LedgerOrHistorySpeaks
<1>1. Init => IInv
  <2>1. Init => Types
    BY TypesInit
  <2>2. Init => StampsGrow /\ CallsAreKnown
    BY DEF Init, StampsGrow, CallsAreKnown, NoJob, Idle
  <2>3. Init => (tracked = owned)
    BY Zenon DEF Init
  <2>4. Init => job.at = "none"
    BY DEF Init, NoJob
  <2>5. Init => Lagging
    BY <2>3, Zenon DEF Lagging
  <2>6. Init => Ledger
    BY <2>4, <2>5, SMT DEF Ledger
  <2> QED
    BY <2>1, <2>2, <2>6 DEF IInv
<1>2. IInv /\ [Next]_vars => IInv'
  <2> SUFFICES ASSUME IInv, [Next]_vars PROVE IInv'
    OBVIOUS
  <2>1. Types'
    BY TypesStep DEF IInv
  <2>2. CASE UNCHANGED vars
    BY <2>1, <2>2 DEF IInv, CallsAreKnown, StampsGrow, Ledger, Lagging, vars,
                      stores, cloud, tasks, bounds
  <2>3. CASE Next
    <3>1. ~EraseHistory
      BY <2>1 DEF EraseHistory, Undisturbed, IInv, Types, TypeOK
    <3>2. ASSUME NEW r \in Request PROVE ~ForgetHistory(r)
      BY DEF ForgetHistory, At, IInv, CallsAreKnown, Undisturbed
    <3>3. OneHandler
      BY DEF Undisturbed
    <3> QED
      BY <2>1, <2>3, <3>1, <3>2, <3>3, HandlerLedger, RunLedger, OtherLedger DEF Next, Handle, IInv
  <2> QED
    BY <2>2, <2>3
<1>3. IInv => LedgerOrHistorySpeaks
  BY DEF IInv, Ledger, Lagging, LedgerOrHistorySpeaks
<1> QED
  BY <1>1, <1>2, <1>3, PTL DEF Spec

-------------------------------------------------------------------------------
(* The settings of MCEnvironmentLifecycle.                                 *)

Creating(r, at) == request[r].op = "create" /\ request[r].at \in at
Removing(r, at) == request[r].op \in {"delete", "project", "teardown"} /\ request[r].at \in at

\* Nothing fails: a document has a record or is about to get one, and a handler
\* or a job that removes it has seen that nothing is left in AWS.
Gate ==
    /\ file = doc /\ (owned \/ tracked => doc)
    /\ doc => record \/ \E r \in Request : Creating(r, {"written"})
    /\ \A r \in Request :
          /\ Creating(r, {"checked", "written"}) => ~record
          /\ Creating(r, {"written"}) => doc
          /\ Removing(r, {"quiet", "cleared", "removed", "forgotten"}) => job.at = "none"
          /\ Removing(r, {"cleared", "removed", "forgotten"}) => ~owned /\ ~tracked
          /\ Removing(r, {"removed", "forgotten"}) => ~doc
    /\ job.at \in {"loaded", "saved", "ready", "changed", "completing"} => doc
    /\ job.at \in {"clearing", "cleared"} => record /\ ~owned /\ ~tracked
    /\ job.at = "cleared" => ~doc

\* Writes fail and histories are erased: a job has its document and its record
\* all along, and the gate lets nothing pass that the metadata knows of.
Erased ==
    /\ owned /\ tracked => doc /\ record
    /\ \A r \in Request :
          /\ Creating(r, {"checked", "written"}) => ~record
          /\ request[r].op \in Action /\ request[r].at \in {"checked", "stamped"} => doc /\ record
          /\ Removing(r, {"quiet", "cleared", "removed", "forgotten"}) => job.at = "none"
          /\ Removing(r, {"cleared", "removed", "forgotten"}) => ~(owned /\ tracked)
    /\ job.at # "none" => doc /\ record /\ ~job.ends
    /\ job.at \notin {"completing", "clearing", "cleared"}

Known ==
    /\ setting \in DOMAIN Setting /\ Within
    /\ Types /\ CallsAreKnown
    /\ setting = "gate" => StampsGrow /\ Ledger /\ Gate
    /\ setting = "erased" => Erased

\* The ledger of the gate through a step of the one handler.
LEMMA HandlerGate ==
    ASSUME OneHandler, Known, Within', UNCHANGED setting, setting = "gate", NEW r \in Request, Handle(r)
    PROVE  Gate'
<1> USE DEF Known, Types, TypeOK
<1>0. /\ request' \in [Request -> Call] /\ request[r] \in Call /\ \A q \in Request : q = r
      /\ request[r].op \in Setting["gate"].ops \cup {"none"}
  BY HandlerMoves DEF OneHandler, Within
<1>a. Gate /\ job \in Job
  OBVIOUS
<1>f. ~Fault
  <2>1. faults \in Nat /\ faults' <= 0
    BY DEF Within, Setting
  <2> QED BY <2>1 DEF Fault
<1>l. job.at = "none" => Lagging
  BY DEF Ledger
<1>s. request[r].op # "save"
  BY <1>0 DEF Setting, Base
<1> USE DEF Gate, Creating, Removing, At, Move, Return, Begin, Saved, Deleted, Idle, Call, Job,
            stores, cloud, tasks, bounds
<1>1. CASE AskCreate(r)  BY <1>0, <1>a, <1>f, <1>s, <1>1 DEF AskCreate
<1>2. CASE AskSave(r)  BY <1>0, <1>a, <1>f, <1>s, <1>2 DEF AskSave
<1>3. CASE WriteDoc(r)  BY <1>0, <1>a, <1>f, <1>s, <1>3 DEF WriteDoc
<1>4. CASE WriteDocFails(r)  BY <1>0, <1>a, <1>f, <1>s, <1>4 DEF WriteDocFails
<1>5. CASE WriteRecord(r)  BY <1>0, <1>a, <1>f, <1>s, <1>5 DEF WriteRecord
<1>6. CASE WriteRecordFails(r)  BY <1>0, <1>a, <1>f, <1>s, <1>6 DEF WriteRecordFails
<1>7. CASE PassGate(r)
  <2>1. CASE At(r, {"delete", "project"}, "quiet") /\ record /\ ~Blocked /\ Move(r, "cleared")
    <3>1. job.at = "none" /\ doc /\ ~tracked
      BY <1>a, <2>1 DEF Blocked
    <3>2. Settled(history)
      BY <2>1, <3>1 DEF Blocked, Mutations
    <3>3. ~owned
      BY <1>l, <3>1, <3>2 DEF Lagging
    <3> QED BY <1>0, <1>7, <1>a, <2>1, <3>1, <3>3 DEF PassGate
  <2>2. CASE At(r, {"project"}, "quiet") /\ ~record /\ Move(r, "removed")
    BY <1>0, <1>7, <1>a, <2>2 DEF PassGate
  <2> QED BY <1>7, <2>1, <2>2 DEF PassGate
<1>8. CASE RemoveDoc(r)  BY <1>0, <1>a, <1>f, <1>s, <1>8, ZenonT(60) DEF RemoveDoc
<1>9. CASE RemoveDocFails(r)  BY <1>0, <1>a, <1>f, <1>s, <1>9 DEF RemoveDocFails
<1>10. CASE ForgetHistory(r)  BY <1>0, <1>a, <1>f, <1>s, <1>10 DEF ForgetHistory
<1>11. CASE RemoveRecord(r)  BY <1>0, <1>a, <1>f, <1>s, <1>11 DEF RemoveRecord
<1>12. CASE RemoveRecordFails(r)  BY <1>0, <1>a, <1>f, <1>s, <1>12 DEF RemoveRecordFails
<1>13. CASE TakeStamp(r)  BY <1>0, <1>a, <1>f, <1>s, <1>13 DEF TakeStamp
<1>14. CASE AdmitJob(r)  BY <1>0, <1>a, <1>f, <1>s, <1>14 DEF AdmitJob
<1>15. CASE Refuse(r)  BY <1>0, <1>a, <1>f, <1>s, <1>15 DEF Refuse
<1>16. CASE \E op \in {"delete", "project", "teardown"} : AskDelete(r, op)
  BY <1>0, <1>a, <1>16 DEF AskDelete
<1>17. CASE \E action \in Action \cup {"teardown"} : AskJob(r, action)
  BY <1>0, <1>a, <1>17 DEF AskJob
<1> QED
  BY <1>1, <1>2, <1>3, <1>4, <1>5, <1>6, <1>7, <1>8, <1>9, <1>10, <1>11, <1>12, <1>13, <1>14, <1>15, <1>16, <1>17 DEF Handle, Edit, Remove, Submit

\* The ledger of the gate through a step of a job.
LEMMA RunGate ==
    ASSUME OneHandler, Known, Within', UNCHANGED setting, setting = "gate", Run
    PROVE  Gate'
<1> USE DEF Known, Types, TypeOK
<1>a. Gate /\ job \in Job /\ UNCHANGED request
  BY DEF Run, LoadDoc, SaveDefaults, SelectWorkspace, Terraform, PersistMetadata,
         RunnerFails, CompleteJob, CompleteDoc, CompleteDocFails, CompleteRecord, FinishJob
<1>f. ~Fault
  <2>1. faults \in Nat /\ faults' <= 0
    BY DEF Within, Setting
  <2> QED BY <2>1 DEF Fault
<1>l. job.at \in {"completing", "clearing", "cleared"} => tracked = owned
  BY DEF Ledger
<1> USE DEF Gate, Creating, Removing, OneHandler, Saved, Deleted, Runs, Step, Job,
            stores, cloud, tasks, bounds
<1>1. CASE LoadDoc  BY <1>a, <1>f, <1>l, <1>1 DEF LoadDoc
<1>2. CASE SaveDefaults  BY <1>a, <1>f, <1>l, <1>2 DEF SaveDefaults
<1>3. CASE SelectWorkspace  BY <1>a, <1>f, <1>l, <1>3 DEF SelectWorkspace
<1>4. CASE Terraform  BY <1>a, <1>f, <1>l, <1>4 DEF Terraform
<1>5. CASE PersistMetadata  BY <1>a, <1>f, <1>l, <1>5 DEF PersistMetadata
<1>6. CASE RunnerFails  BY <1>a, <1>f, <1>l, <1>6 DEF RunnerFails
<1>7. CASE CompleteJob  BY <1>a, <1>f, <1>l, <1>7 DEF CompleteJob
<1>8. CASE CompleteDoc
  <2>1. CASE doc  BY <1>a, <1>8, <2>1, ZenonT(60) DEF CompleteDoc
  <2>2. CASE ~doc  BY <1>a, <1>8, <2>2, ZenonT(60) DEF CompleteDoc
  <2> QED BY <2>1, <2>2
<1>9. CASE CompleteDocFails  BY <1>a, <1>f, <1>l, <1>9 DEF CompleteDocFails
<1>10. CASE CompleteRecord  BY <1>a, <1>f, <1>l, <1>10, ZenonT(60) DEF CompleteRecord
<1>11. CASE FinishJob  BY <1>a, <1>11, NoJobType DEF FinishJob, Over
<1> QED
  BY <1>1, <1>2, <1>3, <1>4, <1>5, <1>6, <1>7, <1>8, <1>9, <1>10, <1>11 DEF Run

\* The ledger of the gate through a cancel, a restart or an erasure.
LEMMA OtherGate ==
    ASSUME Known, Within', setting = "gate", CancelJob \/ Restart \/ EraseHistory
    PROVE  Gate'
<1> USE DEF Known, Types, TypeOK, stores, cloud, tasks, bounds
<1>a. Gate /\ job \in Job
  OBVIOUS
<1> USE DEF Gate, Creating, Removing, Job
<1>1. CASE CancelJob  BY <1>a, <1>1, NoJobType, ZenonT(60) DEF CancelJob, Over
<1>2. CASE Restart
  <2>1. \A r \in Request : request'[r].op = "none" /\ request'[r].at = "idle"
    BY <1>2 DEF Restart, Idle
  <2>2. job'.at = "none"
    BY <1>2, NoJobType DEF Restart, Over
  <2> QED BY <1>a, <1>2, <2>1, <2>2 DEF Restart
<1>3. CASE EraseHistory  BY <1>a, <1>3 DEF EraseHistory
<1> QED BY <1>1, <1>2, <1>3

\* With histories that are erased: through a step of the one handler.
LEMMA HandlerErased ==
    ASSUME OneHandler, Known, Within', UNCHANGED setting, setting = "erased", NEW r \in Request, Handle(r)
    PROVE  Erased'
<1> USE DEF Known, Types, TypeOK
<1>0. /\ request' \in [Request -> Call] /\ request[r] \in Call /\ \A q \in Request : q = r
      /\ request[r].op \in Setting["erased"].ops \cup {"none"}
  BY HandlerMoves DEF OneHandler, Within
<1>a. Erased /\ job \in Job
  OBVIOUS
<1>t. request[r].op # "teardown"
  BY <1>0 DEF Setting, Base
<1> USE DEF Erased, Creating, Removing, At, Move, Return, Begin, Saved, Deleted, Idle, Call, Job,
            stores, cloud, tasks, bounds
<1>1. CASE AskCreate(r)  BY <1>0, <1>a, <1>t, <1>1 DEF AskCreate
<1>2. CASE AskSave(r)  BY <1>0, <1>a, <1>t, <1>2 DEF AskSave
<1>3. CASE WriteDoc(r)  BY <1>0, <1>a, <1>t, <1>3 DEF WriteDoc
<1>4. CASE WriteDocFails(r)
  <2>1. CASE doc' = doc  BY <1>0, <1>a, <1>4, <2>1 DEF WriteDocFails
  <2>2. CASE doc' = TRUE  BY <1>0, <1>a, <1>4, <2>2 DEF WriteDocFails
  <2> QED BY <1>4, <2>1, <2>2 DEF WriteDocFails
<1>5. CASE WriteRecord(r)  BY <1>0, <1>a, <1>t, <1>5 DEF WriteRecord
<1>6. CASE WriteRecordFails(r)  BY <1>0, <1>a, <1>t, <1>6 DEF WriteRecordFails
<1>7. CASE PassGate(r)  BY <1>0, <1>a, <1>t, <1>7 DEF PassGate, Blocked
<1>8. CASE RemoveDoc(r)  BY <1>0, <1>a, <1>t, <1>8 DEF RemoveDoc
<1>9. CASE RemoveDocFails(r)  BY <1>0, <1>a, <1>t, <1>9 DEF RemoveDocFails
<1>10. CASE ForgetHistory(r)  BY <1>0, <1>a, <1>t, <1>10 DEF ForgetHistory
<1>11. CASE RemoveRecord(r)  BY <1>0, <1>a, <1>t, <1>11 DEF RemoveRecord
<1>12. CASE RemoveRecordFails(r)  BY <1>0, <1>a, <1>t, <1>12 DEF RemoveRecordFails
<1>13. CASE TakeStamp(r)  BY <1>0, <1>a, <1>t, <1>13 DEF TakeStamp
<1>14. CASE AdmitJob(r)  BY <1>0, <1>a, <1>t, <1>14, ZenonT(60) DEF AdmitJob
<1>15. CASE Refuse(r)  BY <1>0, <1>a, <1>t, <1>15 DEF Refuse
<1>16. CASE \E op \in {"delete", "project", "teardown"} : AskDelete(r, op)
  BY <1>0, <1>a, <1>16 DEF AskDelete
<1>17. CASE \E action \in Action \cup {"teardown"} : AskJob(r, action)
  BY <1>0, <1>a, <1>17 DEF AskJob
<1> QED
  BY <1>1, <1>2, <1>3, <1>4, <1>5, <1>6, <1>7, <1>8, <1>9, <1>10, <1>11, <1>12, <1>13, <1>14, <1>15, <1>16, <1>17 DEF Handle, Edit, Remove, Submit

\* With histories that are erased: through a step of a job.
LEMMA RunErased ==
    ASSUME OneHandler, Known, Within', UNCHANGED setting, setting = "erased", Run
    PROVE  Erased'
<1> USE DEF Known, Types, TypeOK
<1>a. Erased /\ job \in Job /\ UNCHANGED request
  BY DEF Run, LoadDoc, SaveDefaults, SelectWorkspace, Terraform, PersistMetadata,
         RunnerFails, CompleteJob, CompleteDoc, CompleteDocFails, CompleteRecord, FinishJob
<1> USE DEF Erased, Creating, Removing, OneHandler, Saved, Deleted, Runs, Step, Job,
            stores, cloud, tasks, bounds
<1>1. CASE LoadDoc  BY <1>a, <1>1 DEF LoadDoc
<1>2. CASE SaveDefaults  BY <1>a, <1>2 DEF SaveDefaults
<1>3. CASE SelectWorkspace  BY <1>a, <1>3 DEF SelectWorkspace
<1>4. CASE Terraform  BY <1>a, <1>4 DEF Terraform
<1>5. CASE PersistMetadata  BY <1>a, <1>5 DEF PersistMetadata
<1>6. CASE RunnerFails  BY <1>a, <1>6 DEF RunnerFails
<1>7. CASE CompleteJob  BY <1>a, <1>7 DEF CompleteJob
<1>8. CASE CompleteDoc  BY <1>a, <1>8 DEF CompleteDoc
<1>9. CASE CompleteDocFails  BY <1>a, <1>9 DEF CompleteDocFails
<1>10. CASE CompleteRecord  BY <1>a, <1>10 DEF CompleteRecord
<1>11. CASE FinishJob  BY <1>a, <1>11, NoJobType DEF FinishJob, Over
<1> QED
  BY <1>1, <1>2, <1>3, <1>4, <1>5, <1>6, <1>7, <1>8, <1>9, <1>10, <1>11 DEF Run

\* With histories that are erased: through a cancel, a restart or an erasure.
LEMMA OtherErased ==
    ASSUME Known, Within', setting = "erased", CancelJob \/ Restart \/ EraseHistory
    PROVE  Erased'
<1> USE DEF Known, Types, TypeOK, stores, cloud, tasks, bounds
<1>a. Erased /\ job \in Job
  OBVIOUS
<1> USE DEF Erased, Creating, Removing, Job
<1>1. CASE CancelJob  BY <1>a, <1>1, NoJobType, ZenonT(60) DEF CancelJob, Over
<1>2. CASE Restart
  <2>1. \A r \in Request : request'[r].op = "none" /\ request'[r].at = "idle"
    BY <1>2 DEF Restart, Idle
  <2>2. job'.at = "none"
    BY <1>2, NoJobType DEF Restart, Over
  <2> QED BY <1>a, <1>2, <2>1, <2>2 DEF Restart
<1>3. CASE EraseHistory  BY <1>a, <1>3 DEF EraseHistory
<1> QED BY <1>1, <1>2, <1>3

\* The settings bound the operations, the faults and the erasures of a step.
LEMMA KnownStep ==
    ASSUME OneHandler, Known, [MCNext]_MCvars
    PROVE  Known'
<1>1. CASE UNCHANGED MCvars
  BY <1>1 DEF MCvars, vars, stores, cloud, tasks, bounds, Known, Types, TypeOK, Stamped, CallsAreKnown,
     Within, StampsGrow, Ledger, Lagging, Gate, Creating, Removing, Erased
<1>2. CASE MCNext
  <2>1. Next /\ UNCHANGED setting /\ Within' /\ Types /\ Types' /\ CallsAreKnown
    BY <1>2, TypesStep DEF MCNext, Known
  <2>2. CallsAreKnown'
    <3>1. ASSUME NEW r \in Request, Handle(r) PROVE CallsAreKnown'
      BY <2>1, <3>1, HandlerMoves DEF CallsAreKnown, Types
    <3>2. CASE Run \/ CancelJob \/ EraseHistory
      <4>1. UNCHANGED request
        BY <3>2 DEF Run, LoadDoc, SaveDefaults, SelectWorkspace, Terraform, PersistMetadata,
           RunnerFails, CompleteJob, CompleteDoc, CompleteDocFails, CompleteRecord, FinishJob, CancelJob, EraseHistory
      <4> QED BY <2>1, <4>1 DEF CallsAreKnown
    <3>3. CASE Restart
      BY <3>3 DEF Restart, CallsAreKnown, Idle
    <3> QED BY <2>1, <3>1, <3>2, <3>3 DEF Next, Handle
  <2>3. CASE setting = "gate"
    <3>1. ~EraseHistory
      <4>1. erasures \in Nat /\ erasures' <= 0
        BY <2>1, <2>3 DEF Within, Setting, Types, TypeOK
      <4> QED BY <4>1 DEF EraseHistory
    <3>2. ASSUME NEW r \in Request, ForgetHistory(r) PROVE tracked = owned
      BY <2>1, <2>3, <3>2 DEF Known, Gate, Removing, ForgetHistory, At, Types, TypeOK
    <3>3. IInv
      BY <2>3 DEF IInv, Known
    <3>4. StampsGrow' /\ Ledger'
      BY <2>1, <3>1, <3>2, <3>3, HandlerLedger, RunLedger, OtherLedger DEF Next, Handle
    <3>5. Gate'
      BY <2>1, <2>3, HandlerGate, RunGate, OtherGate DEF Next, Handle
    <3> QED BY <2>1, <2>2, <2>3, <3>4, <3>5 DEF Known
  <2>4. CASE setting = "erased"
    <3>1. Erased'
      BY <2>1, <2>4, HandlerErased, RunErased, OtherErased DEF Next, Handle
    <3> QED BY <2>1, <2>2, <2>4, <3>1 DEF Known
  <2> QED BY <2>1, <2>2, <2>3, <2>4 DEF Known
<1> QED BY <1>1, <1>2 DEF MCNext

\* The first states of the three settings.
LEMMA KnownInitially == MCInit => Known
<1> SUFFICES ASSUME MCInit PROVE Known
  OBVIOUS
<1>1. Types
  BY TypesInit DEF MCInit
<1>2. /\ job.at = "none" /\ history = {} /\ clock = 0 /\ faults = 0 /\ crashes = 0 /\ erasures = 0
      /\ \A r \in Request : request[r].op = "none" /\ request[r].at = "idle"
  BY DEF MCInit, Init, NoJob, Idle
<1>3. ~doc /\ ~file /\ ~record /\ ~owned /\ ~tracked
  BY DEF MCInit, Init
<1>4. setting \in DOMAIN Setting /\ Within
  <2>1. Setting[setting].faults >= 0 /\ Setting[setting].crashes >= 0 /\ Setting[setting].erasures >= 0
    BY DEF MCInit, Setting
  <2> QED BY <1>2, <2>1 DEF MCInit, Within
<1>5. CallsAreKnown /\ StampsGrow
  BY <1>2 DEF CallsAreKnown, StampsGrow
<1>e. tracked = owned /\ file = doc
  BY Zenon DEF MCInit, Init
<1>6. Ledger
  <2>1. Lagging
    BY <1>e, Zenon DEF Lagging
  <2> QED BY <1>2, <2>1 DEF Ledger
<1>7. Gate /\ Erased
  <2>2. Erased
    BY <1>2, <1>3 DEF Erased, Creating, Removing
  <2>3. Gate
    <3>1. /\ owned \/ tracked => doc
          /\ doc => record \/ \E r \in Request : Creating(r, {"written"})
      BY <1>3, Zenon
    <3>2. \A r \in Request : ~Creating(r, {"checked", "written"}) /\ ~Creating(r, {"written"})
                            /\ \A at : ~Removing(r, at)
      BY <1>2 DEF Creating, Removing
    <3> QED BY <1>2, <1>e, <3>1, <3>2, Zenon DEF Gate
  <2> QED BY <2>2, <2>3
<1> QED BY <1>1, <1>4, <1>5, <1>6, <1>7 DEF Known

\* Without failed writes and erased histories, one handler at a time: resources in
\* AWS keep the document they are destroyed with, for any number of jobs and crashes.
THEOREM GateKeepsDocumentsHolds ==
    ASSUME OneHandler PROVE MCSpec => []GateKeepsDocuments
<1>1. MCInit => Known
  BY KnownInitially
<1>2. Known /\ [MCNext]_MCvars => Known'
  BY KnownStep
<1>3. Known => GateKeepsDocuments
  BY DEF Known, Gate, GateKeepsDocuments, ResourcesKeepTheirDocument
<1> QED
  BY <1>1, <1>2, <1>3, PTL DEF MCSpec

\* With both, resources that the metadata knows of keep it: for any number of
\* jobs, crashes, failed writes and erasures.
THEOREM GateKeepsTrackedHolds ==
    ASSUME OneHandler PROVE MCSpec => []GateKeepsTracked
<1>1. MCInit => Known
  BY KnownInitially
<1>2. Known /\ [MCNext]_MCvars => Known'
  BY KnownStep
<1>3. Known => GateKeepsTracked
  BY DEF Known, Erased, GateKeepsTracked, TrackedResourcesKeepTheirDocument
<1> QED
  BY <1>1, <1>2, <1>3, PTL DEF MCSpec

-------------------------------------------------------------------------------
(* Documents.  Those that are stored, and those about to replace them, mean *)
(* to Terraform what they mean after the next upgrade.                     *)

HIDE EnvironmentLifecycleAssumption DEF Stamp, Mutation, Action, Handler
USE UpgradeAssumption DEF Missing, Unset, Heap, Role

Subnet == {Missing, "public", "private"}
GroupRecord == [role : Role, subnet : Subnet, tainted : BOOLEAN]
ServiceRecord ==
    [cache : BOOLEAN, nodes : Int, replicas : Int, tls : {Missing, "off", "on"},
     rds : BOOLEAN, mode : {Missing, "self-managed", "aws-managed"}]
GroupPlans == UNION {[names -> GroupRecord] : names \in SUBSET Group}
DocumentRecord ==
    [work : Subnet, data : Subnet, nat : {Missing, "always", "when-private"},
     sched : {Missing, "off", "on"}, groups : GroupPlans, services : ServiceRecord,
     versioned : BOOLEAN, heap : Heap, efk : Int]

\* What the stored document and all that replaces it satisfy: Terraform agrees with the
\* defaults about what it lacks, and only a heap can make it invalid.
Sound(d) ==
    /\ d \in DocumentRecord
    /\ d.data = Missing => d.work \in {Missing, "public"}
    /\ DOMAIN d.groups # {}
    /\ d.sched = "on" => \A role \in {"application", "platform"} :
                            \E g \in DOMAIN d.groups : d.groups[g].role = role
    /\ d.services.cache => IF d.services.nodes = Unset THEN d.services.replicas \in 0 .. 5
                           ELSE d.services.nodes \in 1 .. 6
    /\ d.heap \in {"fits", "odd"} \/ d.efk < 2

GroupsOf(d) == Deployed(d).groups

UpgradeTypeOK ==
    /\ Sound(document)
    /\ jobs \in Seq([action : {"deploy", "destroy"}, status : {"running", "succeeded", "failed"},
                     entered : BOOLEAN])
    /\ "step" \in DOMAIN copy /\ copy.step \in {"none", "load", "save", "apply", "end"}
    /\ copy.step # "none" => Running
    /\ copy.step = "save" => Sound(copy.doc) /\ (Valid(copy.doc) \/ copy.doc.heap = "odd")
    /\ save.step \in {"none", "check", "store"}
    /\ save.step = "none" => save = NoSave
    /\ save.step = "check" => save.current \in DocumentRecord
    /\ save.step = "store" => save.free \in BOOLEAN
    /\ save.step # "none" => save.next \in DocumentRecord /\ save.next.data # Missing
    /\ edited \in BOOLEAN /\ exposed \in BOOLEAN

\* What runs was made of the stored document, or of what it has been upgraded from.
WorldIsDocument ==
    ~edited /\ world # NoWorld =>
        world = Deployed(document) /\ (copy.step = "save" => world = Deployed(copy.doc))

\* The groups that run are in the document, and in whatever is about to replace it.
GroupsAreProtected ==
    ~exposed =>
        /\ world # NoWorld => world.groups \subseteq GroupsOf(document)
        /\ copy.step = "save" => /\ GroupsOf(copy.doc) \subseteq GroupsOf(document)
                                 /\ world # NoWorld => world.groups \subseteq GroupsOf(copy.doc)
        /\ save.step = "check" => GroupsOf(document) \subseteq GroupsOf(save.current)
        /\ save.step = "store" /\ ~save.free => GroupsOf(document) \subseteq GroupsOf(save.next)

UpgradeInv == UpgradeTypeOK /\ WorldIsDocument /\ GroupsAreProtected

\* The fields of an upgraded document.
LEMMA UpgradedFields ==
    ASSUME NEW d \in DocumentRecord
    PROVE  /\ ApplyDefaults(d).work = Given(d.work, "public")
           /\ ApplyDefaults(d).data = Given(d.data, "public")
           /\ ApplyDefaults(d).nat = Given(d.nat, "when-private")
           /\ ApplyDefaults(d).sched = Given(d.sched, "off")
           /\ ApplyDefaults(d).groups = UpgradedPlacement(d).groups
           /\ ApplyDefaults(d).services = UpgradedServices(d)
           /\ ApplyDefaults(d).versioned = TRUE
           /\ ApplyDefaults(d).heap = UpgradedHeap(d)
           /\ ApplyDefaults(d).efk = 2
           /\ ApplyDefaults(d) \in
                [work : {Given(d.work, "public")}, data : {Given(d.data, "public")},
                 nat : {Given(d.nat, "when-private")}, sched : {Given(d.sched, "off")},
                 groups : {UpgradedPlacement(d).groups}, services : {UpgradedServices(d)},
                 versioned : {TRUE}, heap : {UpgradedHeap(d)}, efk : {2}]
<1>1. UpgradedPlacement(d).work = Given(d.work, "public")
  BY DEF UpgradedPlacement
<1>2. UpgradedPlacement(d).data = Given(d.data, "public")
  BY DEF UpgradedPlacement
<1>3. UpgradedPlacement(d).nat = Given(d.nat, "when-private")
  BY DEF UpgradedPlacement
<1>4. UpgradedPlacement(d).sched = Given(d.sched, "off")
  BY DEF UpgradedPlacement
<1> QED
  BY <1>1, <1>2, <1>3, <1>4 DEF ApplyDefaults, DocumentRecord

\* The node groups of an upgraded document: the same ones, in the same classes.
LEMMA PlacedGroups ==
    ASSUME NEW d \in DocumentRecord
    PROVE  /\ d.groups \in [DOMAIN d.groups -> GroupRecord] /\ DOMAIN d.groups \subseteq Group
           /\ DOMAIN UpgradedPlacement(d).groups = DOMAIN d.groups
           /\ \A g \in DOMAIN d.groups :
                 /\ UpgradedPlacement(d).groups[g].role = d.groups[g].role
                 /\ UpgradedPlacement(d).groups[g].subnet = Given(d.groups[g].subnet, LegacySubnet(d))
                 /\ UpgradedPlacement(d).groups[g] \in GroupRecord
<1>1. d.groups \in [DOMAIN d.groups -> GroupRecord] /\ DOMAIN d.groups \subseteq Group
  BY DEF DocumentRecord, GroupPlans
<1>2. UpgradedPlacement(d).groups =
        [g \in DOMAIN d.groups |-> [NormalTaint(d.groups[g])
            EXCEPT !.subnet = Given(d.groups[g].subnet, LegacySubnet(d))]]
  BY DEF UpgradedPlacement
<1>3. Given(d.work, "public") \in {"public", "private"}
  BY DEF DocumentRecord, Subnet, Given
<1>4. ASSUME NEW g \in DOMAIN d.groups
      PROVE  /\ UpgradedPlacement(d).groups[g].role = d.groups[g].role
             /\ UpgradedPlacement(d).groups[g].subnet = Given(d.groups[g].subnet, LegacySubnet(d))
             /\ UpgradedPlacement(d).groups[g] \in GroupRecord
  <2>1. d.groups[g] \in GroupRecord
    BY <1>1
  <2>2. UpgradedPlacement(d).groups[g] =
          [NormalTaint(d.groups[g]) EXCEPT !.subnet = Given(d.groups[g].subnet, LegacySubnet(d))]
    BY <1>2
  <2>3. NormalTaint(d.groups[g]) \in GroupRecord /\ NormalTaint(d.groups[g]).role = d.groups[g].role
    BY <2>1 DEF NormalTaint, GroupRecord
  <2>4. Given(d.groups[g].subnet, LegacySubnet(d)) \in Subnet
    BY <2>1, <1>3 DEF GroupRecord, Subnet, Given, LegacySubnet
  <2> QED
    BY <2>2, <2>3, <2>4 DEF GroupRecord
<1> QED
  BY <1>1, <1>2, <1>4

\* The data services of an upgraded document.
LEMMA UpgradedServicesFields ==
    ASSUME NEW d \in DocumentRecord
    PROVE  /\ UpgradedServices(d) \in ServiceRecord
           /\ UpgradedServices(d).cache = d.services.cache
           /\ UpgradedServices(d).rds = d.services.rds
           /\ UpgradedServices(d).mode =
                Given(d.services.mode, IF d.services.rds THEN "aws-managed" ELSE "self-managed")
           /\ d.services.cache => UpgradedServices(d).tls = Given(d.services.tls, "off")
           /\ d.services.nodes \in 1 .. 6 =>
                /\ UpgradedServices(d).nodes = d.services.nodes
                /\ UpgradedServices(d).replicas = d.services.nodes - 1
           /\ d.services.nodes = Unset /\ d.services.replicas \in 0 .. 5 =>
                /\ UpgradedServices(d).nodes = d.services.replicas + 1
                /\ UpgradedServices(d).replicas = d.services.replicas
           /\ UpgradedServices(d).tls # Missing /\ UpgradedServices(d).mode # Missing
<1> DEFINE s == d.services
           nodes == IF s.nodes # Unset THEN s.nodes
                    ELSE IF s.replicas = Unset THEN 2
                    ELSE IF s.replicas < 0 THEN 1 ELSE s.replicas + 1
           replicas == IF nodes >= 1 THEN nodes - 1 ELSE s.replicas
           tls == IF ~d.versioned /\ ~s.cache THEN "off" ELSE Given(s.tls, "off")
           mode == Given(s.mode, IF s.rds THEN "aws-managed" ELSE "self-managed")
<1>1. s \in ServiceRecord
  BY DEF DocumentRecord
<1>2. UpgradedServices(d) = [s EXCEPT !.nodes = nodes, !.replicas = replicas, !.tls = tls, !.mode = mode]
  BY DEF UpgradedServices
<1>3. nodes \in Int /\ replicas \in Int
  BY <1>1 DEF ServiceRecord
<1>4. tls \in {"off", "on"} /\ mode \in {"self-managed", "aws-managed"}
  BY <1>1 DEF ServiceRecord, Given
<1>5. s.cache => tls = Given(s.tls, "off")
  OBVIOUS
<1>6. s.nodes \in 1 .. 6 => nodes = s.nodes /\ replicas = s.nodes - 1
  OBVIOUS
<1>7. s.nodes = Unset /\ s.replicas \in 0 .. 5 => nodes = s.replicas + 1 /\ replicas = s.replicas
  OBVIOUS
<1> HIDE DEF nodes, replicas, tls, mode
<1>8. /\ UpgradedServices(d) \in ServiceRecord
      /\ UpgradedServices(d).cache = s.cache /\ UpgradedServices(d).rds = s.rds
      /\ UpgradedServices(d).mode = mode /\ UpgradedServices(d).tls = tls
      /\ UpgradedServices(d).nodes = nodes /\ UpgradedServices(d).replicas = replicas
  BY <1>1, <1>2, <1>3, <1>4 DEF ServiceRecord
<1> QED
  BY <1>4, <1>5, <1>6, <1>7, <1>8 DEF mode

\* An upgraded document is a document, and knows where its data is.
LEMMA UpgradedRecord ==
    ASSUME NEW d \in DocumentRecord
    PROVE  ApplyDefaults(d) \in DocumentRecord /\ ApplyDefaults(d).data # Missing
<1> DEFINE w == Given(d.work, "public")
           s == Given(d.data, "public")
           n == Given(d.nat, "when-private")
           m == Given(d.sched, "off")
           g == UpgradedPlacement(d).groups
           x == UpgradedServices(d)
           h == UpgradedHeap(d)
           u == ApplyDefaults(d)
<1>1. g \in GroupPlans
  <2>1. g \in [DOMAIN d.groups -> GroupRecord]
    BY PlacedGroups DEF UpgradedPlacement
  <2> QED
    BY <2>1, PlacedGroups DEF GroupPlans
<1>2. w \in Subnet /\ s \in Subnet /\ s # Missing
  BY DEF DocumentRecord, Subnet, Given
<1>3. n \in {Missing, "always", "when-private"} /\ m \in {Missing, "off", "on"} /\ h \in Heap
  BY DEF DocumentRecord, Given, UpgradedHeap
<1>4. x \in ServiceRecord
  BY UpgradedServicesFields
<1>5. /\ u \in [work : {w}, data : {s}, nat : {n}, sched : {m}, groups : {g}, services : {x},
                versioned : {TRUE}, heap : {h}, efk : {2}]
      /\ u.data = s
  BY UpgradedFields
<1> HIDE DEF w, s, n, m, g, x, h, u
<1>6. u = [work |-> w, data |-> s, nat |-> n, sched |-> m, groups |-> g,
           services |-> x, versioned |-> TRUE, heap |-> h, efk |-> 2]
  BY <1>5
<1>7. u \in DocumentRecord
  BY <1>1, <1>2, <1>3, <1>4, <1>6 DEF DocumentRecord
<1> QED
  BY <1>2, <1>5, <1>7 DEF u

\* An upgrade deploys what the document deployed: each default is what Terraform made of
\* the missing field.
LEMMA UpgradeAgrees ==
    ASSUME NEW d, Sound(d)
    PROVE  Deployed(ApplyDefaults(d)) = Deployed(d)
<1> DEFINE u == ApplyDefaults(d)
<1>1. d \in DocumentRecord
  BY DEF Sound
<1>2. Work(u) = Work(d)
  BY <1>1, UpgradedFields DEF Work, Given
<1>3. DataSubnet(u) = DataSubnet(d)
  BY <1>1, <1>2, UpgradedFields DEF DataSubnet, Work, Given, Sound
<1>4. Gateway(u) = Gateway(d)
  <2>1. u.nat = Given(d.nat, "when-private")
    BY <1>1, UpgradedFields
  <2> HIDE DEF u
  <2> QED
    BY <2>1, <1>2, <1>3 DEF Gateway, Given
<1>5. {[name |-> g, plan |-> Placed(u, u.groups[g])] : g \in DOMAIN u.groups}
        = {[name |-> g, plan |-> Placed(d, d.groups[g])] : g \in DOMAIN d.groups}
  <2>1. DOMAIN u.groups = DOMAIN d.groups
    BY <1>1, UpgradedFields, PlacedGroups
  <2>2. ASSUME NEW g \in DOMAIN d.groups
        PROVE  Placed(u, u.groups[g]) = Placed(d, d.groups[g])
    <3>0. u.groups = UpgradedPlacement(d).groups
      BY <1>1, UpgradedFields
    <3>1. u.groups[g].role = d.groups[g].role
      BY <1>1, <3>0, PlacedGroups
    <3>2. u.groups[g].subnet = Given(d.groups[g].subnet, Work(d))
      BY <1>1, <3>0, PlacedGroups DEF LegacySubnet, Work
    <3>3. Given(u.groups[g].subnet, Work(d)) = Given(d.groups[g].subnet, Work(d))
      BY <3>2 DEF Given
    <3> HIDE DEF u
    <3> QED
      BY <3>1, <3>3, <1>2 DEF Placed
  <2> HIDE DEF u
  <2> QED
    BY <2>1, <2>2
<1>6. Given(u.sched, "off") = Given(d.sched, "off")
  BY <1>1, UpgradedFields DEF Given
<1>7. u.services.cache = d.services.cache /\ u.services.rds = d.services.rds
  BY <1>1, UpgradedFields, UpgradedServicesFields
<1>8. d.services.cache =>
        <<IF u.services.nodes # Unset THEN u.services.nodes ELSE u.services.replicas + 1,
          Given(u.services.tls, "off")>>
        = <<IF d.services.nodes # Unset THEN d.services.nodes ELSE d.services.replicas + 1,
            Given(d.services.tls, "off")>>
  <2> HAVE d.services.cache
  <2>1. u.services.tls = Given(d.services.tls, "off")
    BY <1>1, UpgradedFields, UpgradedServicesFields
  <2>2. Given(u.services.tls, "off") = Given(d.services.tls, "off")
    BY <2>1 DEF Given
  <2>3. CASE d.services.nodes = Unset
    BY <2>2, <2>3, <1>1, UpgradedFields, UpgradedServicesFields, ZenonT(60) DEF Sound
  <2>4. CASE d.services.nodes # Unset
    <3>1. d.services.nodes \in 1 .. 6
      BY <2>4 DEF Sound
    <3>2. u.services.nodes = d.services.nodes
      BY <3>1, <1>1, UpgradedFields, UpgradedServicesFields
    <3> QED
      BY <2>2, <2>4, <3>2
  <2> QED
    BY <2>3, <2>4
<1>9. d.services.rds => Given(u.services.mode, "aws-managed") = Given(d.services.mode, "aws-managed")
  BY <1>1, UpgradedFields, UpgradedServicesFields DEF Given
<1> HIDE DEF u
<1> QED
  BY <1>3, <1>4, <1>5, <1>6, <1>7, <1>8, <1>9 DEF Deployed, u

\* An upgraded document is valid unless its heap cannot be parsed.
LEMMA UpgradeIsSound ==
    ASSUME NEW d, Sound(d)
    PROVE  Sound(ApplyDefaults(d)) /\ (Valid(ApplyDefaults(d)) \/ ApplyDefaults(d).heap = "odd")
<1> DEFINE u == ApplyDefaults(d)
<1>1. d \in DocumentRecord
  BY DEF Sound
<1>2. u \in DocumentRecord /\ u.data # Missing
  BY <1>1, UpgradedRecord
<1>3. DOMAIN u.groups # {}
  BY <1>1, UpgradedFields, PlacedGroups DEF Sound
<1>4. u.sched = "on" => \A role \in {"application", "platform"} :
                            \E g \in DOMAIN u.groups : u.groups[g].role = role
  <2>1. u.sched = "on" => d.sched = "on"
    BY <1>1, UpgradedFields DEF Given
  <2>2. DOMAIN u.groups = DOMAIN d.groups /\ \A g \in DOMAIN d.groups : u.groups[g].role = d.groups[g].role
    <3>1. u.groups = UpgradedPlacement(d).groups
      BY <1>1, UpgradedFields
    <3> QED
      BY <1>1, <3>1, PlacedGroups
  <2> HIDE DEF u
  <2> QED
    BY <2>1, <2>2 DEF Sound
<1>5. u.services.cache => /\ u.services.nodes \in 1 .. 6
                          /\ u.services.replicas = u.services.nodes - 1
  <2> SUFFICES ASSUME u.services.cache
               PROVE  u.services.nodes \in 1 .. 6 /\ u.services.replicas = u.services.nodes - 1
    OBVIOUS
  <2>1. d.services.cache
    BY <1>1, UpgradedFields, UpgradedServicesFields
  <2>2. d.services.nodes \in 1 .. 6 \/ (d.services.nodes = Unset /\ d.services.replicas \in 0 .. 5)
    BY <2>1 DEF Sound
  <2>3. u.services = UpgradedServices(d)
    BY <1>1, UpgradedFields
  <2>4. CASE d.services.nodes \in 1 .. 6
    BY <2>3, <2>4, <1>1, UpgradedServicesFields
  <2>5. CASE d.services.nodes = Unset /\ d.services.replicas \in 0 .. 5
    <3>1. u.services.nodes = d.services.replicas + 1 /\ u.services.replicas = d.services.replicas
      BY <2>3, <2>5, <1>1, UpgradedServicesFields
    <3> QED
      BY <3>1, <2>5
  <2> QED
    BY <2>2, <2>4, <2>5
<1>6. u.services.rds => u.services.mode \in {"self-managed", "aws-managed"}
  <2>1. u.services \in ServiceRecord /\ u.services.mode # Missing
    BY <1>1, UpgradedFields, UpgradedServicesFields
  <2> QED
    BY <2>1 DEF ServiceRecord
<1>7. u.heap \in {"fits", "odd"}
  BY <1>1, UpgradedFields DEF UpgradedHeap, Sound, DocumentRecord
<1> HIDE DEF u
<1>8. Sound(u)
  BY <1>2, <1>3, <1>4, <1>5, <1>7 DEF Sound
<1>9. Valid(u) \/ u.heap = "odd"
  BY <1>3, <1>4, <1>5, <1>6, <1>7 DEF Valid
<1> QED
  BY <1>8, <1>9 DEF u

\* ApplyDefaults runs at every load and at every save: a document that it has brought up to
\* date it leaves alone, whatever the document was before.
THEOREM UpgradeIsIdempotent ==
    ASSUME NEW d \in DocumentRecord
    PROVE  ApplyDefaults(ApplyDefaults(d)) = ApplyDefaults(d)
<1> DEFINE u == ApplyDefaults(d)
           v == ApplyDefaults(u)
<1>1. u \in DocumentRecord
  BY UpgradedRecord
<1>2. /\ v.work = u.work /\ v.data = u.data /\ v.nat = u.nat /\ v.sched = u.sched
      /\ v.versioned = u.versioned /\ v.efk = u.efk
  BY <1>1, UpgradedFields DEF Given
<1>3. v.heap = u.heap
  <2>1. v.heap = UpgradedHeap(u) /\ u.efk = 2
    BY <1>1, UpgradedFields
  <2> HIDE DEF u, v
  <2> QED BY <2>1 DEF UpgradedHeap
<1>4. v.groups = u.groups
  <2>1. u.groups = UpgradedPlacement(d).groups /\ v.groups = UpgradedPlacement(u).groups
    BY <1>1, UpgradedFields
  <2>2. /\ DOMAIN v.groups = DOMAIN u.groups /\ u.groups \in [DOMAIN u.groups -> GroupRecord]
        /\ DOMAIN u.groups = DOMAIN d.groups /\ d.groups \in [DOMAIN d.groups -> GroupRecord]
    BY <1>1, <2>1, PlacedGroups
  <2>3. /\ v.groups = [g \in DOMAIN u.groups |-> [NormalTaint(u.groups[g])
                         EXCEPT !.subnet = Given(u.groups[g].subnet, LegacySubnet(u))]]
        /\ u.groups = [g \in DOMAIN d.groups |-> [NormalTaint(d.groups[g])
                         EXCEPT !.subnet = Given(d.groups[g].subnet, LegacySubnet(d))]]
    <3>1. /\ UpgradedPlacement(u).groups = [g \in DOMAIN u.groups |-> [NormalTaint(u.groups[g])
                         EXCEPT !.subnet = Given(u.groups[g].subnet, LegacySubnet(u))]]
          /\ UpgradedPlacement(d).groups = [g \in DOMAIN d.groups |-> [NormalTaint(d.groups[g])
                         EXCEPT !.subnet = Given(d.groups[g].subnet, LegacySubnet(d))]]
      BY DEF UpgradedPlacement
    <3> HIDE DEF u, v
    <3> QED BY <2>1, <3>1
  <2>4. ASSUME NEW g \in DOMAIN u.groups PROVE v.groups[g] = u.groups[g]
    <3> DEFINE x == d.groups[g]
               y == u.groups[g]
               w == Given(x.subnet, LegacySubnet(d))
    <3>1. x \in GroupRecord /\ y \in GroupRecord
      BY <2>2, <2>4
    <3>2. w # Missing
      <4>1. LegacySubnet(d) # Missing
        BY DEF LegacySubnet, Given
      <4> QED BY <4>1 DEF Given
    <3>3. y = [NormalTaint(x) EXCEPT !.subnet = w]
      BY <2>2, <2>3, <2>4
    <3>4. v.groups[g] = [NormalTaint(y) EXCEPT !.subnet = Given(y.subnet, LegacySubnet(u))]
      BY <2>3, <2>4
    <3> HIDE DEF u, v, x, y, w
    <3>5. y.role = x.role /\ y.subnet = w /\ y.tainted = (x.role = "application")
      BY <3>1, <3>3 DEF NormalTaint, GroupRecord
    <3>6. Given(y.subnet, LegacySubnet(u)) = y.subnet
      BY <3>2, <3>5 DEF Given
    <3>7. y.tainted = (y.role = "application")
      BY <3>5
    <3>8. NormalTaint(y) = y
      BY <3>1, <3>7 DEF NormalTaint, GroupRecord
    <3>9. [y EXCEPT !.subnet = y.subnet] = y
      BY <3>1 DEF GroupRecord
    <3>10. v.groups[g] = y
      BY <3>4, <3>6, <3>8, <3>9
    <3> QED BY <3>10 DEF y
  <2> HIDE DEF u, v
  <2>5. v.groups = [g \in DOMAIN u.groups |-> v.groups[g]] /\ u.groups = [g \in DOMAIN u.groups |-> u.groups[g]]
    BY <2>2, <2>3
  <2> QED BY <2>4, <2>5
<1>5. v.services = u.services
  <2>1. u.services = UpgradedServices(d) /\ v.services = UpgradedServices(u) /\ u.versioned
    BY <1>1, UpgradedFields
  <2> DEFINE s == d.services
             t == u.services
  <2>2. s \in ServiceRecord /\ t \in ServiceRecord
    BY <1>1 DEF DocumentRecord
  <2>3. t.tls # Missing /\ t.mode # Missing
    BY <2>1, UpgradedServicesFields
  <2>4. t.nodes # Unset \/ s.nodes = Unset
    <3>1. s.nodes # Unset => t.nodes = s.nodes
      BY <2>1, <2>2 DEF UpgradedServices, ServiceRecord
    <3> QED BY <3>1
  <2>5. t.nodes # Unset /\ (t.nodes >= 1 => t.replicas = t.nodes - 1)
    BY <2>1, <2>2 DEF UpgradedServices, ServiceRecord
  <2> HIDE DEF u, v, s
  <2>6. v.services = [t EXCEPT !.nodes = t.nodes,
                               !.replicas = IF t.nodes >= 1 THEN t.nodes - 1 ELSE t.replicas,
                               !.tls = t.tls, !.mode = t.mode]
    BY <2>1, <2>3, <2>5 DEF UpgradedServices, Given
  <2>7. (IF t.nodes >= 1 THEN t.nodes - 1 ELSE t.replicas) = t.replicas
    BY <2>5
  <2>8. [t EXCEPT !.nodes = t.nodes, !.replicas = t.replicas, !.tls = t.tls, !.mode = t.mode] = t
    BY <2>2 DEF ServiceRecord
  <2> QED BY <2>6, <2>7, <2>8
<1>6. v \in DocumentRecord
  BY <1>1, UpgradedRecord
<1> HIDE DEF u, v
<1> QED BY <1>1, <1>2, <1>3, <1>4, <1>5, <1>6 DEF DocumentRecord, u, v

\* A save that passes the comparison of the plans, and does not move the network, deploys
\* every group where it was.
LEMMA GroupsKept ==
    ASSUME NEW current, NEW next, SamePlan(current, next), ~Moves(current, next)
    PROVE  GroupsOf(current) \subseteq GroupsOf(next)
<1>1. /\ GroupsOf(current) =
           {[name |-> g, plan |-> Placed(current, current.groups[g])] : g \in DOMAIN current.groups}
      /\ GroupsOf(next) =
           {[name |-> g, plan |-> Placed(next, next.groups[g])] : g \in DOMAIN next.groups}
  BY DEF GroupsOf, Deployed
<1>2. ASSUME NEW g \in DOMAIN current.groups
      PROVE  /\ g \in DOMAIN next.groups
             /\ Placed(current, current.groups[g]) = Placed(next, next.groups[g])
  <2>1. g \in DOMAIN next.groups /\ next.groups[g] = current.groups[g]
    BY DEF SamePlan
  <2>2. Placed(current, current.groups[g]).subnet = Placed(next, next.groups[g]).subnet
    BY <2>1 DEF Moves
  <2> QED
    BY <2>1, <2>2 DEF Placed
<1> QED
  BY <1>1, <1>2

\* What the form changes of a document is a document.
LEMMA EditsAreRecords ==
    ASSUME NEW d \in DocumentRecord, d.data # Missing, NEW form \in Edits(d)
    PROVE  form \in DocumentRecord /\ form.data # Missing
<1>1. d.groups \in [DOMAIN d.groups -> GroupRecord] /\ DOMAIN d.groups \subseteq Group
  BY DEF DocumentRecord, GroupPlans
<1>2. ASSUME NEW groups \in GroupPlans, form = [d EXCEPT !.groups = groups]
      PROVE  form \in DocumentRecord /\ form.data # Missing
  BY <1>2 DEF DocumentRecord
<1>3. ASSUME NEW g \in DOMAIN d.groups, form = [d EXCEPT !.groups = [x \in DOMAIN @ \ {g} |-> @[x]]]
      PROVE  form \in DocumentRecord /\ form.data # Missing
  <2> DEFINE rest == [x \in DOMAIN d.groups \ {g} |-> d.groups[x]]
  <2>1. rest \in GroupPlans
    <3>1. rest \in [DOMAIN d.groups \ {g} -> GroupRecord]
      BY <1>1
    <3> QED
      BY <3>1, <1>1 DEF GroupPlans
  <2>2. form = [d EXCEPT !.groups = rest]
    BY <1>3
  <2> QED
    BY <2>1, <2>2, <1>2
<1>4. ASSUME NEW g \in Group \ DOMAIN d.groups,
             form = [d EXCEPT !.groups = [x \in DOMAIN @ \cup {g} |->
                        IF x \in DOMAIN @ THEN @[x] ELSE Plan("general", "private", FALSE)]]
      PROVE  form \in DocumentRecord /\ form.data # Missing
  <2> DEFINE more == [x \in DOMAIN d.groups \cup {g} |->
                        IF x \in DOMAIN d.groups THEN d.groups[x] ELSE Plan("general", "private", FALSE)]
  <2>1. more \in GroupPlans
    <3>1. Plan("general", "private", FALSE) \in GroupRecord
      BY DEF Plan, GroupRecord, Subnet
    <3>2. more \in [DOMAIN d.groups \cup {g} -> GroupRecord]
      BY <1>1, <3>1
    <3> QED
      BY <3>2, <1>1, ZenonT(60) DEF GroupPlans
  <2>2. form = [d EXCEPT !.groups = more]
    BY <1>4
  <2> QED
    BY <2>1, <2>2, <1>2
<1>5. ASSUME NEW g \in DOMAIN d.groups, form = [d EXCEPT !.groups[g].subnet = "private"]
      PROVE  form \in DocumentRecord /\ form.data # Missing
  <2> DEFINE moved == [d.groups EXCEPT ![g] = [d.groups[g] EXCEPT !.subnet = "private"]]
  <2>1. moved \in GroupPlans
    <3>1. [d.groups[g] EXCEPT !.subnet = "private"] \in GroupRecord
      BY <1>1 DEF GroupRecord, Subnet
    <3>2. moved \in [DOMAIN d.groups -> GroupRecord]
      BY <1>1, <3>1
    <3> QED
      BY <3>2, <1>1 DEF GroupPlans
  <2>2. form = [d EXCEPT !.groups = moved]
    BY <1>5
  <2> QED
    BY <2>1, <2>2, <1>2
<1>6. CASE form = [d EXCEPT !.work = "private"]
  BY <1>6 DEF DocumentRecord, Subnet
<1>7. CASE form = [d EXCEPT !.sched = "on"]
  BY <1>7 DEF DocumentRecord
<1>8. CASE form = [d EXCEPT !.services.cache = TRUE, !.services.rds = TRUE]
  <2> DEFINE s == [d.services EXCEPT !.cache = TRUE, !.rds = TRUE]
  <2>1. s \in ServiceRecord
    BY DEF DocumentRecord, ServiceRecord
  <2>2. form = [d EXCEPT !.services = s]
    BY <1>8 DEF DocumentRecord, ServiceRecord
  <2> HIDE DEF s
  <2> QED
    BY <2>1, <2>2 DEF DocumentRecord
<1>9. CASE form = [d EXCEPT !.heap = "large"]
  BY <1>9 DEF DocumentRecord
<1> QED
  BY <1>3, <1>4, <1>5, <1>6, <1>7, <1>8, <1>9 DEF Edits

\* A document that passes the validation is sound.
LEMMA ValidIsSound ==
    ASSUME NEW d \in DocumentRecord, d.data # Missing, Valid(d)
    PROVE  Sound(d)
BY DEF Sound, Valid

\* So are the documents of older releases.
LEMMA OldIsSound ==
    ASSUME NEW d \in OldPlacements \cup OldServices
    PROVE  Sound(d)
<1>1. ASSUME NEW groups \in OldGroups, NEW nat \in {Missing, "always"},
             NEW net \in {<<Missing, Missing>>, <<"public", "private">>, <<"private", "public">>},
             d = Old(net, nat, groups, NewServices, 2, "fits")
      PROVE  Sound(d)
  <2>1. groups \in GroupPlans /\ DOMAIN groups # {}
    <3>1. PICK names \in (SUBSET Group) \ {{}} :
             groups \in {[g \in names |-> Plan(Class[g], subnet[g], FALSE)] :
                            subnet \in [names -> {Missing, "public", "private"}]}
      BY DEF OldGroups
    <3>2. PICK subnet \in [names -> Subnet] : groups = [g \in names |-> Plan(Class[g], subnet[g], FALSE)]
      BY <3>1 DEF Subnet
    <3>3. \A g \in names : Plan(Class[g], subnet[g], FALSE) \in GroupRecord
      BY <3>2 DEF Plan, GroupRecord
    <3>4. groups \in [names -> GroupRecord]
      BY <3>2, <3>3
    <3>5. names \subseteq Group /\ names # {}
      OBVIOUS
    <3>6. DOMAIN groups = names
      BY <3>4
    <3> QED
      BY <3>4, <3>5, <3>6 DEF GroupPlans
  <2>2. NewServices \in ServiceRecord /\ NewServices.cache = FALSE
    BY DEF NewServices, Services, ServiceRecord
  <2>3. net[1] \in Subnet /\ net[2] \in Subnet /\ (net[2] = Missing => net[1] = Missing)
    BY DEF Subnet
  <2> QED
    BY <1>1, <2>1, <2>2, <2>3 DEF Sound, Old, DocumentRecord
<1>2. ASSUME NEW on \in BOOLEAN, NEW replicas \in {0, 2}, NEW tls \in {Missing, "on"},
             NEW mode \in {Missing, "aws-managed"}, NEW heap \in Heap,
             d = Old(<<Missing, Missing>>, Missing, OneClass,
                     Services(on, Unset, replicas, tls, mode), 0, heap)
      PROVE  Sound(d)
  <2> DEFINE services == Services(on, Unset, replicas, tls, mode)
  <2>1. OneClass \in GroupPlans /\ DOMAIN OneClass # {}
    <3>1. OneClass \in [Group -> GroupRecord]
      BY DEF OneClass, Plan, GroupRecord, Subnet
    <3> QED
      BY <3>1 DEF GroupPlans
  <2>2. /\ services \in ServiceRecord
        /\ services.nodes = Unset /\ services.replicas \in 0 .. 5
    BY DEF Services, ServiceRecord
  <2>3. Missing \in Subnet
    BY DEF Subnet
  <2> HIDE DEF services
  <2>4. d = Old(<<Missing, Missing>>, Missing, OneClass, services, 0, heap)
    BY <1>2 DEF services
  <2> QED
    BY <2>1, <2>2, <2>3, <2>4 DEF Sound, Old, DocumentRecord
<1>3. CASE d \in OldPlacements
  BY <1>1, <1>3 DEF OldPlacements
<1>4. CASE d \in OldServices
  <2>1. PICK on \in BOOLEAN, replicas \in {0, 2}, tls \in {Missing, "on"},
             mode \in {Missing, "aws-managed"}, heap \in Heap :
               d = Old(<<Missing, Missing>>, Missing, OneClass,
                       Services(on, Unset, replicas, tls, mode), 0, heap)
    BY <1>4 DEF OldServices
  <2> QED
    BY <2>1, <1>2
<1> QED
  BY <1>3, <1>4

\* What runs at the start was deployed from the stored document.
LEMMA UpgradeInitInv ==
    UpgradeInit => UpgradeInv
<1> SUFFICES ASSUME UpgradeInit
             PROVE  UpgradeInv
  OBVIOUS
<1>1. Sound(document)
  BY OldIsSound DEF UpgradeInit
<1>2. jobs \in Seq([action : {"deploy", "destroy"}, status : {"running", "succeeded", "failed"},
                    entered : BOOLEAN])
  <2>1. jobs = <<>> \/ jobs = <<Entry("deploy", "succeeded", TRUE)>>
    BY DEF UpgradeInit
  <2>2. Entry("deploy", "succeeded", TRUE) \in
          [action : {"deploy", "destroy"}, status : {"running", "succeeded", "failed"}, entered : BOOLEAN]
    BY DEF Entry
  <2> DEFINE J == [action : {"deploy", "destroy"}, status : {"running", "succeeded", "failed"},
                   entered : BOOLEAN]
             e == Entry("deploy", "succeeded", TRUE)
  <2> HIDE DEF J, e
  <2>3. <<>> \in Seq(J) /\ <<e>> \in Seq(J)
    <3>1. e \in J
      BY <2>2 DEF J, e
    <3> QED
      BY <3>1
  <2> QED
    BY <2>1, <2>3 DEF J, e
<1>3. world # NoWorld => world = Deployed(document)
  BY DEF UpgradeInit
<1>4. copy.step = "none" /\ "step" \in DOMAIN copy /\ save.step = "none" /\ save = NoSave
  BY DEF UpgradeInit, NoCopy, NoSave
<1>5. edited = FALSE /\ exposed = FALSE
  BY DEF UpgradeInit
<1> QED
  BY <1>1, <1>2, <1>3, <1>4, <1>5
     DEF UpgradeInv, UpgradeTypeOK, WorldIsDocument, GroupsAreProtected, GroupsOf

\* A save reads the groups that the stored document has.
LEMMA LoadSaveInv ==
    UpgradeInv /\ LoadSave => UpgradeInv'
<1> SUFFICES ASSUME UpgradeInv, LoadSave
             PROVE  UpgradeInv'
  OBVIOUS
<1> DEFINE now == ApplyDefaults(document)
<1>1. document \in DocumentRecord /\ Sound(document)
  BY DEF UpgradeInv, UpgradeTypeOK, Sound
<1>2. now \in DocumentRecord /\ now.data # Missing
  BY <1>1, UpgradedRecord
<1>3. GroupsOf(now) = GroupsOf(document)
  BY <1>1, UpgradeAgrees DEF GroupsOf
<1>4. PICK form \in Edits(now) :
         save' = [step |-> "check", current |-> now, next |-> ApplyDefaults(form)]
  BY DEF LoadSave
<1>5. form \in DocumentRecord
  BY <1>2, EditsAreRecords
<1>6. ApplyDefaults(form) \in DocumentRecord /\ ApplyDefaults(form).data # Missing
  BY <1>5, UpgradedRecord
<1>7. UNCHANGED <<document, world, jobs, copy, edited, exposed>>
  BY DEF LoadSave
<1> HIDE DEF now
<1>8. UpgradeTypeOK'
  BY <1>2, <1>4, <1>6, <1>7 DEF UpgradeInv, UpgradeTypeOK, Running
<1>9. WorldIsDocument'
  BY <1>7 DEF UpgradeInv, WorldIsDocument
<1>10. GroupsAreProtected'
  BY <1>3, <1>4, <1>7 DEF UpgradeInv, GroupsAreProtected
<1> QED
  BY <1>8, <1>9, <1>10 DEF UpgradeInv

\* A save that is not refused keeps them, or is free to move them.
LEMMA CheckPlanInv ==
    UpgradeInv /\ CheckPlan => UpgradeInv'
<1> SUFFICES ASSUME UpgradeInv, CheckPlan
             PROVE  UpgradeInv'
  OBVIOUS
<1>1. UNCHANGED <<document, world, jobs, copy, edited, exposed>> /\ save.step = "check"
  BY DEF CheckPlan
<1>2. WorldIsDocument'
  BY <1>1 DEF UpgradeInv, WorldIsDocument
<1>3. CASE PhaseOne(jobs) /\ ~SamePlan(save.current, save.next)
  <2>1. save' = NoSave
    BY <1>3 DEF CheckPlan
  <2> QED
    BY <1>1, <1>2, <2>1 DEF UpgradeInv, UpgradeTypeOK, GroupsAreProtected, NoSave, Running
<1>4. CASE ~(PhaseOne(jobs) /\ ~SamePlan(save.current, save.next))
  <2> DEFINE free == ~PhaseOne(jobs) \/ Moves(save.current, save.next)
  <2>1. save' = [step |-> "store", next |-> save.next, free |-> free]
    BY <1>4 DEF CheckPlan
  <2>2. free \in BOOLEAN
    OBVIOUS
  <2>3. ~free => GroupsOf(save.current) \subseteq GroupsOf(save.next)
    BY <1>4, GroupsKept
  <2> HIDE DEF free
  <2>4. UpgradeTypeOK'
    BY <1>1, <2>1, <2>2 DEF UpgradeInv, UpgradeTypeOK, Running
  <2>5. GroupsAreProtected'
    BY <1>1, <2>1, <2>3 DEF UpgradeInv, GroupsAreProtected
  <2> QED
    BY <1>2, <2>4, <2>5 DEF UpgradeInv
<1> QED
  BY <1>3, <1>4

\* A stored document has the groups that run, or they are exposed.
LEMMA StoreSaveInv ==
    UpgradeInv /\ StoreSave => UpgradeInv'
<1> SUFFICES ASSUME UpgradeInv, StoreSave
             PROVE  UpgradeInv'
  OBVIOUS
<1>1. UNCHANGED <<world, jobs, copy>> /\ save.step = "store" /\ save' = NoSave
  BY DEF StoreSave
<1>2. save'.step = "none"
  BY <1>1 DEF NoSave
<1>3. CASE Valid(save.next)
  <2>1. document' = save.next /\ edited' = TRUE
    BY <1>3 DEF StoreSave
  <2>2. exposed' = (exposed \/ (save.free /\ (world # NoWorld \/ Running)))
    BY <1>3 DEF StoreSave
  <2>3. Sound(save.next)
    BY <1>1, <1>3, ValidIsSound DEF UpgradeInv, UpgradeTypeOK
  <2>4. exposed' \in BOOLEAN
    BY <2>2
  <2>5. UpgradeTypeOK'
    BY <1>1, <1>2, <2>1, <2>3, <2>4 DEF UpgradeInv, UpgradeTypeOK, Running
  <2>6. WorldIsDocument'
    BY <2>1 DEF WorldIsDocument
  <2>7. GroupsAreProtected'
    <3>1. CASE save.free /\ (world # NoWorld \/ Running)
      BY <2>2, <3>1 DEF GroupsAreProtected
    <3>2. CASE save.free /\ world = NoWorld /\ ~Running
      <4>1. copy.step = "none"
        BY <3>2 DEF UpgradeInv, UpgradeTypeOK
      <4> QED
        BY <1>1, <1>2, <3>2, <4>1 DEF GroupsAreProtected
    <3>3. CASE ~save.free
      <4>1. ~exposed' => ~exposed
        BY <2>2
      <4> QED
        BY <1>1, <1>2, <2>1, <3>3, <4>1 DEF UpgradeInv, GroupsAreProtected
    <3> QED
      BY <3>1, <3>2, <3>3
  <2> QED
    BY <2>5, <2>6, <2>7 DEF UpgradeInv
<1>4. CASE ~Valid(save.next)
  <2>1. UNCHANGED <<document, edited, exposed>>
    BY <1>4 DEF StoreSave
  <2> QED
    BY <1>1, <1>2, <2>1 DEF UpgradeInv, UpgradeTypeOK, WorldIsDocument, GroupsAreProtected, Running
<1> QED
  BY <1>3, <1>4

\* The end of a job leaves a history of the same shape.
LEMMA EndedJobs ==
    ASSUME NEW status \in {"succeeded", "failed"}, UpgradeInv, Running, EndJob(status)
    PROVE  /\ jobs' \in Seq([action : {"deploy", "destroy"}, status : {"running", "succeeded", "failed"},
                             entered : BOOLEAN])
           /\ copy'.step = "none" /\ "step" \in DOMAIN copy'
<1> DEFINE J == [action : {"deploy", "destroy"}, status : {"running", "succeeded", "failed"},
                 entered : BOOLEAN]
<1>1. jobs \in Seq(J) /\ jobs # <<>>
  BY DEF UpgradeInv, UpgradeTypeOK, Running
<1>2. jobs[1] \in J /\ 1 \in DOMAIN jobs
  <2> HIDE DEF J
  <2> QED
    BY <1>1, EmptySeq
<1>3. [jobs[1] EXCEPT !.status = status] \in J
  BY <1>2
<1>4. jobs' = [jobs EXCEPT ![1] = [jobs[1] EXCEPT !.status = status]]
  BY DEF EndJob
<1> HIDE DEF J
<1>5. jobs' \in Seq(J)
  BY <1>1, <1>3, <1>4
<1> QED
  BY <1>5 DEF J, EndJob, NoCopy

\* A new job is the first of the history and has no copy yet.
LEMMA StartJobInv ==
    UpgradeInv /\ StartJob => UpgradeInv'
<1> SUFFICES ASSUME UpgradeInv, StartJob
             PROVE  UpgradeInv'
  OBVIOUS
<1> DEFINE J == [action : {"deploy", "destroy"}, status : {"running", "succeeded", "failed"},
                 entered : BOOLEAN]
<1>1. /\ UNCHANGED <<document, world, save, edited, exposed>>
      /\ copy' = [step |-> "load"]
  BY DEF StartJob
<1>2. copy'.step = "load" /\ "step" \in DOMAIN copy'
  BY <1>1
<1>3. PICK action \in {"deploy", "destroy"} : jobs' = <<Entry(action, "running", FALSE)>> \o jobs
  BY DEF StartJob
<1>4. Entry(action, "running", FALSE) \in J /\ Entry(action, "running", FALSE).status = "running"
  BY DEF Entry
<1>5. jobs \in Seq(J)
  BY DEF UpgradeInv, UpgradeTypeOK
<1> DEFINE e == Entry(action, "running", FALSE)
<1> HIDE DEF J, e
<1>6. jobs' = <<e>> \o jobs /\ e \in J /\ e.status = "running"
  BY <1>3, <1>4 DEF e
<1>7. jobs' \in Seq(J) /\ Len(jobs') = Len(jobs) + 1 /\ jobs'[1] = e
  BY <1>5, <1>6
<1>8. Running'
  BY <1>5, <1>6, <1>7 DEF Running
<1>9. UpgradeTypeOK'
  BY <1>1, <1>2, <1>7, <1>8 DEF UpgradeInv, UpgradeTypeOK, J
<1> QED
  BY <1>1, <1>2, <1>9 DEF UpgradeInv, WorldIsDocument, GroupsAreProtected

\* A job upgrades the document it loads.
LEMMA LoadJobInv ==
    UpgradeInv /\ LoadJob => UpgradeInv'
<1> SUFFICES ASSUME UpgradeInv, LoadJob
             PROVE  UpgradeInv'
  OBVIOUS
<1> DEFINE now == ApplyDefaults(document)
<1>1. /\ UNCHANGED <<document, world, jobs, save, edited, exposed>>
      /\ copy.step = "load" /\ copy' = [step |-> "save", doc |-> now]
  BY DEF LoadJob
<1>2. Sound(document)
  BY DEF UpgradeInv, UpgradeTypeOK
<1>3. Sound(now) /\ (Valid(now) \/ now.heap = "odd")
  BY <1>2, UpgradeIsSound
<1>4. Deployed(now) = Deployed(document)
  BY <1>2, UpgradeAgrees
<1> HIDE DEF now
<1>5. copy'.step = "save" /\ copy'.doc = now /\ "step" \in DOMAIN copy'
  BY <1>1
<1>6. UpgradeTypeOK'
  BY <1>1, <1>3, <1>5 DEF UpgradeInv, UpgradeTypeOK, Running
<1>7. WorldIsDocument'
  BY <1>1, <1>4, <1>5 DEF UpgradeInv, WorldIsDocument
<1>8. GroupsAreProtected'
  BY <1>1, <1>4, <1>5 DEF UpgradeInv, GroupsAreProtected, GroupsOf
<1> QED
  BY <1>6, <1>7, <1>8 DEF UpgradeInv

\* A job stores its copy, which has no other groups than the document it replaces.
LEMMA SaveJobInv ==
    UpgradeInv /\ SaveJob => UpgradeInv'
<1> SUFFICES ASSUME UpgradeInv, SaveJob
             PROVE  UpgradeInv'
  OBVIOUS
<1>1. UNCHANGED <<world, save, edited, exposed>> /\ copy.step = "save"
  BY DEF SaveJob
<1>2. CASE Valid(copy.doc)
  <2>1. document' = copy.doc /\ copy' = [copy EXCEPT !.step = "apply"] /\ UNCHANGED jobs
    BY <1>2 DEF SaveJob
  <2>2. copy'.step = "apply" /\ "step" \in DOMAIN copy'
    BY <2>1 DEF UpgradeInv, UpgradeTypeOK
  <2>3. UpgradeTypeOK'
    BY <1>1, <2>1, <2>2 DEF UpgradeInv, UpgradeTypeOK, Running
  <2>4. WorldIsDocument'
    BY <1>1, <2>1, <2>2 DEF UpgradeInv, WorldIsDocument
  <2>5. GroupsAreProtected'
    BY <1>1, <2>1, <2>2 DEF UpgradeInv, GroupsAreProtected
  <2> QED
    BY <2>3, <2>4, <2>5 DEF UpgradeInv
<1>3. CASE ~Valid(copy.doc)
  <2>1. EndJob("failed") /\ UNCHANGED document
    BY <1>3 DEF SaveJob
  <2>2. Running
    BY <1>1 DEF UpgradeInv, UpgradeTypeOK
  <2>3. /\ jobs' \in Seq([action : {"deploy", "destroy"}, status : {"running", "succeeded", "failed"},
                          entered : BOOLEAN])
        /\ copy'.step = "none" /\ "step" \in DOMAIN copy'
    BY <2>1, <2>2, EndedJobs
  <2> QED
    BY <1>1, <2>1, <2>3 DEF UpgradeInv, UpgradeTypeOK, WorldIsDocument, GroupsAreProtected
<1> QED
  BY <1>2, <1>3

\* After an apply the document is what runs.
LEMMA ApplyJobInv ==
    UpgradeInv /\ ApplyJob => UpgradeInv'
<1> SUFFICES ASSUME UpgradeInv, ApplyJob
             PROVE  UpgradeInv'
  OBVIOUS
<1> DEFINE J == [action : {"deploy", "destroy"}, status : {"running", "succeeded", "failed"},
                 entered : BOOLEAN]
<1>1. /\ UNCHANGED <<document, save>> /\ copy.step = "apply" /\ edited' = FALSE
      /\ jobs' = [jobs EXCEPT ![1].entered = TRUE]
      /\ copy' = [copy EXCEPT !.step = "end"]
      /\ world' = IF jobs[1].action = "deploy" THEN Deployed(document) ELSE NoWorld
      /\ exposed' = IF world' = NoWorld /\ save = NoSave THEN FALSE ELSE exposed
  BY DEF ApplyJob
<1>2. copy'.step = "end" /\ "step" \in DOMAIN copy'
  BY <1>1 DEF UpgradeInv, UpgradeTypeOK
<1>3. Running
  BY <1>1 DEF UpgradeInv, UpgradeTypeOK
<1>4. jobs' \in Seq(J) /\ Running'
  <2>1. jobs \in Seq(J) /\ jobs # <<>> /\ jobs[1].status = "running"
    BY <1>3 DEF UpgradeInv, UpgradeTypeOK, Running
  <2>2. jobs[1] \in J /\ 1 \in DOMAIN jobs
    <3> HIDE DEF J
    <3> QED
      BY <2>1, EmptySeq
  <2> DEFINE e == [jobs[1] EXCEPT !.entered = TRUE]
  <2>3. e \in J /\ e.status = "running"
    BY <2>1, <2>2
  <2>4. jobs' = [jobs EXCEPT ![1] = e]
    BY <1>1
  <2> HIDE DEF J, e
  <2>5. jobs' \in Seq(J) /\ Len(jobs') = Len(jobs) /\ jobs'[1] = e
    BY <2>1, <2>2, <2>3, <2>4
  <2> QED
    BY <2>1, <2>3, <2>5 DEF Running
<1>5. exposed' \in BOOLEAN
  BY <1>1 DEF UpgradeInv, UpgradeTypeOK
<1>6. UpgradeTypeOK'
  BY <1>1, <1>2, <1>4, <1>5 DEF UpgradeInv, UpgradeTypeOK
<1>7. world' # NoWorld => world' = Deployed(document)
  BY <1>1
<1>8. WorldIsDocument'
  BY <1>1, <1>2, <1>7 DEF WorldIsDocument
<1>9. GroupsAreProtected'
  <2>1. CASE world' = NoWorld /\ save = NoSave
    <3>1. save'.step = "none"
      BY <1>1, <2>1 DEF NoSave
    <3> QED
      BY <1>2, <2>1, <3>1 DEF GroupsAreProtected
  <2>2. CASE ~(world' = NoWorld /\ save = NoSave)
    <3>1. exposed' = exposed
      BY <1>1, <2>2
    <3>2. world' # NoWorld => world'.groups = GroupsOf(document)
      BY <1>7 DEF GroupsOf
    <3>3. UNCHANGED <<document, save>>
      BY <1>1
    <3> QED
      BY <1>2, <3>1, <3>2, <3>3 DEF UpgradeInv, GroupsAreProtected
  <2> QED
    BY <2>1, <2>2
<1> QED
  BY <1>6, <1>8, <1>9 DEF UpgradeInv

\* The end of a job changes neither document nor cluster.
LEMMA EndApplyInv ==
    UpgradeInv /\ (EndApply \/ FailJob) => UpgradeInv'
<1> SUFFICES ASSUME UpgradeInv, EndApply \/ FailJob
             PROVE  UpgradeInv'
  OBVIOUS
<1>1. /\ UNCHANGED <<document, world, save, edited, exposed>> /\ copy.step # "none"
      /\ EndJob("succeeded") \/ EndJob("failed")
  BY DEF EndApply, FailJob
<1>2. Running
  BY <1>1 DEF UpgradeInv, UpgradeTypeOK
<1>3. /\ jobs' \in Seq([action : {"deploy", "destroy"}, status : {"running", "succeeded", "failed"},
                        entered : BOOLEAN])
      /\ copy'.step = "none" /\ "step" \in DOMAIN copy'
  BY <1>1, <1>2, EndedJobs
<1> QED
  BY <1>1, <1>3 DEF UpgradeInv, UpgradeTypeOK, WorldIsDocument, GroupsAreProtected

\* Neither does a cleared history.
LEMMA ClearJobsInv ==
    UpgradeInv /\ ClearJobs => UpgradeInv'
<1> SUFFICES ASSUME UpgradeInv, ClearJobs
             PROVE  UpgradeInv'
  OBVIOUS
<1>1. UNCHANGED <<document, world, copy, save, edited, exposed>> /\ jobs' = <<>> /\ ~Running
  BY DEF ClearJobs
<1>2. copy.step = "none"
  BY <1>1 DEF UpgradeInv, UpgradeTypeOK
<1>3. jobs' \in Seq([action : {"deploy", "destroy"}, status : {"running", "succeeded", "failed"},
                     entered : BOOLEAN])
  BY <1>1
<1> QED
  BY <1>1, <1>2, <1>3 DEF UpgradeInv, UpgradeTypeOK, WorldIsDocument, GroupsAreProtected

\* The invariant is inductive: one lemma for each action.
LEMMA UpgradeStep ==
    UpgradeInv /\ [UpgradeNext]_upgradeVars => UpgradeInv'
<1> SUFFICES ASSUME UpgradeInv, [UpgradeNext]_upgradeVars
             PROVE  UpgradeInv'
  OBVIOUS
<1>1. CASE Observe
  BY <1>1 DEF Observe, UpgradeInv, UpgradeTypeOK, WorldIsDocument, GroupsAreProtected, Running
<1>2. CASE UNCHANGED upgradeVars
  BY <1>2 DEF upgradeVars, UpgradeInv, UpgradeTypeOK, WorldIsDocument, GroupsAreProtected, Running
<1> QED
  BY <1>1, <1>2, LoadSaveInv, CheckPlanInv, StoreSaveInv, StartJobInv, LoadJobInv, SaveJobInv,
     ApplyJobInv, EndApplyInv, ClearJobsInv DEF UpgradeNext

\* UpgradeInv holds in every reachable state.
THEOREM UpgradeInvariant ==
    UpgradeSpec => []UpgradeInv
<1> QED
  BY UpgradeInitInv, UpgradeStep, PTL DEF UpgradeSpec

\* Only an apply changes what runs, and then into what the stored document says.
LEMMA WorldStep ==
    ASSUME UpgradeInv, [UpgradeNext]_upgradeVars, world' # world, NoWorld \notin {world, world'}
    PROVE  world' = Deployed(document) /\ ApplyJob
<1>1. ApplyJob
  BY DEF UpgradeNext, upgradeVars, LoadSave, CheckPlan, StoreSave, StartJob, LoadJob, SaveJob,
         EndApply, FailJob, Observe, ClearJobs
<1> QED
  BY <1>1 DEF ApplyJob

\* A deployment after an upgrade that nobody edited changes nothing of what runs, and no
\* job is refused for a document that an older release accepted, unless its heap cannot be
\* parsed.
THEOREM UpgradeIsSafeHolds ==
    UpgradeSpec => UpgradeIsSafe
<1>1. ASSUME UpgradeInv, [UpgradeNext]_upgradeVars
      PROVE  [world' # world /\ NoWorld \notin {world, world'} => edited]_upgradeVars
  <2> SUFFICES ASSUME world' # world, NoWorld \notin {world, world'}, ~edited
               PROVE  FALSE
    BY DEF UpgradeInv, UpgradeTypeOK
  <2>1. world' = Deployed(document)
    BY <1>1, WorldStep
  <2> QED
    BY <1>1, <2>1 DEF UpgradeInv, WorldIsDocument
<1>2. ASSUME UpgradeInv, [UpgradeNext]_upgradeVars
      PROVE  [copy.step = "save" /\ copy'.step = "none" => copy.doc.heap = "odd"]_upgradeVars
  <2> SUFFICES ASSUME copy.step = "save", copy'.step = "none"
               PROVE  copy.doc.heap = "odd"
    OBVIOUS
  <2>1. Running
    BY <1>2 DEF UpgradeInv, UpgradeTypeOK
  <2>2. SaveJob
    BY <1>2, <2>1 DEF UpgradeNext, upgradeVars, LoadSave, CheckPlan, StoreSave, StartJob, LoadJob,
         ApplyJob, EndApply, FailJob, Observe, ClearJobs
  <2>3. ~Valid(copy.doc)
    <3> SUFFICES ASSUME Valid(copy.doc)
                 PROVE  FALSE
      OBVIOUS
    <3>1. copy' = [copy EXCEPT !.step = "apply"]
      BY <2>2 DEF SaveJob
    <3> QED
      BY <1>2, <3>1 DEF UpgradeInv, UpgradeTypeOK
  <2> QED
    BY <1>2, <2>3 DEF UpgradeInv, UpgradeTypeOK
<1> QED
  BY <1>1, <1>2, UpgradeInvariant, PTL
     DEF UpgradeSpec, UpgradeIsSafe, UpgradeKeepsWhatRuns, OldDocumentsRun

\* No job moves or removes a node group that runs, unless a save found no trace of the
\* deployment or moved the network.
THEOREM DeployedGroupsStayHolds ==
    UpgradeSpec => DeployedGroupsStay
<1>1. ASSUME UpgradeInv, [UpgradeNext]_upgradeVars
      PROVE  [NoWorld \notin {world, world'} => exposed \/ world.groups \subseteq world'.groups]_upgradeVars
  <2> SUFFICES ASSUME NoWorld \notin {world, world'}, ~exposed, world' # world
               PROVE  world.groups \subseteq world'.groups
    OBVIOUS
  <2>1. world' = Deployed(document)
    BY <1>1, WorldStep
  <2> QED
    BY <1>1, <2>1 DEF UpgradeInv, GroupsAreProtected, GroupsOf
<1> QED
  BY <1>1, UpgradeInvariant, PTL DEF UpgradeSpec, DeployedGroupsStay

-------------------------------------------------------------------------------
(* The cluster.  What a job has read of the document is current, what it is *)
(* about to create is not in AWS, and what it allows includes what the     *)
(* console allowed before.                                                 *)

HIDE UpgradeAssumption DEF Missing, Unset, Heap, Role
USE StagesAssumption DEF None, Ready, NoCache, Status

GroupStatus == {None, "CREATING", "ACTIVE", "CREATE_FAILED"}
CloudRecord ==
    [network : BOOLEAN, cluster : BOOLEAN, allowed : SUBSET Address,
     group : [NodeGroup -> GroupStatus], size : [NodeGroup -> Int],
     interface : [NodeGroup -> {None, "in-use", "available"}],
     cache : [replicas : Int, failover : BOOLEAN], others : Int]
Wish == [size : [NodeGroup -> Int], addresses : SUBSET Address, replicas : Int]
StagePlan == [create : SUBSET NodeGroup, size : [NodeGroup -> Int], list : SUBSET Address, replicas : Int]
Kinds == {"plan", "deploy", "destroy"}
StageRecord ==
    [step : {"ready"}]
    \cup [step : {"list", "compute"}, kind : Kinds, copy : Wish]
    \cup [step : {"adopt"}, kind : Kinds, copy : Wish, list : SUBSET Address, todo : SUBSET NodeGroup]
    \cup [step : {"plan"}, kind : Kinds, copy : Wish, list : SUBSET Address]
    \cup [step : {"cache"}, copy : Wish, plan : StagePlan]
    \cup [step : {"apply"}, plan : StagePlan, waits : NodeGroup \cup {None}]
    \cup [step : {"cleanup", "network"}, pass : Int]

StagesTypeOK ==
    /\ wanted \in Wish /\ aws \in CloudRecord /\ recorded \in SUBSET NodeGroup
    /\ stage \in StageRecord
    /\ spent \in [saves : Nat, stages : Nat, changes : Nat]
    /\ stale \in BOOLEAN /\ late \in SUBSET Address

\* What the job has read of the document is still there.
CopyIsCurrent ==
    ~stale => /\ stage.step \in {"list", "adopt", "plan"} => stage.copy = wanted
              /\ stage.step = "cache" => stage.plan.replicas = stage.copy.replicas

\* A wanted group that the state does not have is looked up still, or does not exist.
GroupsAreAdopted ==
    ~stale => /\ stage.step = "adopt" =>
                    \A g \in Live : stage.copy.size[g] >= 0 => g \in recorded \cup stage.todo
              /\ stage.step = "plan" =>
                    \A g \in Live : stage.copy.size[g] >= 0 => g \in recorded
              /\ stage.step \in {"cache", "apply"} => stage.plan.create \cap Live \subseteq recorded

\* The list of a job has what AWS has, less what the console added since.
ListIsKept ==
    /\ ~aws.cluster => aws.allowed = {}
    /\ stage.step \in {"adopt", "plan"} => aws.allowed \ stage.list \subseteq late
    /\ stage.step \in {"cache", "apply"} => aws.allowed \ stage.plan.list \subseteq late

\* The cluster has gone, and its node groups before it.
GroupsAreGone == stage.step \in {"cleanup", "network"} => Live = {}

StagesInv ==
    /\ StagesTypeOK /\ CopyIsCurrent /\ GroupsAreAdopted /\ ListIsKept /\ GroupsAreGone
    /\ ReplicasGoWithoutFailover /\ NetworkIsFree

USE DEF StagesTypeOK, GroupStatus, CloudRecord, Wish, StagePlan, Kinds, StageRecord, Continues, Refused

\* A save changes the document; a job that still copies from it is marked stale.
LEMMA SaveDocumentStage ==
    ASSUME StagesInv, SaveDocument
    PROVE  StagesInv'
<1>1. StagesTypeOK'
  BY DEF SaveDocument, Spend, StagesInv
<1>2. CopyIsCurrent'
  <2>1. CASE stage = Ready
    BY <2>1 DEF SaveDocument, CopyIsCurrent
  <2>2. CASE stage # Ready
    BY <2>2 DEF SaveDocument, CopyIsCurrent
  <2> QED BY <2>1, <2>2
<1>3. GroupsAreAdopted'
  BY DEF SaveDocument, Spend, StagesInv, GroupsAreAdopted, CopyIsCurrent, Live
<1>4. ListIsKept'
  BY DEF SaveDocument, Spend, StagesInv, ListIsKept
<1>5. GroupsAreGone'
  BY DEF SaveDocument, Spend, StagesInv, GroupsAreGone, Live
<1>6. ReplicasGoWithoutFailover'
  BY DEF SaveDocument, Spend, StagesInv, ReplicasGoWithoutFailover, CopyIsCurrent
<1>7. NetworkIsFree'
  BY DEF SaveDocument, Spend, StagesInv, NetworkIsFree, GroupsAreGone, Live, Left
<1> QED BY <1>1, <1>2, <1>3, <1>4, <1>5, <1>6, <1>7 DEF StagesInv

\* What the console adds to the list of addresses is late, what it removes is not missed.
LEMMA EditAddressesStage ==
    ASSUME StagesInv, EditAddresses
    PROVE  StagesInv'
<1>1. StagesTypeOK'
  BY DEF EditAddresses, Outside, Spend, StagesInv
<1>2. CopyIsCurrent'
  BY DEF EditAddresses, Outside, Spend, StagesInv, CopyIsCurrent
<1>3. GroupsAreAdopted'
  BY DEF EditAddresses, Outside, Spend, StagesInv, GroupsAreAdopted, CopyIsCurrent, Live
<1>4. ListIsKept'
  BY DEF EditAddresses, Outside, Spend, StagesInv, ListIsKept
<1>5. GroupsAreGone'
  BY DEF EditAddresses, Outside, Spend, StagesInv, GroupsAreGone, Live
<1>6. ReplicasGoWithoutFailover'
  BY DEF EditAddresses, Outside, Spend, StagesInv, ReplicasGoWithoutFailover, CopyIsCurrent
<1>7. NetworkIsFree'
  BY DEF EditAddresses, Outside, Spend, StagesInv, NetworkIsFree, GroupsAreGone, Live, Left
<1> QED BY <1>1, <1>2, <1>3, <1>4, <1>5, <1>6, <1>7 DEF StagesInv

\* Nodes that others start or that a group gains use up quota and nothing else.
LEMMA UseQuotaStage ==
    ASSUME StagesInv, UseQuota
    PROVE  StagesInv'
<1>1. StagesTypeOK'
  <2>1. CASE \E g \in NodeGroup, n \in 0 .. MaxSize :
              /\ aws' = [aws EXCEPT !.size[g] = n]
              /\ stale' = (stale \/ n > aws.size[g])
    BY <2>1 DEF UseQuota, Outside, Spend, StagesInv
  <2>2. CASE aws' = [aws EXCEPT !.others = @ + 1] /\ stale' = TRUE
    BY <2>2 DEF UseQuota, Outside, Spend, StagesInv
  <2> QED BY <2>1, <2>2 DEF UseQuota
<1>2. CopyIsCurrent'
  BY DEF UseQuota, Outside, Spend, StagesInv, CopyIsCurrent
<1>3. GroupsAreAdopted'
  BY DEF UseQuota, Outside, Spend, StagesInv, GroupsAreAdopted, CopyIsCurrent, Live
<1>4. ListIsKept'
  BY DEF UseQuota, Outside, Spend, StagesInv, ListIsKept
<1>5. GroupsAreGone'
  BY DEF UseQuota, Outside, Spend, StagesInv, GroupsAreGone, Live
<1>6. ReplicasGoWithoutFailover'
  BY DEF UseQuota, Outside, Spend, StagesInv, ReplicasGoWithoutFailover, CopyIsCurrent
<1>7. NetworkIsFree'
  BY DEF UseQuota, Outside, Spend, StagesInv, NetworkIsFree, GroupsAreGone, Live, Left
<1> QED BY <1>1, <1>2, <1>3, <1>4, <1>5, <1>6, <1>7 DEF StagesInv

\* A job starts from the document as it is.
LEMMA StartStageStage ==
    ASSUME StagesInv, StartStage
    PROVE  StagesInv'
<1>1. StagesTypeOK'
  <2>1. PICK kind \in Kinds : stage' = [step |-> IF kind = "destroy" THEN "compute" ELSE "list",
                                     kind |-> kind, copy |-> wanted]
    BY DEF StartStage
  <2>2. stage' \in [step : {"list", "compute"}, kind : Kinds, copy : Wish]
    BY <2>1 DEF StagesInv
  <2>3. stage' \in StageRecord
    BY <2>2
  <2>4. spent' \in [saves : Nat, stages : Nat, changes : Nat]
    BY DEF StartStage, Spend, StagesInv
  <2>5. UNCHANGED <<wanted, aws, recorded>> /\ stale' = FALSE /\ late' = {}
    BY DEF StartStage
  <2> QED BY <2>3, <2>4, <2>5 DEF StagesInv
<1>2. CopyIsCurrent'
  BY DEF StartStage, Spend, StagesInv, CopyIsCurrent
<1>3. GroupsAreAdopted'
  BY DEF StartStage, Spend, StagesInv, GroupsAreAdopted, CopyIsCurrent, Live
<1>4. ListIsKept'
  BY DEF StartStage, Spend, StagesInv, ListIsKept
<1>5. GroupsAreGone'
  BY DEF StartStage, Spend, StagesInv, GroupsAreGone, Live
<1>6. ReplicasGoWithoutFailover'
  BY DEF StartStage, Spend, StagesInv, ReplicasGoWithoutFailover, CopyIsCurrent
<1>7. NetworkIsFree'
  BY DEF StartStage, Spend, StagesInv, NetworkIsFree, GroupsAreGone, Live, Left
<1> QED BY <1>1, <1>2, <1>3, <1>4, <1>5, <1>6, <1>7 DEF StagesInv

\* The list of the job begins as what AWS allows, with the wanted addresses.
LEMMA ReadAddressesStage ==
    ASSUME StagesInv, ReadAddresses
    PROVE  StagesInv'
<1>1. StagesTypeOK'
  BY DEF ReadAddresses, Merged, StagesInv
<1>2. CopyIsCurrent'
  BY DEF ReadAddresses, Merged, StagesInv, CopyIsCurrent
<1>3. GroupsAreAdopted'
  BY DEF ReadAddresses, Merged, StagesInv, GroupsAreAdopted, CopyIsCurrent, Live
<1>4. ListIsKept'
  BY DEF ReadAddresses, Merged, StagesInv, ListIsKept
<1>5. GroupsAreGone'
  BY DEF ReadAddresses, Merged, StagesInv, GroupsAreGone, Live
<1>6. ReplicasGoWithoutFailover'
  BY DEF ReadAddresses, Merged, StagesInv, ReplicasGoWithoutFailover, CopyIsCurrent
<1>7. NetworkIsFree'
  BY DEF ReadAddresses, Merged, StagesInv, NetworkIsFree, GroupsAreGone, Live, Left
<1> QED BY <1>1, <1>2, <1>3, <1>4, <1>5, <1>6, <1>7 DEF StagesInv

\* What is to be looked up are the wanted groups that the state does not have.
LEMMA CheckQuotaStage ==
    ASSUME StagesInv, CheckQuota
    PROVE  StagesInv'
<1>1. StagesTypeOK'
  <2>1. stage.step = "adopt" /\ stage \in [step : {"adopt"}, kind : Kinds, copy : Wish,
                                         list : SUBSET Address, todo : SUBSET NodeGroup]
    BY DEF CheckQuota, StagesInv
  <2>2. stage' \in StageRecord
    BY <2>1 DEF CheckQuota, StagesInv
  <2> QED BY <2>2, ZenonT(60) DEF CheckQuota, StagesInv
<1>2. CopyIsCurrent'
  BY DEF CheckQuota, StagesInv, CopyIsCurrent
<1>3. GroupsAreAdopted'
  BY DEF CheckQuota, StagesInv, GroupsAreAdopted, CopyIsCurrent, Live
<1>4. ListIsKept'
  BY DEF CheckQuota, StagesInv, ListIsKept
<1>5. GroupsAreGone'
  BY DEF CheckQuota, StagesInv, GroupsAreGone, Live
<1>6. ReplicasGoWithoutFailover'
  BY DEF CheckQuota, StagesInv, ReplicasGoWithoutFailover, CopyIsCurrent
<1>7. NetworkIsFree'
  BY DEF CheckQuota, StagesInv, NetworkIsFree, GroupsAreGone, Live, Left
<1> QED BY <1>1, <1>2, <1>3, <1>4, <1>5, <1>6, <1>7 DEF StagesInv

\* The plan creates what the state does not have, and that does not exist.
LEMMA MakePlanStage ==
    ASSUME StagesInv, MakePlan
    PROVE  StagesInv'
<1>1. StagesTypeOK'
  BY DEF MakePlan, Unmade, Failed, StagesInv
<1>2. CopyIsCurrent'
  BY DEF MakePlan, Unmade, Failed, StagesInv, CopyIsCurrent
<1>3. GroupsAreAdopted'
  BY DEF MakePlan, Unmade, Failed, StagesInv, GroupsAreAdopted, CopyIsCurrent, Live
<1>4. ListIsKept'
  BY DEF MakePlan, Unmade, Failed, StagesInv, ListIsKept
<1>5. GroupsAreGone'
  BY DEF MakePlan, Unmade, Failed, StagesInv, GroupsAreGone, Live
<1>6. ReplicasGoWithoutFailover'
  BY DEF MakePlan, Unmade, Failed, StagesInv, ReplicasGoWithoutFailover, CopyIsCurrent
<1>7. NetworkIsFree'
  BY DEF MakePlan, Unmade, Failed, StagesInv, NetworkIsFree, GroupsAreGone, Live, Left
<1> QED BY <1>1, <1>2, <1>3, <1>4, <1>5, <1>6, <1>7 DEF StagesInv

\* Failover is switched off before the plan that has no replica is applied.
LEMMA PrepareCacheStage ==
    ASSUME StagesInv, PrepareCache
    PROVE  StagesInv'
<1>1. StagesTypeOK'
  BY DEF PrepareCache, Applying, StagesInv
<1>2. CopyIsCurrent'
  BY DEF PrepareCache, Applying, StagesInv, CopyIsCurrent
<1>3. GroupsAreAdopted'
  BY DEF PrepareCache, Applying, StagesInv, GroupsAreAdopted, CopyIsCurrent, Live
<1>4. ListIsKept'
  BY DEF PrepareCache, Applying, StagesInv, ListIsKept
<1>5. GroupsAreGone'
  BY DEF PrepareCache, Applying, StagesInv, GroupsAreGone, Live
<1>6. ReplicasGoWithoutFailover'
  BY DEF PrepareCache, Applying, StagesInv, ReplicasGoWithoutFailover, CopyIsCurrent
<1>7. NetworkIsFree'
  BY DEF PrepareCache, Applying, StagesInv, NetworkIsFree, GroupsAreGone, Live, Left
<1> QED BY <1>1, <1>2, <1>3, <1>4, <1>5, <1>6, <1>7 DEF StagesInv

\* Network, cluster and addresses are applied as planned.
LEMMA ApplyBaseStage ==
    ASSUME StagesInv, ApplyBase
    PROVE  StagesInv'
<1>1. StagesTypeOK'
  <2>1. stage.step = "apply" /\ stage \in [step : {"apply"}, plan : StagePlan,
                                         waits : NodeGroup \cup {None}]
    BY DEF ApplyBase, StagesInv
  <2>2. aws' \in CloudRecord
    <3>1. CASE aws' = [aws EXCEPT !.network = TRUE]
      BY <3>1 DEF StagesInv
    <3>2. CASE aws' = [aws EXCEPT !.cluster = TRUE, !.allowed = stage.plan.list]
      BY <2>1, <3>2 DEF StagesInv
    <3>3. CASE aws' = [aws EXCEPT !.allowed = stage.plan.list]
      BY <2>1, <3>3 DEF StagesInv
    <3> QED BY <3>1, <3>2, <3>3 DEF ApplyBase
  <2> QED BY <2>2 DEF ApplyBase, StagesInv
<1>2. CopyIsCurrent'
  BY DEF ApplyBase, StagesInv, CopyIsCurrent
<1>3. GroupsAreAdopted'
  <2>1. aws'.group = aws.group
    BY ZenonT(60) DEF ApplyBase, StagesInv
  <2>2. stage' = stage /\ stale' = stale /\ recorded' = recorded /\ stage.step = "apply"
    BY DEF ApplyBase
  <2> QED BY <2>1, <2>2 DEF StagesInv, GroupsAreAdopted, Live
<1>4. ListIsKept'
  BY ZenonT(60) DEF ApplyBase, StagesInv, ListIsKept
<1>5. GroupsAreGone'
  BY DEF ApplyBase, StagesInv, GroupsAreGone, Live
<1>6. ReplicasGoWithoutFailover'
  BY ZenonT(60) DEF ApplyBase, StagesInv, ReplicasGoWithoutFailover, CopyIsCurrent
<1>7. NetworkIsFree'
  BY DEF ApplyBase, StagesInv, NetworkIsFree, GroupsAreGone, Live, Left
<1> QED BY <1>1, <1>2, <1>3, <1>4, <1>5, <1>6, <1>7 DEF StagesInv

\* The cache is applied as planned.
LEMMA ApplyCacheStage ==
    ASSUME StagesInv, ApplyCache
    PROVE  StagesInv'
<1>1. StagesTypeOK'
  <2>1. stage.step = "apply" /\ stage \in [step : {"apply"}, plan : StagePlan,
                                         waits : NodeGroup \cup {None}]
    BY DEF ApplyCache, StagesInv
  <2>2. aws' \in CloudRecord
    <3>1. CASE UNCHANGED aws
      BY <3>1 DEF StagesInv
    <3>2. CASE aws' = [aws EXCEPT !.cache = [replicas |-> stage.plan.replicas,
                                             failover |-> stage.plan.replicas > 0]]
      <4>1. stage.plan.replicas \in Int
        BY <2>1
      <4>2. [replicas |-> stage.plan.replicas, failover |-> stage.plan.replicas > 0]
               \in [replicas : Int, failover : BOOLEAN]
        BY <4>1
      <4> QED BY <3>2, <4>2 DEF StagesInv
    <3> QED BY <3>1, <3>2 DEF ApplyCache
  <2> QED BY <2>2 DEF ApplyCache, StagesInv
<1>2. CopyIsCurrent'
  BY DEF ApplyCache, StagesInv, CopyIsCurrent
<1>3. GroupsAreAdopted'
  BY DEF ApplyCache, StagesInv, GroupsAreAdopted, CopyIsCurrent, Live
<1>4. ListIsKept'
  BY DEF ApplyCache, StagesInv, ListIsKept
<1>5. GroupsAreGone'
  BY DEF ApplyCache, StagesInv, GroupsAreGone, Live
<1>6. ReplicasGoWithoutFailover'
  BY DEF ApplyCache, StagesInv, ReplicasGoWithoutFailover, CopyIsCurrent
<1>7. NetworkIsFree'
  BY DEF ApplyCache, StagesInv, NetworkIsFree, GroupsAreGone, Live, Left
<1> QED BY <1>1, <1>2, <1>3, <1>4, <1>5, <1>6, <1>7 DEF StagesInv

\* A group that has become active is in the state by then.
LEMMA GroupCreatedStage ==
    ASSUME StagesInv, GroupCreated
    PROVE  StagesInv'
<1>1. StagesTypeOK'
  BY DEF GroupCreated, StagesInv
<1>2. CopyIsCurrent'
  BY DEF GroupCreated, StagesInv, CopyIsCurrent
<1>3. GroupsAreAdopted'
  BY DEF GroupCreated, StagesInv, GroupsAreAdopted, CopyIsCurrent, Live
<1>4. ListIsKept'
  BY DEF GroupCreated, StagesInv, ListIsKept
<1>5. GroupsAreGone'
  BY DEF GroupCreated, StagesInv, GroupsAreGone, Live
<1>6. ReplicasGoWithoutFailover'
  BY DEF GroupCreated, StagesInv, ReplicasGoWithoutFailover, CopyIsCurrent
<1>7. NetworkIsFree'
  BY DEF GroupCreated, StagesInv, NetworkIsFree, GroupsAreGone, Live, Left
<1> QED BY <1>1, <1>2, <1>3, <1>4, <1>5, <1>6, <1>7 DEF StagesInv

\* The end of an apply leaves nothing that is read.
LEMMA AppliedStage ==
    ASSUME StagesInv, Applied
    PROVE  StagesInv'
<1>1. StagesTypeOK'
  BY DEF Applied, StagesInv
<1>2. CopyIsCurrent'
  BY DEF Applied, StagesInv, CopyIsCurrent
<1>3. GroupsAreAdopted'
  BY DEF Applied, StagesInv, GroupsAreAdopted, CopyIsCurrent, Live
<1>4. ListIsKept'
  BY DEF Applied, StagesInv, ListIsKept
<1>5. GroupsAreGone'
  BY DEF Applied, StagesInv, GroupsAreGone, Live
<1>6. ReplicasGoWithoutFailover'
  BY DEF Applied, StagesInv, ReplicasGoWithoutFailover, CopyIsCurrent
<1>7. NetworkIsFree'
  BY DEF Applied, StagesInv, NetworkIsFree, GroupsAreGone, Live, Left
<1> QED BY <1>1, <1>2, <1>3, <1>4, <1>5, <1>6, <1>7 DEF StagesInv

\* So does a failed step.
LEMMA StageFailsStage ==
    ASSUME StagesInv, StageFails
    PROVE  StagesInv'
<1>1. StagesTypeOK'
  BY DEF StageFails, StagesInv
<1>2. CopyIsCurrent'
  BY DEF StageFails, StagesInv, CopyIsCurrent
<1>3. GroupsAreAdopted'
  BY DEF StageFails, StagesInv, GroupsAreAdopted, CopyIsCurrent, Live
<1>4. ListIsKept'
  BY DEF StageFails, StagesInv, ListIsKept
<1>5. GroupsAreGone'
  BY DEF StageFails, StagesInv, GroupsAreGone, Live
<1>6. ReplicasGoWithoutFailover'
  BY DEF StageFails, StagesInv, ReplicasGoWithoutFailover, CopyIsCurrent
<1>7. NetworkIsFree'
  BY DEF StageFails, StagesInv, NetworkIsFree, GroupsAreGone, Live, Left
<1> QED BY <1>1, <1>2, <1>3, <1>4, <1>5, <1>6, <1>7 DEF StagesInv

\* The cluster goes after its last node group, and its addresses with it.
LEMMA DeleteClusterStage ==
    ASSUME StagesInv, DeleteCluster
    PROVE  StagesInv'
<1>1. StagesTypeOK'
  <2>1. aws' \in CloudRecord
    BY DEF DeleteCluster, StagesInv
  <2>2. stage' \in StageRecord
    BY DEF DeleteCluster
  <2> QED BY <2>1, <2>2 DEF DeleteCluster, StagesInv
<1>2. CopyIsCurrent'
  BY DEF DeleteCluster, StagesInv, CopyIsCurrent
<1>3. GroupsAreAdopted'
  BY DEF DeleteCluster, StagesInv, GroupsAreAdopted, CopyIsCurrent, Live
<1>4. ListIsKept'
  BY DEF DeleteCluster, StagesInv, ListIsKept
<1>5. GroupsAreGone'
  BY DEF DeleteCluster, StagesInv, GroupsAreGone, Live
<1>6. ReplicasGoWithoutFailover'
  BY DEF DeleteCluster, StagesInv, ReplicasGoWithoutFailover, CopyIsCurrent
<1>7. NetworkIsFree'
  BY DEF DeleteCluster, StagesInv, NetworkIsFree, GroupsAreGone, Live, Left
<1> QED BY <1>1, <1>2, <1>3, <1>4, <1>5, <1>6, <1>7 DEF StagesInv

\* A pass of the cleanup ends when no interface is left, or another one begins.
LEMMA CleanupEndsStage ==
    ASSUME StagesInv, CleanupEnds
    PROVE  StagesInv'
<1>1. StagesTypeOK'
  BY DEF CleanupEnds, Left, StagesInv
<1>2. CopyIsCurrent'
  BY DEF CleanupEnds, Left, StagesInv, CopyIsCurrent
<1>3. GroupsAreAdopted'
  BY DEF CleanupEnds, Left, StagesInv, GroupsAreAdopted, CopyIsCurrent, Live
<1>4. ListIsKept'
  BY DEF CleanupEnds, Left, StagesInv, ListIsKept
<1>5. GroupsAreGone'
  BY DEF CleanupEnds, Left, StagesInv, GroupsAreGone, Live
<1>6. ReplicasGoWithoutFailover'
  BY DEF CleanupEnds, Left, StagesInv, ReplicasGoWithoutFailover, CopyIsCurrent
<1>7. NetworkIsFree'
  BY DEF CleanupEnds, Left, StagesInv, NetworkIsFree, GroupsAreGone, Live
<1> QED BY <1>1, <1>2, <1>3, <1>4, <1>5, <1>6, <1>7 DEF StagesInv

\* The network goes when no interface and no node group is left in it.
LEMMA DeleteNetworkStage ==
    ASSUME StagesInv, DeleteNetwork
    PROVE  StagesInv'
<1>1. StagesTypeOK'
  <2>1. aws' \in CloudRecord
    <3>1. aws' = [aws EXCEPT !.network = FALSE, !.cache = [replicas |-> -1, failover |-> FALSE]]
      BY DEF DeleteNetwork
    <3>2. [replicas |-> -1, failover |-> FALSE] \in [replicas : Int, failover : BOOLEAN]
      OBVIOUS
    <3> HIDE DEF NoCache
    <3> QED BY <3>1, <3>2 DEF StagesInv
  <2>2. stage' \in StageRecord
    BY DEF DeleteNetwork
  <2> QED BY <2>1, <2>2 DEF DeleteNetwork, StagesInv
<1>2. CopyIsCurrent'
  BY DEF DeleteNetwork, StagesInv, CopyIsCurrent
<1>3. GroupsAreAdopted'
  BY DEF DeleteNetwork, StagesInv, GroupsAreAdopted, CopyIsCurrent, Live
<1>4. ListIsKept'
  BY DEF DeleteNetwork, StagesInv, ListIsKept
<1>5. GroupsAreGone'
  BY DEF DeleteNetwork, StagesInv, GroupsAreGone, Live
<1>6. ReplicasGoWithoutFailover'
  BY DEF DeleteNetwork, StagesInv, ReplicasGoWithoutFailover, CopyIsCurrent
<1>7. NetworkIsFree'
  BY DEF DeleteNetwork, StagesInv, NetworkIsFree, GroupsAreGone, Live, Left
<1> QED BY <1>1, <1>2, <1>3, <1>4, <1>5, <1>6, <1>7 DEF StagesInv

\* A network that cannot be removed leads to the next pass of the cleanup.
LEMMA NetworkFailsStage ==
    ASSUME StagesInv, NetworkFails
    PROVE  StagesInv'
<1>1. StagesTypeOK'
  BY DEF NetworkFails, StagesInv
<1>2. CopyIsCurrent'
  BY DEF NetworkFails, StagesInv, CopyIsCurrent
<1>3. GroupsAreAdopted'
  BY DEF NetworkFails, StagesInv, GroupsAreAdopted, CopyIsCurrent, Live
<1>4. ListIsKept'
  BY DEF NetworkFails, StagesInv, ListIsKept
<1>5. GroupsAreGone'
  BY DEF NetworkFails, StagesInv, GroupsAreGone, Live
<1>6. ReplicasGoWithoutFailover'
  BY DEF NetworkFails, StagesInv, ReplicasGoWithoutFailover, CopyIsCurrent
<1>7. NetworkIsFree'
  BY DEF NetworkFails, StagesInv, NetworkIsFree, GroupsAreGone, Live, Left
<1> QED BY <1>1, <1>2, <1>3, <1>4, <1>5, <1>6, <1>7 DEF StagesInv

\* AWS finishes a group that was begun, well or badly.
LEMMA SettleStage ==
    ASSUME StagesInv, NEW g \in NodeGroup, Settle(g)
    PROVE  StagesInv'
<1>1. StagesTypeOK'
  <2>1. aws' \in CloudRecord
    <3>1. CASE aws' = [aws EXCEPT !.group[g] = "ACTIVE", !.interface[g] = "in-use"]
      BY <3>1 DEF StagesInv
    <3>2. CASE aws' = [aws EXCEPT !.group[g] = "CREATE_FAILED"]
      BY <3>2 DEF StagesInv
    <3> QED BY <3>1, <3>2 DEF Settle
  <2> QED BY <2>1 DEF Settle, StagesInv
<1>2. CopyIsCurrent'
  BY DEF Settle, StagesInv, CopyIsCurrent
<1>3. GroupsAreAdopted'
  <2>1. Live' = Live
    <3>1. CASE aws' = [aws EXCEPT !.group[g] = "ACTIVE", !.interface[g] = "in-use"]
      BY <3>1 DEF StagesInv, Settle, Live
    <3>2. CASE aws' = [aws EXCEPT !.group[g] = "CREATE_FAILED"]
      BY <3>2 DEF StagesInv, Settle, Live
    <3> QED BY <3>1, <3>2 DEF Settle
  <2> QED BY <2>1 DEF Settle, StagesInv, GroupsAreAdopted
<1>4. ListIsKept'
  BY ZenonT(60) DEF Settle, StagesInv, ListIsKept
<1>5. GroupsAreGone'
  BY DEF Settle, StagesInv, GroupsAreGone, Live
<1>6. ReplicasGoWithoutFailover'
  BY ZenonT(60) DEF Settle, StagesInv, ReplicasGoWithoutFailover, CopyIsCurrent
<1>7. NetworkIsFree'
  BY DEF Settle, StagesInv, NetworkIsFree, GroupsAreGone, Live, Left
<1> QED BY <1>1, <1>2, <1>3, <1>4, <1>5, <1>6, <1>7 DEF StagesInv

\* AWS lets go of the interface of a group that has gone.
LEMMA ReleaseStage ==
    ASSUME StagesInv, NEW g \in NodeGroup, Release(g)
    PROVE  StagesInv'
<1>1. StagesTypeOK'
  BY DEF Release, StagesInv
<1>2. CopyIsCurrent'
  BY DEF Release, StagesInv, CopyIsCurrent
<1>3. GroupsAreAdopted'
  BY DEF Release, StagesInv, GroupsAreAdopted, CopyIsCurrent, Live
<1>4. ListIsKept'
  BY DEF Release, StagesInv, ListIsKept
<1>5. GroupsAreGone'
  BY DEF Release, StagesInv, GroupsAreGone, Live
<1>6. ReplicasGoWithoutFailover'
  BY DEF Release, StagesInv, ReplicasGoWithoutFailover, CopyIsCurrent
<1>7. NetworkIsFree'
  BY DEF Release, StagesInv, NetworkIsFree, GroupsAreGone, Live, Left
<1> QED BY <1>1, <1>2, <1>3, <1>4, <1>5, <1>6, <1>7 DEF StagesInv

\* A group that was looked up is imported, found missing, or removed with what failed of it.
LEMMA AdoptStage ==
    ASSUME StagesInv, NEW g \in NodeGroup, Adopt(g)
    PROVE  StagesInv'
<1>1. StagesTypeOK'
  BY DEF Adopt, InTheWay, StagesInv
<1>2. CopyIsCurrent'
  BY DEF Adopt, InTheWay, StagesInv, CopyIsCurrent
<1>3. GroupsAreAdopted'
  BY DEF Adopt, InTheWay, StagesInv, GroupsAreAdopted, CopyIsCurrent, Live
<1>4. ListIsKept'
  BY DEF Adopt, InTheWay, StagesInv, ListIsKept
<1>5. GroupsAreGone'
  BY DEF Adopt, InTheWay, StagesInv, GroupsAreGone, Live
<1>6. ReplicasGoWithoutFailover'
  BY DEF Adopt, InTheWay, StagesInv, ReplicasGoWithoutFailover, CopyIsCurrent
<1>7. NetworkIsFree'
  BY DEF Adopt, InTheWay, StagesInv, NetworkIsFree, GroupsAreGone, Live, Left
<1> QED BY <1>1, <1>2, <1>3, <1>4, <1>5, <1>6, <1>7 DEF StagesInv

\* A created group is in the state from its first step on.
LEMMA CreateGroupStage ==
    ASSUME StagesInv, NEW g \in NodeGroup, CreateGroup(g)
    PROVE  StagesInv'
<1>a. stage \in [step : {"apply"}, plan : StagePlan, waits : NodeGroup \cup {None}]
  BY DEF CreateGroup, StagesInv
<1>b. CASE stage' = Ready
  <2>1. UNCHANGED <<wanted, aws, recorded, spent, stale, late>>
    BY <1>a, <1>b DEF CreateGroup
  <2> QED BY <1>b, <2>1 DEF StagesInv, CopyIsCurrent, GroupsAreAdopted, ListIsKept, GroupsAreGone,
             ReplicasGoWithoutFailover, NetworkIsFree, Live
<1>c. CASE stage' # Ready
  <2>1. /\ aws' = [aws EXCEPT !.group[g] = "CREATING", !.size[g] = stage.plan.size[g]]
        /\ stage' = [stage EXCEPT !.waits = g, !.plan.create = @ \ {g}]
        /\ UNCHANGED <<wanted, recorded, spent, stale, late>>
    BY <1>c DEF CreateGroup
  <2>2. stage' = [step |-> "apply", plan |-> [stage.plan EXCEPT !.create = @ \ {g}], waits |-> g]
    BY <1>a, <2>1
  <2>3. /\ stage'.step = "apply" /\ stage'.plan.create = stage.plan.create \ {g}
        /\ stage'.plan.list = stage.plan.list /\ stage'.plan.replicas = stage.plan.replicas
    BY <1>a, <2>2
  <2>4. aws' \in CloudRecord
    BY <1>a, <2>1 DEF StagesInv
  <2>5. /\ aws'.allowed = aws.allowed /\ aws'.cluster = aws.cluster /\ aws'.cache = aws.cache
        /\ Live' \subseteq Live \cup {g}
    BY <2>1 DEF StagesInv, Live
  <2>6. StagesTypeOK'
    <3>1. stage' \in [step : {"apply"}, plan : StagePlan, waits : NodeGroup \cup {None}]
      BY <1>a, <2>2
    <3> QED BY <2>1, <2>4, <3>1 DEF StagesInv
  <2>7. stage.step = "apply"
    BY <1>a
  <2>8. (CopyIsCurrent /\ GroupsAreAdopted /\ ListIsKept)'
    BY <2>1, <2>3, <2>5, <2>7 DEF StagesInv, CopyIsCurrent, GroupsAreAdopted, ListIsKept
  <2>9. (GroupsAreGone /\ ReplicasGoWithoutFailover /\ NetworkIsFree)'
    BY <2>1, <2>3, <2>5, <2>7 DEF StagesInv, GroupsAreGone, ReplicasGoWithoutFailover, NetworkIsFree
  <2> QED BY <2>6, <2>8, <2>9 DEF StagesInv
<1> QED BY <1>b, <1>c

\* A deleted group leaves the state as well.
LEMMA DeleteGroupStage ==
    ASSUME StagesInv, NEW g \in NodeGroup, DeleteGroup(g)
    PROVE  StagesInv'
<1>1. StagesTypeOK'
  BY DEF DeleteGroup, StagesInv
<1>2. CopyIsCurrent'
  BY DEF DeleteGroup, StagesInv, CopyIsCurrent
<1>3. GroupsAreAdopted'
  BY DEF DeleteGroup, StagesInv, GroupsAreAdopted, CopyIsCurrent, Live
<1>4. ListIsKept'
  BY DEF DeleteGroup, StagesInv, ListIsKept
<1>5. GroupsAreGone'
  BY DEF DeleteGroup, StagesInv, GroupsAreGone, Live
<1>6. ReplicasGoWithoutFailover'
  BY DEF DeleteGroup, StagesInv, ReplicasGoWithoutFailover, CopyIsCurrent
<1>7. NetworkIsFree'
  BY DEF DeleteGroup, StagesInv, NetworkIsFree, GroupsAreGone, Live, Left
<1> QED BY <1>1, <1>2, <1>3, <1>4, <1>5, <1>6, <1>7 DEF StagesInv

\* The cleanup removes an interface that nothing uses.
LEMMA CleanInterfaceStage ==
    ASSUME StagesInv, NEW g \in NodeGroup, CleanInterface(g)
    PROVE  StagesInv'
<1>1. StagesTypeOK'
  BY DEF CleanInterface, StagesInv
<1>2. CopyIsCurrent'
  BY DEF CleanInterface, StagesInv, CopyIsCurrent
<1>3. GroupsAreAdopted'
  BY DEF CleanInterface, StagesInv, GroupsAreAdopted, CopyIsCurrent, Live
<1>4. ListIsKept'
  BY DEF CleanInterface, StagesInv, ListIsKept
<1>5. GroupsAreGone'
  BY DEF CleanInterface, StagesInv, GroupsAreGone, Live
<1>6. ReplicasGoWithoutFailover'
  BY DEF CleanInterface, StagesInv, ReplicasGoWithoutFailover, CopyIsCurrent
<1>7. NetworkIsFree'
  BY DEF CleanInterface, StagesInv, NetworkIsFree, GroupsAreGone, Live, Left
<1> QED BY <1>1, <1>2, <1>3, <1>4, <1>5, <1>6, <1>7 DEF StagesInv

\* Nothing is deployed at the start and no job runs.
LEMMA InitStages ==
    StagesInit => StagesInv
<1> SUFFICES ASSUME StagesInit PROVE StagesInv
  OBVIOUS
<1>1. StagesTypeOK
  <2>1. wanted \in Wish
    BY DEF StagesInit
  <2>2. aws \in CloudRecord
    BY DEF StagesInit
  <2> QED BY <2>1, <2>2 DEF StagesInit
<1>2. Live = {}
  BY DEF StagesInit, Live
<1> QED BY <1>1, <1>2 DEF StagesInit, StagesInv, CopyIsCurrent, GroupsAreAdopted, ListIsKept, GroupsAreGone,
           ReplicasGoWithoutFailover, NetworkIsFree

\* The invariant is inductive: one lemma for each action.
LEMMA NextStages ==
    StagesInv /\ [StagesNext]_stageVars => StagesInv'
<1> SUFFICES ASSUME StagesInv, [StagesNext]_stageVars PROVE StagesInv'
  OBVIOUS
<1>1. CASE UNCHANGED stageVars
  BY <1>1 DEF stageVars, StagesInv, CopyIsCurrent, GroupsAreAdopted, ListIsKept, GroupsAreGone,
     ReplicasGoWithoutFailover, NetworkIsFree, Live, Left
<1>2. CASE StagesNext
  BY <1>2, SaveDocumentStage, EditAddressesStage, UseQuotaStage, StartStageStage, ReadAddressesStage, CheckQuotaStage, MakePlanStage, PrepareCacheStage, ApplyBaseStage, ApplyCacheStage, GroupCreatedStage, AppliedStage, StageFailsStage, DeleteClusterStage, CleanupEndsStage, DeleteNetworkStage, NetworkFailsStage, SettleStage, ReleaseStage, AdoptStage, CreateGroupStage, DeleteGroupStage, CleanInterfaceStage DEF StagesNext
<1> QED BY <1>1, <1>2

\* StagesInv holds in every reachable state.
THEOREM StagesInvariant ==
    StagesSpec => []StagesInv
<1> QED BY InitStages, NextStages, PTL DEF StagesSpec

\* The plan of a job never creates a node group that exists, removes the last replica of
\* a cache with failover on, or removes a network that something still uses, as long as
\* nobody saves the document during the job.
THEOREM NothingIsInTheWayHolds ==
    StagesSpec => []NothingIsInTheWay
<1>1. StagesInv => NothingIsInTheWay
  BY DEF StagesInv, GroupsAreAdopted, NothingIsInTheWay, CreatesAreNew
<1> QED BY StagesInvariant, <1>1, PTL

\* Whatever a job applies, an address that was entered in the console before the job read
\* the list is still allowed afterwards.
THEOREM ConsoleAddressesStayHolds ==
    StagesSpec => ConsoleAddressesStay
<1> DEFINE Kept == (spent'.changes = spent.changes /\ aws'.cluster)
                   => aws.allowed \ aws'.allowed \subseteq late
<1>1. StagesInv /\ [StagesNext]_stageVars => [Kept]_stageVars
  <2> SUFFICES ASSUME StagesInv, StagesNext PROVE Kept
    OBVIOUS
  <2>1. CASE EditAddresses
    BY <2>1 DEF EditAddresses, Outside, Spend, StagesInv
  <2>2. CASE ApplyBase
    BY <2>2 DEF ApplyBase, StagesInv, ListIsKept
  <2>3. CASE DeleteCluster
    BY <2>3 DEF DeleteCluster, StagesInv
  <2>4. CASE \E g \in NodeGroup : \/ Settle(g) \/ Release(g) \/ Adopt(g) \/ CreateGroup(g)
                               \/ DeleteGroup(g) \/ CleanInterface(g)
    <3>1. aws'.allowed = aws.allowed
      BY <2>4, ZenonT(60) DEF Settle, Release, Adopt, CreateGroup, DeleteGroup, CleanInterface, StagesInv
    <3> QED BY <3>1
  <2>5. CASE UseQuota \/ ApplyCache \/ PrepareCache \/ DeleteNetwork
    <3>1. CASE UseQuota
      BY <3>1 DEF UseQuota, StagesInv
    <3>2. CASE ApplyCache
      BY <3>2 DEF ApplyCache, StagesInv
    <3>3. CASE PrepareCache
      BY <3>3 DEF PrepareCache, StagesInv
    <3>4. CASE DeleteNetwork
      BY <3>4 DEF DeleteNetwork, StagesInv
    <3> QED BY <2>5, <3>1, <3>2, <3>3, <3>4
  <2>6. CASE UNCHANGED aws
    BY <2>6
  <2> QED BY <2>1, <2>2, <2>3, <2>4, <2>5, <2>6 DEF StagesNext, SaveDocument, StartStage,
             ReadAddresses, CheckQuota, MakePlan, GroupCreated, Applied, StageFails, CleanupEnds,
             NetworkFails
<1> QED BY StagesInvariant, <1>1, PTL DEF StagesSpec, ConsoleAddressesStay

-------------------------------------------------------------------------------
(* Room.  What the quota check let pass covers the groups that the plan     *)
(* creates.  The sum over the groups is the cardinality of the set of their *)
(* nodes, which makes it monotone.                                          *)

\* The nodes of the groups S, f[g] of them for a group g.
Units(f, S) == {u \in S \X Nat : u[2] \in 1 .. f[u[1]]}

\* One group adds its own nodes to those of the others.
LEMMA UnitsAdd ==
    ASSUME NEW S, NEW f, \A y \in S : f[y] \in Nat, NEW x \in S,
           IsFiniteSet(Units(f, S \ {x}))
    PROVE  /\ IsFiniteSet(Units(f, S))
           /\ Cardinality(Units(f, S)) = f[x] + Cardinality(Units(f, S \ {x}))
<1> DEFINE A == Units(f, S \ {x})
           B == {x} \X (1 .. f[x])
<1>1. Units(f, S) = A \cup B
  BY DEF Units
<1>2. A \cap B = {}
  BY DEF Units
<1>3. IsFiniteSet(B) /\ Cardinality(B) = f[x]
  <2>1. f[x] \in Nat /\ f[x] \in Int /\ 1 \in Int
    OBVIOUS
  <2> DEFINE n == f[x]
  <2>2. IsFiniteSet(1 .. n) /\ Cardinality(1 .. n) = IF 1 > n THEN 0 ELSE n - 1 + 1
    <3> HIDE DEF n
    <3> QED BY <2>1, FS_Interval DEF n
  <2>3. IsFiniteSet({x}) /\ Cardinality({x}) = 1
    BY FS_Singleton
  <2>4. IsFiniteSet(B) /\ Cardinality(B) = Cardinality({x}) * Cardinality(1 .. n)
    BY <2>2, <2>3, FS_Product
  <2> QED BY <2>1, <2>2, <2>3, <2>4
<1>4. Cardinality(A) \in Nat /\ Cardinality({}) = 0
  BY FS_CardinalityType, FS_EmptySet
<1>5. /\ IsFiniteSet(A \cup B)
      /\ Cardinality(A \cup B) = Cardinality(A) + Cardinality(B) - Cardinality(A \cap B)
  <2> HIDE DEF A, B
  <2> QED BY <1>3, FS_Union DEF A
<1>6. Cardinality(A \cap B) = 0 /\ f[x] \in Nat
  BY <1>2, <1>4
<1>7. Cardinality(A \cup B) = f[x] + Cardinality(A) /\ IsFiniteSet(A \cup B)
  <2> HIDE DEF A, B
  <2> QED BY <1>3, <1>4, <1>5, <1>6
<1> QED BY <1>1, <1>7

\* No group, no node.
LEMMA UnitsOfNone == ASSUME NEW f PROVE Units(f, {}) = {}
BY DEF Units

\* Among subsets of a finite set there is one that includes no other.
LEMMA LeastSubset ==
    ASSUME NEW S, IsFiniteSet(S), NEW Bad \in SUBSET SUBSET S, Bad # {}
    PROVE  \E s \in Bad : \A t \in Bad : ~(t \subseteq s /\ t # s)
<1>1. IsWellFoundedOn(StrictSubsetOrdering(S), SUBSET S)
  BY ONLY IsFiniteSet(S), FS_StrictSubsetOrderingWellFounded, FS_FiniteSubsetsOfFinite
<1>2. PICK s \in Bad : \A t \in Bad : ~(<<t, s>> \in StrictSubsetOrdering(S))
  BY <1>1, WFMin
<1> QED BY <1>2 DEF StrictSubsetOrdering

\* Finitely many groups have finitely many nodes: a least counterexample has a group to spare.
LEMMA UnitsAreFinite ==
    ASSUME NEW S, IsFiniteSet(S), NEW f, \A y \in S : f[y] \in Nat
    PROVE  \A s \in SUBSET S : IsFiniteSet(Units(f, s)) /\ Cardinality(Units(f, s)) \in Nat
<1> DEFINE Bad == {s \in SUBSET S : ~IsFiniteSet(Units(f, s))}
<1>1. ASSUME Bad # {} PROVE FALSE
  <2>1. PICK s \in Bad : \A t \in Bad : ~(t \subseteq s /\ t # s)
    <3>1. Bad \in SUBSET SUBSET S
      OBVIOUS
    <3> HIDE DEF Bad
    <3> QED BY <1>1, <3>1, LeastSubset
  <2>2. s # {}
    BY <2>1, UnitsOfNone, FS_EmptySet
  <2>3. PICK x \in s : TRUE
    BY <2>2
  <2>4. IsFiniteSet(Units(f, s \ {x}))
    BY <2>1, <2>3
  <2>5. \A y \in s : f[y] \in Nat
    BY <2>1
  <2> HIDE DEF Bad
  <2>6. IsFiniteSet(Units(f, s))
    BY <2>3, <2>4, <2>5, UnitsAdd
  <2> QED BY <2>1, <2>6 DEF Bad
<1> QED BY <1>1, FS_CardinalityType

\* The fold of the community modules counts.
LEMMA NodesCount ==
    ASSUME NEW S, IsFiniteSet(S), NEW f, \A y \in S : f[y] \in Nat
    PROVE  Nodes(f, S) = Cardinality(Units(f, S))
<1> DEFINE Eq(g) == g = [s \in SUBSET S |-> IF s = {} THEN 0
                                            ELSE f[CHOOSE x \in s : TRUE] + g[s \ {CHOOSE x \in s : TRUE}]]
           card == [s \in SUBSET S |-> Cardinality(Units(f, s))]
           iter == CHOOSE g : Eq(g)
<1>1. Nodes(f, S) = iter[S]
  BY DEF Nodes, MapThenSumSet, MapThenFoldSet
<1>2. Eq(card)
  <2>1. ASSUME NEW s \in SUBSET S, s = {} PROVE card[s] = 0
    BY <2>1, UnitsOfNone, FS_EmptySet
  <2>2. ASSUME NEW s \in SUBSET S, s # {}
        PROVE  card[s] = f[CHOOSE x \in s : TRUE] + card[s \ {CHOOSE x \in s : TRUE}]
    <3>1. PICK x \in s : x = CHOOSE y \in s : TRUE
      BY <2>2
    <3>2. \A y \in s : f[y] \in Nat
      OBVIOUS
    <3>3. IsFiniteSet(Units(f, s \ {x}))
      BY UnitsAreFinite
    <3>4. Cardinality(Units(f, s)) = f[x] + Cardinality(Units(f, s \ {x}))
      <4> HIDE DEF Eq, card, iter
      <4> QED BY <3>2, <3>3, UnitsAdd
    <3>5. card[s] = f[x] + card[s \ {x}]
      BY <3>4
    <3> QED BY <3>1, <3>5
  <2> QED BY <2>1, <2>2
<1>3. Eq(iter)
  <2> HIDE DEF Eq, card
  <2> QED BY <1>2
<1>4. \A s \in SUBSET S : iter[s] = card[s]
  <2> DEFINE Bad == {s \in SUBSET S : iter[s] # card[s]}
  <2>1. ASSUME Bad # {} PROVE FALSE
    <3> HIDE DEF iter, card
    <3>1. PICK s \in Bad : \A t \in Bad : ~(t \subseteq s /\ t # s)
      <4>1. Bad \in SUBSET SUBSET S
        OBVIOUS
      <4> HIDE DEF Bad
      <4> QED BY <2>1, <4>1, LeastSubset
    <3>2. s # {}
      BY <1>2, <1>3, <3>1
    <3>3. PICK x \in s : x = CHOOSE y \in s : TRUE
      BY <3>2
    <3>4. iter[s \ {x}] = card[s \ {x}]
      BY <3>1, <3>3
    <3> QED BY <1>2, <1>3, <3>1, <3>2, <3>3, <3>4
  <2> QED BY <2>1
<1> QED BY <1>1, <1>4

\* More groups, or larger ones, have at least as many nodes.
LEMMA NodesGrow ==
    ASSUME NEW S, NEW T, IsFiniteSet(S), IsFiniteSet(T), NEW f, NEW g,
           \A x \in S : f[x] \in Nat, \A x \in T : g[x] \in Nat,
           \A x \in S : f[x] = 0 \/ (x \in T /\ f[x] <= g[x])
    PROVE  /\ Nodes(f, S) <= Nodes(g, T)
           /\ Nodes(f, S) \in Nat /\ Nodes(g, T) \in Nat
<1>1. Units(f, S) \subseteq Units(g, T)
  BY DEF Units
<1>2. IsFiniteSet(Units(g, T)) /\ Cardinality(Units(f, S)) \in Nat /\ Cardinality(Units(g, T)) \in Nat
  BY UnitsAreFinite
<1> QED BY <1>1, <1>2, NodesCount, FS_Subset

\* No group uses no node.
LEMMA NodesOfNone == ASSUME NEW f PROVE Nodes(f, {}) = 0
<1>1. Nodes(f, {}) = Cardinality(Units(f, {}))
  BY NodesCount, FS_EmptySet
<1> QED BY <1>1, UnitsOfNone, FS_EmptySet

\* A group that a job creates, looks up or keeps in the state has a size in the document.
SizesAreKnown ==
    /\ \A g \in NodeGroup : aws.size[g] >= 0
    /\ \A g \in recorded : wanted.size[g] >= 0
    /\ stage.step \in {"list", "adopt", "plan"} =>
          \A g \in NodeGroup : stage.copy.size[g] >= 0 => wanted.size[g] >= 0
    /\ stage.step = "adopt" => \A g \in stage.todo : wanted.size[g] >= 0
    /\ stage.step \in {"cache", "apply"} =>
          \A g \in stage.plan.create : stage.plan.size[g] >= 0 /\ wanted.size[g] >= 0
    /\ stage.step = "apply" /\ stage.waits # None => wanted.size[stage.waits] >= 0

\* What a plan adds is covered by what is left of the quota; nothing to add needs nothing.
Fits(n) == n = 0 \/ n <= Free
\* The groups of a document that do not exist.
Unbuilt(size) == {g \in NodeGroup : size[g] >= 0} \ Live
\* After the check, and until the plan is made, every group to build fits.
RoomIsChecked ==
    stage.step = "plan" /\ ~stale => Fits(Nodes(stage.copy.size, Unbuilt(stage.copy.size)))
RoomInv == SizesAreKnown /\ RoomIsChecked /\ RoomIsLeft

\* What is left of the quota is a number.
LEMMA FreeIsInt ==
    ASSUME StagesTypeOK, SizesAreKnown
    PROVE  Free \in Int
<1> DEFINE T == {g \in NodeGroup : aws.group[g] \in {"CREATING", "ACTIVE"}}
<1>1. IsFiniteSet(T) /\ \A g \in T : aws.size[g] \in Nat
  BY FS_Subset DEF SizesAreKnown
<1>2. Nodes(aws.size, T) \in Nat
  <2> HIDE DEF T
  <2> QED BY <1>1, NodesGrow
<1>3. InUse = Nodes(aws.size, T)
  BY DEF InUse
<1>4. aws.others \in Int /\ Quota \in Int
  OBVIOUS
<1> HIDE DEF T
<1> QED BY <1>2, <1>3, <1>4 DEF Free

\* Fewer or smaller groups leave more of the quota.
LEMMA FreeGrows ==
    ASSUME StagesTypeOK, StagesTypeOK', SizesAreKnown, SizesAreKnown', aws'.others = aws.others,
           \A g \in NodeGroup : aws'.group[g] \in {"CREATING", "ACTIVE"} =>
               aws.group[g] \in {"CREATING", "ACTIVE"} /\ aws'.size[g] <= aws.size[g]
    PROVE  Free \in Int /\ Free' \in Int /\ Free <= Free'
<1> DEFINE S == {g \in NodeGroup : aws'.group[g] \in {"CREATING", "ACTIVE"}}
           T == {g \in NodeGroup : aws.group[g] \in {"CREATING", "ACTIVE"}}
<1>1. IsFiniteSet(S) /\ IsFiniteSet(T)
  BY FS_Subset
<1>2. /\ \A g \in S : aws'.size[g] \in Nat
      /\ \A g \in T : aws.size[g] \in Nat
      /\ \A g \in S : g \in T /\ aws'.size[g] <= aws.size[g]
  BY DEF SizesAreKnown
<1>3. /\ Nodes(aws'.size, S) <= Nodes(aws.size, T)
      /\ Nodes(aws'.size, S) \in Nat /\ Nodes(aws.size, T) \in Nat
  <2> HIDE DEF S, T
  <2> QED BY <1>1, <1>2, NodesGrow
<1>4. InUse = Nodes(aws.size, T) /\ InUse' = Nodes(aws'.size, S)
  <2>1. InUse = Nodes(aws.size, T)
    BY DEF InUse
  <2>2. InUse' = Nodes(aws'.size, S)
    BY DEF InUse
  <2> QED BY <2>1, <2>2
<1>5. aws.others \in Int /\ Quota \in Int
  OBVIOUS
<1> HIDE DEF S, T
<1> QED BY <1>3, <1>4, <1>5 DEF Free

\* What the quota check lets pass covers the groups that do not exist.
LEMMA NeededCovers ==
    ASSUME StagesTypeOK, SizesAreKnown, NEW d \in Wish,
           Needed(d) = 0 \/ Needed(d) <= Free
    PROVE  Fits(Nodes(d.size, Unbuilt(d.size)))
<1> DEFINE S == Unbuilt(d.size)
           T == {g \in NodeGroup : d.size[g] > 0}
           inc == [g \in NodeGroup |-> IF g \notin Live THEN d.size[g]
                               ELSE IF d.size[g] > aws.size[g] THEN d.size[g] - aws.size[g] ELSE 0]
<1>1. IsFiniteSet(S) /\ IsFiniteSet(T) /\ \A g \in NodeGroup : d.size[g] \in Int
  BY FS_Subset DEF Unbuilt
<1>2. /\ \A g \in S : d.size[g] \in Nat
      /\ \A g \in T : inc[g] \in Nat
      /\ \A g \in S : d.size[g] = 0 \/ (g \in T /\ d.size[g] <= inc[g])
  BY <1>1 DEF Unbuilt, Live
<1>3. Increase(d) = Nodes(inc, T)
  BY DEF Increase
<1>4. /\ Nodes(d.size, S) <= Increase(d)
      /\ Nodes(d.size, S) \in Nat /\ Increase(d) \in Nat
  <2> HIDE DEF S, T, inc
  <2> QED BY <1>1, <1>2, <1>3, NodesGrow
<1>5. Free \in Int
  BY FreeIsInt
<1>6. CASE \A g \in NodeGroup : d.size[g] < 0
  <2>1. S = {}
    BY <1>1, <1>6 DEF Unbuilt
  <2>2. Nodes(d.size, S) = 0
    BY <2>1, NodesOfNone
  <2> QED BY <2>2 DEF Fits
<1>7. CASE ~\A g \in NodeGroup : d.size[g] < 0
  <2>1. Needed(d) \in Nat /\ Increase(d) <= Needed(d)
    BY <1>4, <1>7 DEF Needed
  <2> HIDE DEF S, T, inc
  <2> QED BY <1>4, <1>5, <2>1 DEF Fits, S
<1> QED BY <1>6, <1>7

\* Sizes stay natural numbers: a document never drops a group that it had.
LEMMA NextSizes ==
    ASSUME StagesInv, SizesAreKnown, [StagesNext]_stageVars
    PROVE  SizesAreKnown'
<1> USE DEF StagesInv, SizesAreKnown
<1>1. CASE UNCHANGED stageVars
  BY <1>1 DEF stageVars
<1>2. CASE SaveDocument
  BY <1>2 DEF SaveDocument
<1>3. CASE EditAddresses
  BY <1>3 DEF EditAddresses, Outside
<1>4. CASE UseQuota
  <2>1. UNCHANGED <<wanted, recorded, stage>>
    BY <1>4 DEF UseQuota, Outside
  <2>2. \A g \in NodeGroup : aws'.size[g] >= 0
    BY <1>4 DEF UseQuota, Outside
  <2> QED BY <2>1, <2>2
<1>5. CASE StartStage
  BY <1>5 DEF StartStage
<1>6. CASE ReadAddresses
  BY <1>6 DEF ReadAddresses
<1>7. CASE CheckQuota
  BY <1>7 DEF CheckQuota
<1>8. CASE MakePlan
  BY <1>8 DEF MakePlan, Unmade, Failed
<1>9. CASE PrepareCache \/ ApplyBase \/ ApplyCache
  <2>1. aws'.size = aws.size /\ UNCHANGED <<wanted, recorded>>
    <3>1. aws \in CloudRecord
      OBVIOUS
    <3> HIDE DEF StagesInv, SizesAreKnown, StagesTypeOK, StageRecord
    <3>2. CASE PrepareCache  BY <3>1, <3>2 DEF PrepareCache
    <3>3. CASE ApplyBase  BY <3>1, <3>3 DEF ApplyBase
    <3>4. CASE ApplyCache  BY <3>1, <3>4 DEF ApplyCache
    <3> QED BY <1>9, <3>2, <3>3, <3>4
  <2>2. \/ stage'.step = "ready"
        \/ /\ stage.step \in {"cache", "apply"} /\ stage'.step = "apply"
           /\ stage'.plan = stage.plan
           /\ stage'.waits = None
    BY <1>9 DEF PrepareCache, ApplyBase, ApplyCache, Applying
  <2> QED BY <2>1, <2>2
<1>10. CASE GroupCreated \/ Applied \/ StageFails
  BY <1>10 DEF GroupCreated, Applied, StageFails
<1>11. CASE DeleteCluster \/ CleanupEnds \/ DeleteNetwork \/ NetworkFails
  <2>1. UNCHANGED <<wanted, recorded>> /\ aws'.size = aws.size
    <3>1. aws \in CloudRecord
      OBVIOUS
    <3> HIDE DEF StagesInv, SizesAreKnown, StagesTypeOK, StageRecord
    <3>2. CASE DeleteCluster  BY <3>1, <3>2 DEF DeleteCluster
    <3>3. CASE CleanupEnds  BY <3>1, <3>3 DEF CleanupEnds
    <3>4. CASE DeleteNetwork  BY <3>1, <3>4 DEF DeleteNetwork
    <3>5. CASE NetworkFails  BY <3>1, <3>5 DEF NetworkFails
    <3> QED BY <1>11, <3>2, <3>3, <3>4, <3>5
  <2>2. stage'.step \in {"cleanup", "network", "ready"}
    BY <1>11 DEF DeleteCluster, CleanupEnds, DeleteNetwork, NetworkFails
  <2> QED BY <2>1, <2>2
<1>12. ASSUME NEW g \in NodeGroup, Settle(g) \/ Release(g) \/ Adopt(g) \/ DeleteGroup(g) \/ CleanInterface(g)
       PROVE  SizesAreKnown'
  <2>1. UNCHANGED wanted /\ aws'.size = aws.size
    <3>1. aws \in CloudRecord
      OBVIOUS
    <3> HIDE DEF StagesInv, SizesAreKnown, StagesTypeOK, StageRecord
    <3>2. CASE Settle(g)  BY <3>1, <3>2 DEF Settle
    <3>3. CASE Release(g)  BY <3>1, <3>3 DEF Release
    <3>4. CASE Adopt(g)  BY <3>1, <3>4 DEF Adopt
    <3>5. CASE DeleteGroup(g)  BY <3>1, <3>5 DEF DeleteGroup
    <3>6. CASE CleanInterface(g)  BY <3>1, <3>6 DEF CleanInterface
    <3> QED BY <1>12, <3>2, <3>3, <3>4, <3>5, <3>6
  <2>2. CASE Adopt(g)
    BY <2>1, <2>2 DEF Adopt
  <2>3. CASE Settle(g) \/ Release(g) \/ DeleteGroup(g) \/ CleanInterface(g)
    <3>1. UNCHANGED stage /\ recorded' \subseteq recorded
      BY <2>3 DEF Settle, Release, DeleteGroup, CleanInterface
    <3> QED BY <2>1, <3>1
  <2> QED BY <1>12, <2>2, <2>3
<1>13. ASSUME NEW g \in NodeGroup, CreateGroup(g)
       PROVE  SizesAreKnown'
  <2>1. CASE stage' = Ready
    <3>0. stage \in [step : {"apply"}, plan : StagePlan, waits : NodeGroup \cup {None}]
      BY <1>13 DEF CreateGroup
    <3> HIDE DEF StagesInv, SizesAreKnown
    <3>1. UNCHANGED <<wanted, aws, recorded>>
      BY <1>13, <2>1, <3>0 DEF CreateGroup
    <3> QED BY <2>1, <3>1 DEF StagesInv, SizesAreKnown
  <2>2. CASE stage' # Ready
    <3>1. /\ aws' = [aws EXCEPT !.group[g] = "CREATING", !.size[g] = stage.plan.size[g]]
          /\ stage' = [stage EXCEPT !.waits = g, !.plan.create = @ \ {g}]
          /\ stage.step = "apply" /\ g \in stage.plan.create
          /\ UNCHANGED <<wanted, recorded>>
      BY <1>13, <2>2 DEF CreateGroup
    <3>2. stage \in [step : {"apply"}, plan : StagePlan, waits : NodeGroup \cup {None}]
      BY <3>1
    <3>3. /\ stage'.step = "apply" /\ stage'.waits = g
          /\ stage'.plan.create \subseteq stage.plan.create /\ stage'.plan.size = stage.plan.size
      BY <3>1, <3>2
    <3>4. \A h \in NodeGroup : aws'.size[h] >= 0
      BY <3>1, <3>2
    <3> QED BY <3>1, <3>3, <3>4
  <2> QED BY <2>1, <2>2
<1> QED BY <1>1, <1>2, <1>3, <1>4, <1>5, <1>6, <1>7, <1>8, <1>9, <1>10, <1>11, <1>12, <1>13 DEF StagesNext

\* What was checked still fits while nothing new exists and nothing is used up.
LEMMA RoomStays ==
    ASSUME StagesInv, StagesInv', SizesAreKnown, SizesAreKnown', RoomIsChecked, RoomIsLeft,
           UNCHANGED stage, Live' = Live, aws'.others = aws.others, stale => stale',
           \A g \in NodeGroup : aws'.group[g] \in {"CREATING", "ACTIVE"} =>
               aws.group[g] \in {"CREATING", "ACTIVE"} /\ aws'.size[g] <= aws.size[g]
    PROVE  RoomIsChecked' /\ RoomIsLeft'
<1>1. Free \in Int /\ Free' \in Int /\ Free <= Free'
  BY FreeGrows DEF StagesInv
<1>2. ASSUME NEW n \in Nat, Fits(n) PROVE n = 0 \/ n <= Free'
  BY <1>1, <1>2 DEF Fits
<1>3. ASSUME stage.step = "plan", ~stale' PROVE RoomIsChecked'
  <2> DEFINE n == Nodes(stage.copy.size, Unbuilt(stage.copy.size))
  <2>1. n \in Nat
    <3> DEFINE S == Unbuilt(stage.copy.size)
    <3>1. IsFiniteSet(S)
      BY FS_Subset DEF Unbuilt
    <3>2. \A g \in S : stage.copy.size[g] \in Nat
      BY <1>3 DEF StagesInv, Unbuilt
    <3> HIDE DEF S
    <3>3. Nodes(stage.copy.size, S) \in Nat
      BY <3>1, <3>2, NodesGrow
    <3> QED BY <3>3 DEF S
  <2>2. Fits(n)
    BY <1>3 DEF RoomIsChecked
  <2>3. Unbuilt(stage.copy.size)' = Unbuilt(stage.copy.size)
    BY DEF Unbuilt
  <2> QED BY <1>2, <2>1, <2>2, <2>3 DEF RoomIsChecked, Fits
<1>4. ASSUME stage.step = "cache", ~stale' PROVE RoomIsLeft'
  <2> DEFINE n == Nodes(stage.plan.size, stage.plan.create \ Live)
  <2>1. n \in Nat
    <3> DEFINE S == stage.plan.create \ Live
    <3>1. S \in SUBSET NodeGroup
      BY <1>4 DEF StagesInv
    <3>2. IsFiniteSet(S)
      BY <3>1, FS_Subset
    <3>3. \A g \in S : stage.plan.size[g] \in Nat
      BY <1>4, <3>1 DEF StagesInv, SizesAreKnown
    <3> HIDE DEF S
    <3>4. Nodes(stage.plan.size, S) \in Nat
      BY <3>2, <3>3, NodesGrow
    <3> QED BY <3>4 DEF S
  <2>2. Fits(n)
    BY <1>4 DEF RoomIsLeft, Fits
  <2> QED BY <1>2, <2>1, <2>2 DEF RoomIsLeft
<1> QED BY <1>3, <1>4 DEF RoomIsChecked, RoomIsLeft

\* The quota check, and the plan that is made of what it let pass.
LEMMA RoomIsFound ==
    ASSUME StagesInv, SizesAreKnown, RoomIsChecked, CheckQuota \/ MakePlan
    PROVE  RoomIsChecked' /\ RoomIsLeft'
<1>1. Live' = Live /\ UNCHANGED <<aws, wanted>>
  BY DEF CheckQuota, MakePlan, Live
<1>2. Free' = Free
  BY <1>1 DEF Free, InUse
<1>3. CASE CheckQuota
  <2>1. stage'.step # "cache"
    BY <1>3 DEF CheckQuota
  <2>2. ASSUME stage'.step = "plan", ~stale' PROVE RoomIsChecked'
    <3>1. /\ Needed(stage.copy) = 0 \/ Needed(stage.copy) <= Free
          /\ stage'.copy = stage.copy /\ stage.copy \in Wish
      BY <1>3, <2>2 DEF CheckQuota, StagesInv
    <3>2. Fits(Nodes(stage.copy.size, Unbuilt(stage.copy.size)))
      BY <3>1, NeededCovers DEF StagesInv
    <3>3. Unbuilt(stage.copy.size)' = Unbuilt(stage.copy.size)
      BY <1>1, <3>1 DEF Unbuilt
    <3> QED BY <1>2, <3>1, <3>2, <3>3 DEF RoomIsChecked, Fits
  <2> QED BY <2>1, <2>2 DEF RoomIsChecked, RoomIsLeft
<1>4. CASE MakePlan
  <2>1. stage'.step # "plan"
    BY <1>4 DEF MakePlan
  <2>2. ASSUME stage'.step = "cache", ~stale' PROVE RoomIsLeft'
    <3>1. /\ stage'.plan.size = wanted.size /\ stage'.plan.create = Unmade \cup Failed
          /\ stage.step = "plan" /\ ~stale
      BY <1>4, <2>2 DEF MakePlan
    <3>2. stage.copy = wanted
      BY <3>1 DEF StagesInv, CopyIsCurrent
    <3>3. stage'.plan.create \ Live = Unbuilt(wanted.size)
      BY <3>1 DEF Unmade, Failed, Unbuilt
    <3>4. Fits(Nodes(wanted.size, Unbuilt(wanted.size)))
      BY <3>1, <3>2 DEF RoomIsChecked
    <3> QED BY <1>1, <1>2, <3>1, <3>3, <3>4 DEF RoomIsLeft, Fits
  <2> QED BY <2>1, <2>2 DEF RoomIsChecked, RoomIsLeft
<1> QED BY <1>3, <1>4

\* The invariant of the quota is inductive.
LEMMA NextRoom ==
    ASSUME StagesInv, RoomInv, [StagesNext]_stageVars
    PROVE  RoomInv'
<1>1. StagesInv' /\ SizesAreKnown'
  BY NextStages, NextSizes DEF RoomInv
<1>2. SUFFICES RoomIsChecked' /\ RoomIsLeft'
  BY <1>1 DEF RoomInv
<1> USE DEF RoomInv
<1>3. CASE UNCHANGED stageVars
  BY <1>1, <1>3, RoomStays DEF stageVars, Live, StagesInv
<1>4. CASE SaveDocument
  <2>1. stage'.step = "ready" \/ stale'
    <3>1. CASE stage = Ready  BY <1>4, <3>1 DEF SaveDocument
    <3>2. CASE stage # Ready  BY <1>4, <3>2 DEF SaveDocument
    <3> QED BY <3>1, <3>2
  <2> QED BY <2>1 DEF RoomIsChecked, RoomIsLeft
<1>5. CASE EditAddresses
  <2>1. UNCHANGED <<stage, stale>>
    BY <1>5 DEF EditAddresses, Outside
  <2>2. aws'.group = aws.group /\ aws'.size = aws.size /\ aws'.others = aws.others
    BY <1>5 DEF EditAddresses, StagesInv
  <2>3. Live' = Live /\ \A g \in NodeGroup : aws'.size[g] <= aws.size[g]
    BY <2>2 DEF Live, StagesInv
  <2> QED BY <1>1, <2>1, <2>2, <2>3, RoomStays
<1>6. CASE UseQuota
  <2>1. UNCHANGED stage /\ (stale => stale')
    BY <1>6 DEF UseQuota, Outside, StagesInv
  <2>2. CASE stale'
    BY <2>2 DEF RoomIsChecked, RoomIsLeft
  <2>3. CASE ~stale'
    <3>1. PICK g \in NodeGroup, n \in 0 .. MaxSize :
                aws' = [aws EXCEPT !.size[g] = n] /\ ~(n > aws.size[g])
      BY <1>6, <2>3 DEF UseQuota, StagesInv
    <3>2. /\ aws'.group = aws.group /\ aws'.others = aws.others
          /\ \A h \in NodeGroup : aws'.size[h] <= aws.size[h]
      BY <3>1 DEF StagesInv
    <3>3. Live' = Live
      BY <3>2 DEF Live
    <3>4. \A h \in NodeGroup : aws'.group[h] = aws.group[h]
      BY <3>2
    <3>5. \A h \in NodeGroup : aws'.group[h] \in {"CREATING", "ACTIVE"} =>
              aws.group[h] \in {"CREATING", "ACTIVE"} /\ aws'.size[h] <= aws.size[h]
      BY <3>2, <3>4
    <3>6. aws'.others = aws.others /\ (stale => stale') /\ UNCHANGED stage
      BY <2>1, <3>2
    <3>7. StagesInv' /\ SizesAreKnown'
      BY <1>1
    <3> HIDE DEF StagesInv, SizesAreKnown, RoomIsLeft, RoomIsChecked
    <3> QED BY <3>3, <3>5, <3>6, <3>7, RoomStays
  <2> QED BY <2>2, <2>3
<1>7. ASSUME NEW g \in NodeGroup, Settle(g) \/ Release(g)
      PROVE  RoomIsChecked' /\ RoomIsLeft'
  <2>1. UNCHANGED <<stage, stale>> /\ aws'.size = aws.size /\ aws'.others = aws.others
    <3>1. CASE Settle(g)  BY <3>1 DEF Settle, StagesInv
    <3>2. CASE Release(g)  BY <3>2 DEF Release, StagesInv
    <3> QED BY <1>7, <3>1, <3>2
  <2>2. \A h \in NodeGroup : /\ aws'.group[h] \in {"CREATING", "ACTIVE"}
                                => aws.group[h] \in {"CREATING", "ACTIVE"}
                             /\ aws'.group[h] = None <=> aws.group[h] = None
    <3>1. CASE Settle(g)
      <4>1. \/ aws' = [aws EXCEPT !.group[g] = "ACTIVE", !.interface[g] = "in-use"]
            \/ aws' = [aws EXCEPT !.group[g] = "CREATE_FAILED"]
        BY <3>1 DEF Settle
      <4>2. \E status \in {"ACTIVE", "CREATE_FAILED"} : aws'.group = [aws.group EXCEPT ![g] = status]
        <5>1. CASE aws' = [aws EXCEPT !.group[g] = "ACTIVE", !.interface[g] = "in-use"]
          BY <5>1 DEF StagesInv
        <5>2. CASE aws' = [aws EXCEPT !.group[g] = "CREATE_FAILED"]
          BY <5>2 DEF StagesInv
        <5> QED BY <4>1, <5>1, <5>2
      <4>3. aws.group[g] = "CREATING" /\ aws.group \in [NodeGroup -> GroupStatus]
        BY <3>1 DEF Settle, StagesInv
      <4> QED BY <4>2, <4>3
    <3>2. CASE Release(g)
      <4>1. aws'.group = aws.group
        BY <3>2 DEF Release, StagesInv
      <4> QED BY <4>1
    <3> QED BY <1>7, <3>1, <3>2
  <2>3. Live' = Live
    BY <2>2 DEF Live
  <2>4. \A h \in NodeGroup : aws'.size[h] <= aws.size[h]
    BY <2>1 DEF StagesInv
  <2> QED BY <1>1, <2>1, <2>2, <2>3, <2>4, RoomStays
<1>8. CASE CheckQuota \/ MakePlan
  BY <1>8, RoomIsFound
<1>9. CASE \/ StartStage \/ ReadAddresses \/ PrepareCache \/ ApplyBase \/ ApplyCache
           \/ GroupCreated \/ Applied \/ StageFails
  <2>1. stage'.step \notin {"plan", "cache"}
    BY <1>9 DEF StartStage, ReadAddresses, PrepareCache, Applying, ApplyBase, ApplyCache,
       GroupCreated, Applied, StageFails, StagesInv
  <2> QED BY <2>1 DEF RoomIsChecked, RoomIsLeft
<1>10. CASE DeleteCluster \/ CleanupEnds \/ DeleteNetwork \/ NetworkFails
  <2>1. stage'.step \notin {"plan", "cache"}
    BY <1>10 DEF DeleteCluster, CleanupEnds, DeleteNetwork, NetworkFails, StagesInv
  <2> QED BY <2>1 DEF RoomIsChecked, RoomIsLeft
<1>11. ASSUME NEW g \in NodeGroup, Adopt(g) \/ CreateGroup(g) \/ DeleteGroup(g) \/ CleanInterface(g)
       PROVE  RoomIsChecked' /\ RoomIsLeft'
  <2>1. stage'.step \notin {"plan", "cache"}
    <3>1. CASE Adopt(g)  BY <3>1 DEF Adopt, StagesInv
    <3>2. CASE CreateGroup(g)
      <4>1. stage \in [step : {"apply"}, plan : StagePlan, waits : NodeGroup \cup {None}]
        BY <3>2 DEF CreateGroup, StagesInv
      <4>2. stage' = Ready \/ stage' = [stage EXCEPT !.waits = g, !.plan.create = @ \ {g}]
        BY <3>2 DEF CreateGroup
      <4>3. stage'.step = "ready" \/ stage'.step = stage.step
        <5>1. CASE stage' = Ready  BY <5>1
        <5>2. CASE stage' = [stage EXCEPT !.waits = g, !.plan.create = @ \ {g}]
          <6>1. stage' = [step |-> "apply", plan |-> [stage.plan EXCEPT !.create = @ \ {g}], waits |-> g]
            BY <4>1, <5>2
          <6> QED BY <4>1, <6>1
        <5> QED BY <4>2, <5>1, <5>2
      <4> QED BY <4>1, <4>3
    <3>3. CASE DeleteGroup(g) \/ CleanInterface(g)  BY <3>3 DEF DeleteGroup, CleanInterface
    <3> QED BY <1>11, <3>1, <3>2, <3>3
  <2> QED BY <2>1 DEF RoomIsChecked, RoomIsLeft
<1> QED
  BY <1>3, <1>4, <1>5, <1>6, <1>7, <1>8, <1>9, <1>10, <1>11 DEF StagesNext

\* Before the first job there is no plan.
LEMMA InitRoom ==
    ASSUME StagesInit
    PROVE  RoomInv
<1>1. stage.step = "ready" /\ recorded = {} /\ \A g \in NodeGroup : aws.size[g] = 0
  BY DEF StagesInit
<1> QED BY <1>1 DEF RoomInv, SizesAreKnown, RoomIsChecked, RoomIsLeft

\* The new groups of every plan that is applied fit into the quota, unless the document was
\* saved or the quota used up after the job had read them.
THEOREM RoomIsLeftHolds ==
    StagesSpec => []RoomIsLeft
<1>1. RoomInv => RoomIsLeft
  BY DEF RoomInv
<1> QED BY InitRoom, NextRoom, StagesInvariant, <1>1, PTL DEF StagesSpec

-------------------------------------------------------------------------------
(* Ingresses.  What the editor made its own exists, and no position of the *)
(* rules stands for it.                                                    *)

HIDE StagesAssumption DEF None, Ready, NoCache, Status
HIDE DEF StagesTypeOK, GroupStatus, CloudRecord, Wish, StagePlan, Kinds, StageRecord, Continues, Refused
USE DEF NoRequest

\* The editor writes what no rule named, as the step before has seen.
EditsAreFit ==
    /\ editor.step \in {"idle", "check", "compare", "write"}
    /\ editor.step # "idle" =>
          /\ {"step", "name", "ingress"} \subseteq DOMAIN editor /\ editor.name \in Name
          /\ editor.ingress # Absent => "version" \in DOMAIN editor.ingress
    /\ editor.step \in {"compare", "write"} => "named" \in DOMAIN editor /\ editor.named = FALSE

\* An ingress of the editor's own exists, and no position of the rules stands for it.
ManualIsNobodys == manual \cap Tracked = {} /\ \A n \in manual : live[n] # Absent

RoutesInv ==
    /\ DOMAIN live = Name /\ DOMAIN keys = 1 .. MaxRules /\ manual \subseteq Name /\ revision \in Nat
    /\ EditsAreFit /\ ManualIsNobodys

\* An ingress that was written has a version, so that it exists.
LEMMA WrittenExists ==
    ASSUME RoutesInv, NEW n, NEW ingress, Write(n, ingress)
    PROVE  /\ DOMAIN live' = Name /\ revision' \in Nat
           /\ \A m \in Name : m # n => live'[m] = live[m]
           /\ n \in Name /\ ingress # Absent /\ "version" \in DOMAIN ingress => live'[n] # Absent
<1>1. /\ live' = [live EXCEPT ![n] = IF ingress = Absent THEN Absent
                                     ELSE [ingress EXCEPT !.version = revision + 1]]
      /\ revision' = revision + 1
  BY DEF Write
<1>2. DOMAIN live' = Name /\ revision' \in Nat /\ \A m \in Name : m # n => live'[m] = live[m]
  BY <1>1 DEF RoutesInv
<1>3. ASSUME n \in Name, ingress # Absent, "version" \in DOMAIN ingress
      PROVE  live'[n] # Absent
  <2>1. live'[n] = [ingress EXCEPT !.version = revision + 1]
    BY <1>1, <1>3 DEF RoutesInv
  <2>2. live'[n].version = revision + 1
    BY <1>3, <2>1
  <2>3. Absent.version = 0 /\ revision \in Nat
    BY DEF Absent, RoutesInv
  <2> QED
    BY <2>2, <2>3
<1> QED
  BY <1>2, <1>3

\* A position that gets a name tracks that name besides.
LEMMA TrackedAfter ==
    ASSUME NEW k, NEW n, keys' = [keys EXCEPT ![k] = n]
    PROVE  Tracked' \subseteq Tracked \cup ({n} \ {"none"})
BY DEF Tracked

\* A form is opened with the name of an ingress and the version it has.
LEMMA OpenEditorRoute ==
    ASSUME RoutesInv, NEW n \in Name, OpenEditor(n)
    PROVE  RoutesInv'
<1>1. UNCHANGED <<live, keys, revision, manual>>
  BY DEF OpenEditor
<1>2. PICK h \in (IF live[n] = Absent THEN Host ELSE {live[n].host}), R \in RouteSet :
        \E ingress \in {[host |-> h, routes |-> R, version |-> live[n].version], Absent} :
          editor' = [step |-> "check", name |-> n, base |-> live[n].version, ingress |-> ingress]
  BY DEF OpenEditor
<1>3. PICK ingress \in {[host |-> h, routes |-> R, version |-> live[n].version], Absent} :
        editor' = [step |-> "check", name |-> n, base |-> live[n].version, ingress |-> ingress]
  BY <1>2
<1>4. EditsAreFit'
  BY <1>3 DEF EditsAreFit
<1>5. ManualIsNobodys'
  BY <1>1 DEF RoutesInv, ManualIsNobodys, Tracked
<1> QED
  BY <1>1, <1>4, <1>5 DEF RoutesInv

\* The checks of a request leave the cluster alone, and pass what no rule names.
LEMMA CheckEditRoute ==
    ASSUME RoutesInv, CheckEdit \/ CompareEdit
    PROVE  RoutesInv'
<1>0. CheckEdit \/ CompareEdit
  OBVIOUS
<1>1. UNCHANGED <<live, keys, revision, manual>>
  BY DEF CheckEdit, CompareEdit, EditorIs
<1>2. EditsAreFit'
  <2>1. CASE editor' = NoRequest
    BY <2>1 DEF EditsAreFit
  <2>2. CASE CheckEdit /\ editor' # NoRequest
    <3>1. editor.step = "check" /\ Nobodys(editor.name)
      BY <2>2 DEF CheckEdit, EditorIs
    <3>2. editor' = [step |-> "compare", name |-> editor.name, base |-> editor.base,
                     ingress |-> editor.ingress, named |-> editor.name \in Named(domains)]
      BY <2>2 DEF CheckEdit, EditorIs
    <3>3. (editor.name \in Named(domains)) = FALSE
      BY <3>1 DEF Nobodys
    <3> QED
      BY <3>1, <3>2, <3>3 DEF RoutesInv, EditsAreFit
  <2>3. CASE CompareEdit /\ editor' # NoRequest
    <3>1. editor.step = "compare" /\ editor' = [editor EXCEPT !.step = "write"]
      BY <2>3 DEF CompareEdit, EditorIs
    <3> QED
      BY <3>1 DEF RoutesInv, EditsAreFit
  <2> QED
    BY <1>0, <2>1, <2>2, <2>3
<1>3. ManualIsNobodys'
  BY <1>1 DEF RoutesInv, ManualIsNobodys, Tracked
<1> QED
  BY <1>1, <1>2, <1>3 DEF RoutesInv

\* The editor makes an ingress its own only when no position stands for it.
LEMMA WriteEditRoute ==
    ASSUME RoutesInv, WriteEdit
    PROVE  RoutesInv'
<1> DEFINE n == editor.name
<1>1. /\ editor' = NoRequest /\ UNCHANGED keys /\ Write(n, editor.ingress)
      /\ manual' = IF editor.ingress = Absent \/ (n \in Tracked /\ ~editor.named)
                   THEN manual \ {n} ELSE manual \cup {n}
  BY DEF WriteEdit, EditorIs
<1>2. /\ n \in Name /\ editor.named = FALSE
      /\ editor.ingress # Absent => "version" \in DOMAIN editor.ingress
  BY DEF WriteEdit, RoutesInv, EditsAreFit
<1>3. /\ DOMAIN live' = Name /\ revision' \in Nat
      /\ \A m \in Name : m # n => live'[m] = live[m]
      /\ editor.ingress # Absent => live'[n] # Absent
  BY <1>1, <1>2, WrittenExists
<1>4. EditsAreFit'
  BY <1>1 DEF EditsAreFit
<1>5. ManualIsNobodys' /\ manual' \subseteq Name
  <2>1. Tracked' = Tracked
    BY <1>1 DEF Tracked
  <2>2. manual \subseteq Name /\ ManualIsNobodys
    BY DEF RoutesInv
  <2>3. CASE editor.ingress = Absent \/ n \in Tracked
    BY <1>1, <1>2, <1>3, <2>1, <2>2, <2>3 DEF ManualIsNobodys
  <2>4. CASE editor.ingress # Absent /\ n \notin Tracked
    BY <1>1, <1>2, <1>3, <2>1, <2>2, <2>4 DEF ManualIsNobodys
  <2> QED
    BY <2>3, <2>4
<1> QED
  BY <1>1, <1>3, <1>4, <1>5 DEF RoutesInv

\* Phase two deletes what one of its positions stands for, which is nobody's own.
LEMMA DeleteIngressRoute ==
    ASSUME RoutesInv, NEW k \in 1 .. MaxRules, DeleteIngress(k)
    PROVE  RoutesInv' /\ \A n \in manual : live'[n] = live[n]
<1>1. /\ Write(keys[k], Absent) /\ manual' = manual \ {keys[k]} /\ UNCHANGED editor
      /\ keys[k] # "none" /\ keys' = [keys EXCEPT ![k] = "none"]
  BY DEF DeleteIngress
<1>2. DOMAIN live' = Name /\ revision' \in Nat /\ \A m \in Name : m # keys[k] => live'[m] = live[m]
  BY <1>1, WrittenExists
<1>3. keys[k] \in Tracked
  BY <1>1 DEF Tracked, RoutesInv
<1>4. keys[k] \notin manual /\ manual \subseteq Name
  BY <1>3 DEF RoutesInv, ManualIsNobodys
<1>5. Tracked' \subseteq Tracked
  BY <1>1, TrackedAfter
<1>6. ManualIsNobodys'
  BY <1>1, <1>2, <1>4, <1>5 DEF RoutesInv, ManualIsNobodys
<1>7. EditsAreFit'
  BY <1>1 DEF RoutesInv, EditsAreFit
<1> QED
  BY <1>1, <1>2, <1>4, <1>6, <1>7 DEF RoutesInv

\* Phase two creates what does not exist, or writes what one of its positions stands for.
LEMMA PutIngressRoute ==
    ASSUME RoutesInv, NEW k \in 1 .. MaxRules, PutIngress(k)
    PROVE  RoutesInv' /\ \A n \in manual : live'[n] = live[n]
<1> DEFINE n == deployment.rules[k].name
<1>1. CASE UNCHANGED <<live, keys, revision, manual>>
  <2>1. UNCHANGED editor
    BY DEF PutIngress, DeploymentIs
  <2> QED
    BY <1>1, <2>1 DEF RoutesInv, EditsAreFit, ManualIsNobodys, Tracked
<1>2. CASE ~UNCHANGED <<live, keys, revision, manual>>
  <2>1. /\ keys[k] \in {"none", n} /\ ~(keys[k] = "none" /\ live[n] # Absent)
        /\ Write(n, [host |-> deployment.rules[k].host, routes |-> deployment.rules[k].routes, version |-> 0])
        /\ keys' = [keys EXCEPT ![k] = n] /\ manual' = manual \ {n} /\ UNCHANGED editor
    BY <1>2 DEF PutIngress, DeploymentIs
  <2>2. DOMAIN live' = Name /\ revision' \in Nat /\ \A m \in Name : m # n => live'[m] = live[m]
    BY <2>1, WrittenExists
  <2>3. n \notin manual /\ manual \subseteq Name
    <3>1. CASE keys[k] = "none"
      BY <2>1, <3>1 DEF RoutesInv, ManualIsNobodys
    <3>2. CASE keys[k] # "none"
      <4>1. n \in Tracked
        BY <2>1, <3>2 DEF Tracked, RoutesInv
      <4> QED
        BY <4>1 DEF RoutesInv, ManualIsNobodys
    <3> QED
      BY <3>1, <3>2 DEF RoutesInv
  <2>4. Tracked' \subseteq Tracked \cup {n}
    <3>1. keys' = [keys EXCEPT ![k] = n]
      BY <2>1
    <3> HIDE DEF n
    <3> QED
      BY <3>1, TrackedAfter
  <2>5. ManualIsNobodys'
    BY <2>1, <2>2, <2>3, <2>4 DEF RoutesInv, ManualIsNobodys
  <2>6. EditsAreFit'
    BY <2>1 DEF RoutesInv, EditsAreFit
  <2> QED
    BY <2>1, <2>2, <2>3, <2>5, <2>6 DEF RoutesInv
<1> QED
  BY <1>1, <1>2

\* What reads and drops the listing, what synchronises, and phase two before its first change.
ListingStep == Expire \/ ReadIngresses \/ IngressesRead
SyncStep == StartSync \/ TakeListing \/ LoadRules \/ SaveSynced \/ SyncReturns
PlanningStep == StartDeployment \/ StoreDocument \/ PlanDeployment \/ DeploymentEnds

\* None of them, nor a save, writes an ingress.
LEMMA WritesNoIngress ==
    ASSUME ListingStep \/ SyncStep \/ SaveDomains \/ PlanningStep
    PROVE  UNCHANGED <<live, keys, editor, revision, manual>>
<1>1. CASE ListingStep \/ SaveDomains
  BY <1>1 DEF ListingStep, Expire, ReadIngresses, IngressesRead, SaveDomains
<1>2. CASE SyncStep
  BY <1>2 DEF SyncStep, StartSync, TakeListing, LoadRules, SaveSynced, SyncReturns, SyncIs
<1>3. CASE PlanningStep
  BY <1>3 DEF PlanningStep, StartDeployment, StoreDocument, PlanDeployment, DeploymentEnds, DeploymentIs
<1> QED BY <1>1, <1>2, <1>3

\* The invariant is inductive: one lemma for each action that writes an ingress.
LEMMA RoutesStep ==
    RoutesInv /\ [RoutesNext]_routeVars => RoutesInv'
<1> SUFFICES ASSUME RoutesInv, [RoutesNext]_routeVars
             PROVE  RoutesInv'
  OBVIOUS
<1>1. CASE \/ ListingStep \/ SyncStep \/ SaveDomains \/ PlanningStep \/ UNCHANGED routeVars
  <2>1. UNCHANGED <<live, keys, editor, revision, manual>>
    BY <1>1, WritesNoIngress DEF routeVars
  <2> QED
    BY <2>1 DEF RoutesInv, EditsAreFit, ManualIsNobodys, Tracked
<1>2. CASE \/ \E n \in Name : OpenEditor(n)
           \/ CheckEdit \/ CompareEdit \/ WriteEdit
           \/ \E k \in 1 .. MaxRules : DeleteIngress(k) \/ PutIngress(k)
  BY <1>2, OpenEditorRoute, CheckEditRoute, WriteEditRoute, DeleteIngressRoute, PutIngressRoute
<1> QED
  BY <1>1, <1>2 DEF RoutesNext, ListingStep, SyncStep, PlanningStep

\* At the start nothing was written by the editor.
LEMMA RoutesStart ==
    RoutesInit => RoutesInv
BY DEF RoutesInit, RoutesInv, EditsAreFit, ManualIsNobodys

\* While phase two runs it neither overwrites nor deletes an ingress that the editor wrote
\* while no rule and no state had it.
THEOREM ManualChangesStayHolds ==
    RoutesSpec => ManualChangesStay
<1>1. RoutesInv /\ [RoutesNext]_routeVars
      => [deployment # NoRequest /\ editor' = editor => \A n \in manual : live'[n] = live[n]]_routeVars
  <2> SUFFICES ASSUME RoutesInv, RoutesNext, editor' = editor, NEW n \in manual
               PROVE  live'[n] = live[n]
    OBVIOUS
  <2>1. CASE \E k \in 1 .. MaxRules : DeleteIngress(k) \/ PutIngress(k)
    BY <2>1, DeleteIngressRoute, PutIngressRoute
  <2>2. CASE WriteEdit
    BY <2>2 DEF WriteEdit, EditorIs
  <2>3. CASE CheckEdit \/ CompareEdit \/ \E m \in Name : OpenEditor(m)
    BY <2>3 DEF OpenEditor, CheckEdit, CompareEdit, EditorIs
  <2>4. CASE ListingStep \/ SyncStep \/ SaveDomains \/ PlanningStep
    BY <2>4, WritesNoIngress
  <2> QED
    BY <2>1, <2>2, <2>3, <2>4 DEF RoutesNext, ListingStep, SyncStep, PlanningStep
<1> QED
  BY <1>1, RoutesStart, RoutesStep, PTL DEF RoutesSpec, ManualChangesStay

-------------------------------------------------------------------------------
(* Synchronisation.  The routes of a host after it, by the elements of the *)
(* two sequences of rules that it concatenates.                            *)

\* The positions of a sequence that are chosen have a least one.
LEMMA LeastPosition ==
    ASSUME NEW n \in Nat, NEW I \in SUBSET (1 .. n), I # {}
    PROVE  Min(I) \in I
<1> DEFINE Bad == {1 .. i : i \in I}
           P == 1 .. n
<1>1. IsFiniteSet(P)
  BY FS_Interval
<1>2. Bad \in SUBSET SUBSET P /\ Bad # {}
  <2>1. ASSUME NEW i \in I PROVE 1 .. i \in SUBSET (1 .. n)
    OBVIOUS
  <2>2. PICK i \in I : TRUE
    OBVIOUS
  <2>3. 1 .. i \in Bad
    OBVIOUS
  <2> QED BY <2>1, <2>3
<1>3. PICK s \in Bad : \A t \in Bad : ~(t \subseteq s /\ t # s)
  <2> HIDE DEF Bad, P
  <2> QED BY <1>1, <1>2, LeastSubset
<1>4. PICK i \in I : s = 1 .. i
  BY <1>3
<1>5. ASSUME NEW j \in I, j < i PROVE FALSE
  <2>1. 1 .. j \subseteq 1 .. i /\ i \in 1 .. i /\ i \notin 1 .. j
    BY <1>5
  <2>2. 1 .. j \in Bad
    OBVIOUS
  <2> HIDE DEF Bad
  <2> QED BY <1>3, <1>4, <2>1, <2>2
<1>6. \A j \in I : i <= j
  BY <1>5
<1> QED BY <1>4, <1>6 DEF Min

\* The ascending order lists every position once.
LEMMA AscendingLists ==
    ASSUME NEW n \in Nat, NEW I \in SUBSET (1 .. n)
    PROVE  /\ Cardinality(I) \in Nat
           /\ Ascending(I) \in [1 .. Cardinality(I) -> I]
           /\ \A i \in I : \E j \in 1 .. Cardinality(I) : Ascending(I)[j] = i
<1> DEFINE c == Cardinality(I)
           Below(i) == {m \in I : m <= i}
           rank == [i \in I |-> Cardinality(Below(i))]
<1>1. IsFiniteSet(I) /\ c \in Nat
  <2>1. IsFiniteSet(1 .. n)
    BY FS_Interval
  <2>2. IsFiniteSet(I)
    BY <2>1, FS_Subset
  <2> QED BY <2>2, FS_CardinalityType
<1>2. ASSUME NEW i \in I PROVE rank[i] \in 1 .. c
  <2> DEFINE B == {m \in I : m <= i}
  <2>1. i \in B /\ B \in SUBSET I
    OBVIOUS
  <2>2. IsFiniteSet(B) /\ Cardinality(B) <= c /\ Cardinality(B) \in Nat
    BY <1>1, FS_Subset, FS_CardinalityType
  <2>3. Cardinality(B) # 0
    BY <2>1, <2>2, FS_EmptySet
  <2> QED BY <1>1, <2>2, <2>3
<1>3. ASSUME NEW i \in I, NEW k \in I, i < k PROVE rank[i] # rank[k]
  <2> DEFINE A == {m \in I : m <= i}
             B == {m \in I : m <= k}
  <2>1. A \in SUBSET B /\ A # B
    <3>1. k \in B /\ k \notin A
      BY <1>3
    <3>2. \A m \in I : m <= i => m <= k
      BY <1>3
    <3> QED BY <3>1, <3>2
  <2>2. IsFiniteSet(B)
    BY <1>1, FS_Subset
  <2>3. Cardinality(A) # Cardinality(B)
    <3> HIDE DEF A, B
    <3> QED BY <2>1, <2>2, FS_Subset
  <2> QED BY <2>3
<1>4. ASSUME NEW i \in I, NEW k \in I, rank[i] = rank[k] PROVE i = k
  <2>1. i \in Int /\ k \in Int
    OBVIOUS
  <2>2. ~(i < k) /\ ~(k < i)
    BY <1>3, <1>4
  <2> QED BY <2>1, <2>2
<1>5. rank \in Injection(I, 1 .. c)
  <2>1. rank \in [I -> 1 .. c]
    BY <1>2
  <2> HIDE DEF rank, c
  <2> QED BY <1>4, <2>1 DEF Injection, IsInjective
<1>6. IsFiniteSet(1 .. c) /\ Cardinality(1 .. c) = c
  BY <1>1, FS_Interval
<1>7. rank \in Surjection(I, 1 .. c)
  <2> HIDE DEF rank, c
  <2>1. Cardinality(I) = c
    BY DEF c
  <2> QED BY <1>5, <1>6, <2>1, FS_Injection
<1>8. \A j \in 1 .. c : \E i \in I : rank[i] = j
  <2> HIDE DEF rank, c
  <2> QED BY <1>7 DEF Surjection
<1>9. Ascending(I) = [j \in 1 .. c |-> CHOOSE i \in I : Cardinality(Below(i)) = j]
  BY DEF Ascending
<1>10. \A j \in 1 .. c : Ascending(I)[j] \in I /\ rank[Ascending(I)[j]] = j
  <2>1. \A i \in I : rank[i] = Cardinality(Below(i))
    OBVIOUS
  <2>2. ASSUME NEW j \in 1 .. c
        PROVE  Ascending(I)[j] \in I /\ Cardinality(Below(Ascending(I)[j])) = j
    <3>1. \E i \in I : Cardinality(Below(i)) = j
      <4> HIDE DEF rank, c, Below
      <4> QED BY <1>8, <2>1
    <3>2. Ascending(I)[j] = CHOOSE i \in I : Cardinality(Below(i)) = j
      <4> HIDE DEF rank, c, Below
      <4> QED BY <1>9
    <3> HIDE DEF rank, c, Below
    <3> QED BY <3>1, <3>2
  <2> HIDE DEF rank, c, Below
  <2> QED BY <2>1, <2>2
<1>11. ASSUME NEW i \in I PROVE \E j \in 1 .. c : Ascending(I)[j] = i
  <2>1. rank[i] \in 1 .. c
    BY <1>2
  <2>2. rank[Ascending(I)[rank[i]]] = rank[i] /\ Ascending(I)[rank[i]] \in I
    <3> HIDE DEF rank, c
    <3> QED BY <1>10, <2>1
  <2> HIDE DEF rank, c
  <2> QED BY <1>4, <2>1, <2>2
<1>12. Ascending(I) \in [1 .. c -> I]
  <2> HIDE DEF rank, c, Below
  <2> QED BY <1>9, <1>10
<1> QED BY <1>1, <1>11, <1>12

\* A list of a finite set has every element.
LEMMA ListedLists ==
    ASSUME NEW S, IsFiniteSet(S)
    PROVE  /\ Cardinality(S) \in Nat
           /\ Listed(S) \in [1 .. Cardinality(S) -> S]
           /\ \A x \in S : \E j \in 1 .. Cardinality(S) : Listed(S)[j] = x
<1>1. Cardinality(S) \in Nat /\ ExistsBijection(1 .. Cardinality(S), S)
  BY FS_CardinalityType
<1>2. Listed(S) \in Bijection(1 .. Cardinality(S), S)
  BY <1>1 DEF Listed, ExistsBijection
<1>3. Listed(S) \in Surjection(1 .. Cardinality(S), S)
  BY <1>2 DEF Bijection
<1> QED BY <1>1, <1>3 DEF Surjection

USE RulesAssumption

\* A rule, a listing of the cluster, and what a sequence contains.
DomainRule == [name : Name, host : Host, routes : SUBSET Route]
Listing == [Name -> [host : Host \cup {"none"}, routes : SUBSET Route, version : Nat]]
Elements(s) == {s[i] : i \in DOMAIN s}

\* A concatenation has the elements of both sequences.
LEMMA ConcatElements ==
    ASSUME NEW T, NEW s \in Seq(T), NEW t \in Seq(T)
    PROVE  s \o t \in Seq(T) /\ Elements(s \o t) = Elements(s) \cup Elements(t)
<1>1. /\ s \o t \in Seq(T) /\ Len(s \o t) = Len(s) + Len(t)
      /\ \A i \in 1 .. Len(s) + Len(t) : (s \o t)[i] = IF i <= Len(s) THEN s[i] ELSE t[i - Len(s)]
  BY ConcatProperties
<1>2. Len(s) \in Nat /\ Len(t) \in Nat /\ DOMAIN s = 1 .. Len(s) /\ DOMAIN t = 1 .. Len(t)
      /\ DOMAIN (s \o t) = 1 .. Len(s) + Len(t)
  BY <1>1
<1>3. ASSUME NEW i \in 1 .. Len(s) PROVE s[i] \in Elements(s \o t)
  <2>1. i \in 1 .. Len(s) + Len(t) /\ (s \o t)[i] = s[i]
    BY <1>1, <1>2
  <2> QED BY <1>2, <2>1 DEF Elements
<1>4. ASSUME NEW i \in 1 .. Len(t) PROVE t[i] \in Elements(s \o t)
  <2>1. i + Len(s) \in 1 .. Len(s) + Len(t) /\ (s \o t)[i + Len(s)] = t[i]
    BY <1>1, <1>2
  <2> QED BY <1>2, <2>1 DEF Elements
<1>5. ASSUME NEW i \in 1 .. Len(s) + Len(t) PROVE (s \o t)[i] \in Elements(s) \cup Elements(t)
  <2>1. CASE i <= Len(s)
    BY <1>1, <1>2, <2>1 DEF Elements
  <2>2. CASE ~(i <= Len(s))
    <3>1. i - Len(s) \in 1 .. Len(t)
      BY <1>2, <2>2
    <3> QED BY <1>1, <1>2, <2>2, <3>1 DEF Elements
  <2> QED BY <2>1, <2>2
<1> QED BY <1>1, <1>2, <1>3, <1>4, <1>5 DEF Elements

\* The routes of a host are those of the rules that name it, whatever their order.
LEMMA WantedOfElements ==
    ASSUME NEW d, NEW h
    PROVE  Wanted(d, h) = UNION {r.routes : r \in {x \in Elements(d) : x.host = h}}
BY DEF Wanted, RulesOf, Elements

\* A synchronisation changes nothing of a rule but its routes.
LEMMA NewRuleIsRule ==
    ASSUME NEW d \in Seq(DomainRule), NEW l \in Listing, NEW i \in DOMAIN d
    PROVE  /\ NewRule(d, l, i) \in DomainRule
           /\ NewRule(d, l, i).host = d[i].host
           /\ NewRule(d, l, i).routes =
                 LET h == d[i].host
                 IN  IF ~Rewritten(d, l, h) THEN d[i].routes
                     ELSE IF ClusterWins(d, l, h) THEN Actual(l, h) ELSE Wanted(d, h)
<1> DEFINE h == d[i].host
<1>1. d[i] \in DomainRule
  BY ElementOfSeq
<1>2. Actual(l, h) \in SUBSET Route
  BY DEF Actual, IngressesOf, Listing
<1>3. Wanted(d, h) \in SUBSET Route
  <2>1. \A j \in DOMAIN d : d[j] \in DomainRule
    BY ElementOfSeq
  <2> QED BY <2>1 DEF Wanted, RulesOf, DomainRule
<1>4. CASE ~Rewritten(d, l, h)
  BY <1>1, <1>4 DEF NewRule
<1>5. CASE Rewritten(d, l, h)
  <2> DEFINE R == IF ClusterWins(d, l, h) THEN Actual(l, h) ELSE Wanted(d, h)
  <2>1. NewRule(d, l, i) = [d[i] EXCEPT !.routes = R]
    BY <1>5 DEF NewRule
  <2>2. R \in SUBSET Route
    BY <1>2, <1>3
  <2>3. R = IF ClusterWins(d, l, h) THEN Actual(l, h) ELSE Wanted(d, h)
    OBVIOUS
  <2> HIDE DEF R
  <2>4. NewRule(d, l, i) \in DomainRule /\ NewRule(d, l, i).host = h /\ NewRule(d, l, i).routes = R
    BY <1>1, <2>1, <2>2 DEF DomainRule
  <2> QED BY <1>5, <2>3, <2>4
<1> QED BY <1>4, <1>5

\* A host of the cluster that has no rule gets one.
LEMMA ImportedIsRule ==
    ASSUME NEW l \in Listing, NEW h \in Host
    PROVE  /\ Imported(l, h) \in DomainRule
           /\ Imported(l, h).host = h /\ Imported(l, h).routes = Actual(l, h)
<1>1. Actual(l, h) \in SUBSET Route /\ h \in Name
  BY DEF Actual, IngressesOf, Listing
<1>2. Cardinality(IngressesOf(l, h)) = 1 => (CHOOSE n \in IngressesOf(l, h) : TRUE) \in Name
  <2>1. Cardinality({}) = 0
    BY FS_EmptySet
  <2>2. Cardinality(IngressesOf(l, h)) = 1 => IngressesOf(l, h) # {}
    BY <2>1
  <2>3. IngressesOf(l, h) \subseteq Name
    BY DEF IngressesOf
  <2> QED BY <2>2, <2>3
<1>3. Imported(l, h).name \in Name /\ Imported(l, h).host = h /\ Imported(l, h).routes = Actual(l, h)
  BY <1>1, <1>2 DEF Imported
<1>4. Imported(l, h) = [name |-> Imported(l, h).name, host |-> h, routes |-> Actual(l, h)]
  BY DEF Imported
<1> QED BY <1>1, <1>3, <1>4 DEF DomainRule

\* Hosts that only the cluster serves.
NewHosts(d, l) == {h \in Host : RulesOf(d, h) = {} /\ Actual(l, h) # {} /\ ~Clash(Actual(l, h))}

\* The rules after a synchronisation: those that stay and those of new hosts.
LEMMA SyncedElements ==
    ASSUME NEW d \in Seq(DomainRule), NEW l \in Listing
    PROVE  /\ Synced(d, l) \in Seq(DomainRule)
           /\ Elements(Synced(d, l)) =
                 {NewRule(d, l, i) : i \in {k \in DOMAIN d : RuleStays(d, l, k)}}
                 \cup {Imported(l, h) : h \in NewHosts(d, l)}
<1> DEFINE I == {i \in DOMAIN d : RuleStays(d, l, i)}
           stay == Ascending(I)
           s == [j \in DOMAIN stay |-> NewRule(d, l, stay[j])]
           new == {Imported(l, h) : h \in NewHosts(d, l)}
           t == Listed(new)
<1>1. Synced(d, l) = s \o t
  BY DEF Synced, NewHosts
<1>2. /\ Cardinality(I) \in Nat /\ stay \in [1 .. Cardinality(I) -> I]
      /\ \A i \in I : \E j \in 1 .. Cardinality(I) : stay[j] = i
  <2>1. Len(d) \in Nat /\ I \in SUBSET (1 .. Len(d))
    OBVIOUS
  <2> HIDE DEF I
  <2> QED BY <2>1, AscendingLists
<1>3. s \in Seq(DomainRule) /\ Elements(s) = {NewRule(d, l, i) : i \in I}
  <2>1. \A i \in I : NewRule(d, l, i) \in DomainRule
    BY NewRuleIsRule
  <2>2. DOMAIN s = 1 .. Cardinality(I) /\ \A j \in 1 .. Cardinality(I) : s[j] = NewRule(d, l, stay[j])
    BY <1>2
  <2>3. s \in [1 .. Cardinality(I) -> DomainRule]
    <3> HIDE DEF I, stay
    <3> QED BY <1>2, <2>1
  <2>4. s \in Seq(DomainRule)
    <3> HIDE DEF I, stay, s
    <3> QED BY <1>2, <2>3
  <2> HIDE DEF I, stay, s
  <2>5. Elements(s) = {NewRule(d, l, i) : i \in I}
    BY <1>2, <2>2 DEF Elements
  <2> QED BY <2>4, <2>5
<1>4. new \in SUBSET DomainRule /\ IsFiniteSet(new)
  <2>1. new \in SUBSET DomainRule
    BY ImportedIsRule DEF NewHosts
  <2>2. IsFiniteSet(NewHosts(d, l))
    BY FS_Subset DEF NewHosts
  <2>3. IsFiniteSet(new)
    <3> DEFINE f == [h \in NewHosts(d, l) |-> Imported(l, h)]
    <3>1. f \in Surjection(NewHosts(d, l), new)
      BY DEF Surjection
    <3> HIDE DEF f, new
    <3> QED BY <2>2, <3>1, FS_Surjection
  <2> QED BY <2>1, <2>3
<1>5. t \in Seq(DomainRule) /\ Elements(t) = new
  <2> HIDE DEF new
  <2>1. /\ Cardinality(new) \in Nat /\ t \in [1 .. Cardinality(new) -> new]
        /\ \A x \in new : \E j \in 1 .. Cardinality(new) : t[j] = x
    BY <1>4, ListedLists
  <2>2. t \in [1 .. Cardinality(new) -> DomainRule]
    BY <1>4, <2>1
  <2> HIDE DEF t
  <2> QED BY <2>1, <2>2 DEF Elements
<1> HIDE DEF s, t
<1>6. s \o t \in Seq(DomainRule) /\ Elements(s \o t) = Elements(s) \cup Elements(t)
  BY <1>3, <1>5, ConcatElements
<1> QED BY <1>1, <1>3, <1>5, <1>6

\* What a synchronisation makes of the routes of a host.
LEMMA SyncedRoutes ==
    ASSUME NEW d \in Seq(DomainRule), NEW l \in Listing, NEW h \in Host
    PROVE  Wanted(Synced(d, l), h) =
              IF RulesOf(d, h) = {} THEN IF Clash(Actual(l, h)) THEN {} ELSE Actual(l, h)
              ELSE IF Rewritten(d, l, h) /\ ClusterWins(d, l, h) THEN Actual(l, h)
              ELSE Wanted(d, h)
<1> DEFINE I == {k \in DOMAIN d : RuleStays(d, l, k)}
           E == {NewRule(d, l, i) : i \in I} \cup {Imported(l, k) : k \in NewHosts(d, l)}
<1>1. Wanted(Synced(d, l), h) = UNION {r.routes : r \in {x \in E : x.host = h}}
  BY SyncedElements, WantedOfElements
<1>2. CASE RulesOf(d, h) = {}
  <2>1. \A i \in I : NewRule(d, l, i).host # h
    BY <1>2, NewRuleIsRule DEF RulesOf
  <2>2. \A k \in NewHosts(d, l) : Imported(l, k).host = k /\ Imported(l, k).routes = Actual(l, k)
    BY ImportedIsRule DEF NewHosts
  <2>3. CASE h \in NewHosts(d, l)
    <3>1. {x \in E : x.host = h} = {Imported(l, h)}
      BY <2>1, <2>2, <2>3
    <3> QED BY <1>1, <1>2, <2>2, <2>3, <3>1 DEF NewHosts
  <2>4. CASE h \notin NewHosts(d, l)
    <3>1. {x \in E : x.host = h} = {}
      BY <2>1, <2>2, <2>4
    <3>2. Actual(l, h) = {} \/ Clash(Actual(l, h))
      BY <1>2, <2>4 DEF NewHosts
    <3>3. ~Clash({})
      BY DEF Clash
    <3> QED BY <1>1, <1>2, <3>1, <3>2, <3>3
  <2> QED BY <2>3, <2>4
<1>3. CASE RulesOf(d, h) # {}
  <2>1. \A k \in NewHosts(d, l) : Imported(l, k).host # h
    BY <1>3, ImportedIsRule DEF NewHosts
  <2>2. {x \in E : x.host = h} = {NewRule(d, l, i) : i \in {k \in I : d[k].host = h}}
    BY <2>1, NewRuleIsRule
  <2>3. CASE ~Rewritten(d, l, h)
    <3>1. {k \in I : d[k].host = h} = RulesOf(d, h)
      BY <2>3 DEF RulesOf, RuleStays
    <3>2. \A i \in RulesOf(d, h) : NewRule(d, l, i).routes = d[i].routes
      BY <2>3, NewRuleIsRule DEF RulesOf
    <3>3. Wanted(Synced(d, l), h) = UNION {NewRule(d, l, i).routes : i \in RulesOf(d, h)}
      BY <1>1, <2>2, <3>1
    <3> QED BY <1>3, <2>3, <3>2, <3>3 DEF Wanted
  <2>4. CASE Rewritten(d, l, h)
    <3>1. Min(RulesOf(d, h)) \in RulesOf(d, h)
      <4>1. Len(d) \in Nat /\ RulesOf(d, h) \in SUBSET (1 .. Len(d))
        BY DEF RulesOf
      <4> QED BY <1>3, <4>1, LeastPosition
    <3>2. {k \in I : d[k].host = h} = {Min(RulesOf(d, h))}
      BY <2>4, <3>1 DEF RulesOf, RuleStays
    <3>3. Wanted(Synced(d, l), h) = NewRule(d, l, Min(RulesOf(d, h))).routes
      BY <1>1, <2>2, <3>2
    <3>4. Min(RulesOf(d, h)) \in DOMAIN d /\ d[Min(RulesOf(d, h))].host = h
      BY <3>1 DEF RulesOf
    <3> QED BY <1>3, <2>4, <3>3, <3>4, NewRuleIsRule
  <2> QED BY <2>3, <2>4
<1> QED BY <1>2, <1>3

\* A second synchronisation with the same cluster gives no host other routes than the first.
THEOREM SyncIsIdempotent ==
    ASSUME NEW d \in Seq(DomainRule), NEW l \in Listing, NEW h \in Host
    PROVE  Wanted(Synced(Synced(d, l), l), h) = Wanted(Synced(d, l), h)
<1> DEFINE e == Synced(d, l)
           a == Actual(l, h)
           w == Wanted(d, h)
           x == Wanted(e, h)
<1>1. e \in Seq(DomainRule)
  BY SyncedElements
<1>2. x = IF RulesOf(d, h) = {} THEN IF Clash(a) THEN {} ELSE a
          ELSE IF Rewritten(d, l, h) /\ ClusterWins(d, l, h) THEN a ELSE w
  BY SyncedRoutes
<1>3. Wanted(Synced(e, l), h) = IF RulesOf(e, h) = {} THEN IF Clash(a) THEN {} ELSE a
                                ELSE IF Rewritten(e, l, h) /\ ClusterWins(e, l, h) THEN a ELSE x
  BY <1>1, SyncedRoutes
<1>4. RulesOf(e, h) = {} => x = {}
  BY DEF Wanted
<1>5. Rewritten(e, l, h) /\ ClusterWins(e, l, h) => x # a /\ a # {} /\ ~Clash(a) /\ ~Clash(x)
  BY DEF Rewritten, ClusterWins
<1>6. RulesOf(d, h) # {} /\ ~Clash(w) /\ a \notin {{}, w} /\ ~Clash(a)
      => Rewritten(d, l, h) /\ ClusterWins(d, l, h)
  BY DEF Rewritten, ClusterWins
<1>7. RulesOf(e, h) = {} => RulesOf(d, h) = {} /\ (a = {} \/ Clash(a))
  <2> DEFINE E == {NewRule(d, l, i) : i \in {k \in DOMAIN d : RuleStays(d, l, k)}}
                  \cup {Imported(l, k) : k \in NewHosts(d, l)}
  <2>1. Elements(e) = E
    BY SyncedElements
  <2>2. ASSUME NEW r \in E, r.host = h PROVE RulesOf(e, h) # {}
    <3>1. r \in Elements(e)
      BY <2>1
    <3> HIDE DEF e, E
    <3> QED BY <2>2, <3>1 DEF Elements, RulesOf
  <2>3. RulesOf(d, h) = {} /\ a # {} /\ ~Clash(a) => h \in NewHosts(d, l)
    BY DEF NewHosts
  <2>4. h \in NewHosts(d, l) => Imported(l, h) \in E /\ Imported(l, h).host = h
    BY ImportedIsRule
  <2>5. ASSUME RulesOf(d, h) # {} PROVE \E r \in E : r.host = h
    <3>1. Min(RulesOf(d, h)) \in RulesOf(d, h)
      <4>1. Len(d) \in Nat /\ RulesOf(d, h) \in SUBSET (1 .. Len(d))
        BY DEF RulesOf
      <4> QED BY <2>5, <4>1, LeastPosition
    <3>2. Min(RulesOf(d, h)) \in DOMAIN d /\ d[Min(RulesOf(d, h))].host = h
      BY <3>1 DEF RulesOf
    <3>3. RuleStays(d, l, Min(RulesOf(d, h)))
      BY <3>2 DEF RuleStays
    <3> QED BY <3>2, <3>3, NewRuleIsRule
  <2> QED BY <2>2, <2>3, <2>4, <2>5
<1>8. ~Clash({})
  BY DEF Clash
<1> HIDE DEF e, a, w, x
<1>9. ASSUME RulesOf(e, h) = {} PROVE Wanted(Synced(e, l), h) = x
  BY <1>2, <1>3, <1>4, <1>7, <1>9
<1>10. ASSUME RulesOf(e, h) # {} PROVE Wanted(Synced(e, l), h) = x
  BY <1>2, <1>3, <1>5, <1>6, <1>10
<1> QED BY <1>9, <1>10 DEF e, a, w, x

\* A request carries an ingress, or asks for its removal.
EditorType ==
    editor.step # "idle" =>
        editor.ingress \in [host : Host \cup {"none"}, routes : SUBSET Route, version : Nat]

\* A synchronisation carries the listing and then the rules it has read.
SyncType ==
    \/ sync = NoRequest
    \/ sync \in [step : {"list"}, since : Nat]
    \/ sync \in [step : {"load"}, since : Nat, listing : Listing]
    \/ sync \in [step : {"save"}, since : Nat, listing : Listing, rules : Seq(DomainRule)]

\* A job carries the document that it stores, and then the one that Terraform read.
DeploymentType ==
    \/ deployment \in {NoRequest, [step |-> "plan"]}
    \/ deployment \in [step : {"store"}, rules : Seq(DomainRule)]
    \/ deployment \in [step : {"apply"}, rules : Seq(DomainRule), todo : SUBSET (1 .. MaxRules)]

\* Every rule and every ingress names a host and routes of it; so does what is kept of them.
RouteTypes ==
    /\ domains \in Seq(DomainRule) /\ live \in Listing /\ revision \in Nat /\ renewed \in Nat
    /\ cached \in SUBSET Listing /\ loading \in SUBSET Listing
    /\ SyncType /\ EditorType /\ DeploymentType

\* What is written is an ingress or none.
LEMMA WriteTypes ==
    ASSUME RouteTypes, NEW n,
           NEW ingress \in [host : Host \cup {"none"}, routes : SUBSET Route, version : Nat],
           Write(n, ingress)
    PROVE  live' \in Listing /\ revision' \in Nat
<1>1. Absent \in [host : Host \cup {"none"}, routes : SUBSET Route, version : Nat]
  BY DEF Absent
<1>2. revision \in Nat /\ live \in Listing
  BY DEF RouteTypes
<1>3. [ingress EXCEPT !.version = revision + 1] \in [host : Host \cup {"none"}, routes : SUBSET Route, version : Nat]
  BY <1>2
<1> QED BY <1>1, <1>2, <1>3 DEF Write, Listing

\* A form sends rules.
LEMMA SaveDomainsTypes ==
    ASSUME NEW d \in Documents
    PROVE  d \in Seq(DomainRule)
<1>1. Rule \subseteq DomainRule
  BY DEF Rule, RouteSet, DomainRule
<1>2. PICK n \in 0 .. MaxRules : d \in [1 .. n -> Rule]
  BY DEF Documents
<1>3. n \in Nat /\ d \in [1 .. n -> DomainRule]
  BY <1>1, <1>2
<1> HIDE DEF DomainRule
<1> QED BY <1>3

\* The types are kept by what reads and drops the listing, and by saves.
LEMMA ListingTypes ==
    ASSUME RouteTypes, ListingStep \/ SaveDomains
    PROVE  RouteTypes'
<1>1. CASE Expire
  <2>1. renewed' \in Nat /\ UNCHANGED loading
    BY <1>1 DEF Expire, Renew, RouteTypes
  <2> QED BY <1>1, <2>1 DEF Expire, RouteTypes, SyncType, EditorType, DeploymentType
<1>2. CASE ReadIngresses
  BY <1>2 DEF ReadIngresses, RouteTypes, SyncType, EditorType, DeploymentType
<1>3. CASE IngressesRead
  <2>1. SyncType'
    <3>1. CASE \E l \in loading : sync.step = "list" /\ HasListing(l)
      <4>1. PICK l \in Listing : sync.step = "list" /\ HasListing(l)
        BY <3>1 DEF RouteTypes
      <4>2. sync.since \in Nat
        BY <4>1 DEF RouteTypes, SyncType, NoRequest
      <4> QED BY <4>1, <4>2 DEF HasListing, SyncType
    <3>2. CASE sync' \in {sync, NoRequest}
      BY <3>2 DEF RouteTypes, SyncType
    <3> QED BY <1>3, <3>1, <3>2 DEF IngressesRead
  <2>2. UNCHANGED <<domains, live, editor, deployment, revision, renewed>> /\ loading' = {} /\ cached' \in {cached, loading}
    BY <1>3 DEF IngressesRead
  <2> QED BY <2>1, <2>2 DEF RouteTypes, EditorType, DeploymentType
<1>4. CASE SaveDomains
  <2>1. domains' \in Seq(DomainRule)
    BY <1>4, SaveDomainsTypes DEF SaveDomains
  <2>2. renewed' \in Nat /\ UNCHANGED loading /\ cached' = {}
    BY <1>4 DEF SaveDomains, Renew, Forget, RouteTypes
  <2> QED BY <1>4, <2>1, <2>2 DEF SaveDomains, RouteTypes, SyncType, EditorType, DeploymentType
<1> QED BY <1>1, <1>2, <1>3, <1>4 DEF ListingStep

\* ... by a synchronisation ...
LEMMA SyncTypes ==
    ASSUME RouteTypes, SyncStep
    PROVE  RouteTypes'
<1>1. UNCHANGED <<live, editor, deployment, revision>>
  BY DEF SyncStep, StartSync, TakeListing, LoadRules, SaveSynced, SyncReturns, SyncIs
<1>2. CASE SaveSynced
  <2>1. sync.listing \in Listing /\ sync.rules \in Seq(DomainRule)
    BY <1>2 DEF SaveSynced, RouteTypes, SyncType, NoRequest
  <2>2. domains' \in Seq(DomainRule)
    BY <1>2, <2>1, SyncedElements DEF SaveSynced
  <2>3. renewed' \in Nat /\ UNCHANGED loading /\ cached' = {} /\ sync' = NoRequest
    BY <1>1, <1>2 DEF SaveSynced, Renew, Forget, RouteTypes
  <2> QED BY <1>1, <2>2, <2>3 DEF RouteTypes, SyncType, EditorType, DeploymentType
<1>3. CASE StartSync \/ TakeListing \/ LoadRules \/ SyncReturns
  <2>1. UNCHANGED <<domains, cached, loading, renewed>>
    BY <1>3 DEF StartSync, TakeListing, LoadRules, SyncReturns, listingVars
  <2>2. SyncType'
    <3>1. CASE StartSync
      BY <3>1 DEF StartSync, RouteTypes, SyncType
    <3>2. CASE TakeListing
      <4>1. PICK l \in Listing : sync.step = "list" /\ HasListing(l)
        BY <3>2 DEF TakeListing, RouteTypes
      <4>2. sync.since \in Nat
        BY <4>1 DEF RouteTypes, SyncType, NoRequest
      <4> QED BY <4>1, <4>2 DEF HasListing, SyncType
    <3>3. CASE LoadRules
      <4>1. sync.since \in Nat /\ sync.listing \in Listing /\ domains \in Seq(DomainRule)
        BY <3>3 DEF LoadRules, RouteTypes, SyncType, NoRequest
      <4> QED BY <3>3, <4>1 DEF LoadRules, SyncType
    <3>4. CASE SyncReturns
      BY <3>4 DEF SyncReturns, SyncType
    <3> QED BY <1>3, <3>1, <3>2, <3>3, <3>4
  <2> QED BY <1>1, <2>1, <2>2 DEF RouteTypes, EditorType, DeploymentType
<1> QED BY <1>2, <1>3 DEF SyncStep

\* ... by a job before its first change ...
LEMMA PlanningTypes ==
    ASSUME RouteTypes, PlanningStep, DOMAIN keys = 1 .. MaxRules
    PROVE  RouteTypes'
<1>1. UNCHANGED <<live, cached, loading, renewed, sync, editor, revision>>
  BY DEF PlanningStep, StartDeployment, StoreDocument, PlanDeployment, DeploymentEnds, DeploymentIs,
     listingVars
<1>2. domains \in Seq(DomainRule)
  BY DEF RouteTypes
<1>3. domains' \in Seq(DomainRule) /\ DeploymentType'
  <2> HIDE DEF DomainRule
  <2>1. CASE StartDeployment
    BY <1>2, <2>1 DEF StartDeployment, DeploymentType
  <2>2. CASE StoreDocument
    <3>1. deployment.rules \in Seq(DomainRule)
      BY <2>2 DEF StoreDocument, RouteTypes, DeploymentType, NoRequest
    <3> QED BY <2>2, <3>1 DEF StoreDocument, DeploymentType
  <2>3. CASE PlanDeployment
    BY <1>2, <2>3 DEF PlanDeployment, DeploymentIs, DeploymentType
  <2>4. CASE DeploymentEnds
    BY <1>2, <2>4 DEF DeploymentEnds, DeploymentIs, DeploymentType
  <2> QED BY <2>1, <2>2, <2>3, <2>4 DEF PlanningStep
<1> QED BY <1>1, <1>3 DEF RouteTypes, SyncType, EditorType

\* ... by the editor ...
LEMMA EditingTypes ==
    ASSUME RouteTypes, (\E n \in Name : OpenEditor(n)) \/ CheckEdit \/ CompareEdit \/ WriteEdit
    PROVE  RouteTypes'
<1> DEFINE Ingress == [host : Host \cup {"none"}, routes : SUBSET Route, version : Nat]
<1>1. UNCHANGED <<domains, sync, deployment>>
  BY DEF OpenEditor, CheckEdit, CompareEdit, WriteEdit, EditorIs
<1>2. ASSUME NEW n \in Name, OpenEditor(n) PROVE RouteTypes'
  <2>1. UNCHANGED <<live, cached, loading, renewed, revision>>
    BY <1>2 DEF OpenEditor, listingVars
  <2>2. live[n] \in Ingress /\ Absent \in Ingress
    BY DEF RouteTypes, Listing, Absent
  <2>3. PICK h \in (IF live[n] = Absent THEN Host ELSE {live[n].host}), R \in RouteSet :
          \E ingress \in {[host |-> h, routes |-> R, version |-> live[n].version], Absent} :
            editor' = [step |-> "check", name |-> n, base |-> live[n].version, ingress |-> ingress]
    BY <1>2 DEF OpenEditor
  <2>4. [host |-> h, routes |-> R, version |-> live[n].version] \in Ingress
    BY <2>2 DEF RouteSet
  <2>5. PICK ingress \in Ingress :
          editor' = [step |-> "check", name |-> n, base |-> live[n].version, ingress |-> ingress]
    BY <2>2, <2>3, <2>4
  <2>6. EditorType'
    BY <2>5 DEF EditorType
  <2> QED BY <1>1, <2>1, <2>6 DEF RouteTypes, SyncType, DeploymentType
<1>3. CASE CheckEdit \/ CompareEdit
  <2>1. UNCHANGED <<live, cached, loading, renewed, revision>>
    BY <1>3 DEF CheckEdit, CompareEdit, listingVars
  <2>2. editor.step # "idle" /\ (editor'.ingress = editor.ingress \/ editor'.step = "idle")
    <3>1. CASE CheckEdit
      BY <3>1 DEF CheckEdit, EditorIs, NoRequest
    <3>2. CASE CompareEdit
      BY <3>2 DEF CompareEdit, EditorIs, NoRequest
    <3> QED BY <1>3, <3>1, <3>2
  <2> QED BY <1>1, <2>1, <2>2 DEF RouteTypes, SyncType, EditorType, DeploymentType
<1>4. CASE WriteEdit
  <2>1. editor.ingress \in Ingress /\ Write(editor.name, editor.ingress)
    BY <1>4 DEF WriteEdit, RouteTypes, EditorType
  <2>2. live' \in Listing /\ revision' \in Nat
    BY <2>1, WriteTypes
  <2>3. editor'.step = "idle" /\ UNCHANGED loading /\ cached' \in {{}, cached} /\ renewed' \in {renewed, revision'}
    BY <1>4 DEF WriteEdit, EditorIs, Forget, Renew, listingVars, NoRequest
  <2> QED BY <1>1, <2>2, <2>3 DEF RouteTypes, SyncType, EditorType, DeploymentType
<1> QED BY <1>2, <1>3, <1>4

\* ... and by phase two.
LEMMA ApplyTypes ==
    ASSUME RouteTypes, NEW k \in 1 .. MaxRules, DeleteIngress(k) \/ PutIngress(k)
    PROVE  RouteTypes'
<1> DEFINE Phase == [step : {"apply"}, rules : Seq(DomainRule), todo : SUBSET (1 .. MaxRules)]
           Ingress == [host : Host \cup {"none"}, routes : SUBSET Route, version : Nat]
<1>1. UNCHANGED <<domains, cached, loading, renewed, sync, editor>>
  BY DEF DeleteIngress, PutIngress, DeploymentIs, listingVars
<1>2. deployment \in Phase
  BY DEF DeleteIngress, PutIngress, RouteTypes, DeploymentType, NoRequest
<1>3. CASE DeleteIngress(k)
  <2>1. Absent \in Ingress /\ Write(keys[k], Absent)
    BY <1>3 DEF DeleteIngress, Absent
  <2>2. live' \in Listing /\ revision' \in Nat
    BY <2>1, WriteTypes
  <2>3. deployment' \in Phase
    <3>1. deployment' = deployment \/ deployment' = [deployment EXCEPT !.todo = @ \ {k}]
      BY <1>3 DEF DeleteIngress
    <3> QED BY <1>2, <3>1
  <2> QED BY <1>1, <2>2, <2>3 DEF RouteTypes, SyncType, EditorType, DeploymentType
<1>4. CASE PutIngress(k)
  <2>1. k \in DOMAIN deployment.rules
    BY <1>4 DEF PutIngress
  <2>2. CASE deployment' = NoRequest /\ UNCHANGED <<live, revision>>
    BY <1>1, <2>2 DEF RouteTypes, SyncType, EditorType, DeploymentType
  <2>3. CASE ~(deployment' = NoRequest /\ UNCHANGED <<live, revision>>)
    <3> DEFINE rule == deployment.rules[k]
               ingress == [host |-> rule.host, routes |-> rule.routes, version |-> 0]
    <3>1. Write(rule.name, ingress) /\ deployment' = [deployment EXCEPT !.todo = @ \ {k}]
      BY <1>4, <2>3 DEF PutIngress, DeploymentIs
    <3>2. rule \in DomainRule
      <4>1. deployment.rules \in Seq(DomainRule)
        BY <1>2
      <4> QED BY <2>1, <4>1, ElementOfSeq
    <3>3. ingress \in Ingress
      BY <3>2 DEF DomainRule
    <3>4. live' \in Listing /\ revision' \in Nat
      <4> HIDE DEF ingress, rule
      <4> QED BY <3>1, <3>3, WriteTypes
    <3>5. deployment' \in Phase
      BY <1>2, <3>1
    <3> QED BY <1>1, <3>4, <3>5 DEF RouteTypes, SyncType, EditorType, DeploymentType
  <2> QED BY <2>2, <2>3
<1> QED BY <1>3, <1>4

\* The types are kept by every action.
LEMMA RouteTypesStep ==
    ASSUME RouteTypes, [RoutesNext]_routeVars, DOMAIN keys = 1 .. MaxRules
    PROVE  RouteTypes'
<1>1. CASE UNCHANGED routeVars
  BY <1>1 DEF routeVars, listingVars, RouteTypes, SyncType, EditorType, DeploymentType
<1>2. CASE RoutesNext
  BY <1>2, ListingTypes, SyncTypes, PlanningTypes, EditingTypes, ApplyTypes
     DEF RoutesNext, ListingStep, SyncStep, PlanningStep
<1> QED BY <1>1, <1>2

\* At the start a document has at most one rule, and nothing is kept.
LEMMA RouteTypesStart ==
    ASSUME RoutesInit
    PROVE  RouteTypes
<1>1. domains \in Seq(DomainRule)
  <2>1. Rule \subseteq DomainRule
    BY DEF Rule, RouteSet, DomainRule
  <2>2. domains = <<>> \/ \E r \in Rule : domains = <<r>>
    BY DEF RoutesInit
  <2>3. ASSUME NEW r \in DomainRule PROVE <<r>> \in Seq(DomainRule)
    <3> HIDE DEF DomainRule
    <3> QED OBVIOUS
  <2>4. <<>> \in Seq(DomainRule)
    OBVIOUS
  <2> HIDE DEF DomainRule
  <2> QED BY <2>1, <2>2, <2>3, <2>4
<1>2. live \in Listing
  BY DEF RoutesInit, Listing, Absent, RouteSet
<1> QED BY <1>1, <1>2 DEF RoutesInit, RouteTypes, SyncType, EditorType, DeploymentType

\* Nothing that is kept or being read is older than the last drop that nobody read across,
\* and neither is what a synchronisation has that began after it.
ListingsAreRecent ==
    /\ renewed <= revision
    /\ renewed = revision => \A l \in cached \cup loading : l = live
    /\ sync # NoRequest => sync.since <= renewed
    /\ sync.step \in {"load", "save"} /\ sync.since = revision => sync.listing = live

\* A change of the cluster makes every listing old that is not dropped with it.
LEMMA WritingKeepsRecent ==
    ASSUME RouteTypes, ListingsAreRecent, revision' = revision + 1, UNCHANGED <<loading, sync>>,
           \/ UNCHANGED <<cached, renewed>>
           \/ Forget /\ Renew
    PROVE  ListingsAreRecent'
<1>1. renewed \in Nat /\ revision \in Nat /\ renewed <= revision
  BY DEF RouteTypes, ListingsAreRecent
<1>2. sync # NoRequest => sync.since \in Nat /\ sync.since <= renewed
  BY DEF RouteTypes, SyncType, ListingsAreRecent
<1>3. sync.step \in {"load", "save"} => sync # NoRequest
  BY DEF NoRequest
<1>4. CASE UNCHANGED <<cached, renewed>>
  BY <1>1, <1>2, <1>3, <1>4 DEF ListingsAreRecent
<1>5. CASE Forget /\ Renew /\ loading = {}
  BY <1>1, <1>2, <1>3, <1>5 DEF ListingsAreRecent, Forget, Renew
<1>6. CASE Forget /\ Renew /\ loading # {}
  BY <1>1, <1>2, <1>3, <1>6 DEF ListingsAreRecent, Forget, Renew
<1> QED BY <1>4, <1>5, <1>6

\* What drops the listing without a change of the cluster makes the next one due now.
LEMMA DroppingKeepsRecent ==
    ASSUME RouteTypes, ListingsAreRecent, Forget, Renew, UNCHANGED <<live, revision>>, sync' \in {sync, NoRequest}
    PROVE  ListingsAreRecent'
<1>1. renewed \in Nat /\ revision \in Nat /\ renewed <= revision
  BY DEF RouteTypes, ListingsAreRecent
<1>2. sync # NoRequest => sync.since \in Nat /\ sync.since <= renewed
  BY DEF RouteTypes, SyncType, ListingsAreRecent
<1>3. renewed' \in {renewed, revision} /\ renewed <= renewed' /\ renewed' <= revision
  BY <1>1 DEF Renew
<1>4. renewed' = revision => \A l \in cached' \cup loading' : l = live
  BY DEF Forget, Renew, ListingsAreRecent
<1>5. sync' # NoRequest => sync'.since <= renewed'
  BY <1>1, <1>2, <1>3
<1>6. sync'.step \in {"load", "save"} /\ sync'.since = revision => sync'.listing = live
  BY DEF ListingsAreRecent, NoRequest
<1> QED BY <1>3, <1>4, <1>5, <1>6 DEF ListingsAreRecent

\* A synchronisation that takes a listing takes a recent one.
LEMMA TakingKeepsRecent ==
    ASSUME RouteTypes, ListingsAreRecent, NEW l \in cached \cup loading, sync.step = "list", HasListing(l),
           UNCHANGED <<live, revision, renewed>>, cached' \cup loading' \subseteq cached \cup loading
    PROVE  ListingsAreRecent'
<1>1. renewed \in Nat /\ revision \in Nat /\ renewed <= revision
  BY DEF RouteTypes, ListingsAreRecent
<1>2. sync.since \in Nat /\ sync.since <= renewed
  BY DEF RouteTypes, SyncType, ListingsAreRecent, NoRequest
<1>3. sync'.since = sync.since /\ sync'.listing = l
  BY DEF HasListing
<1>4. sync.since = revision => l = live
  BY <1>1, <1>2 DEF ListingsAreRecent
<1> QED BY <1>1, <1>2, <1>3, <1>4 DEF ListingsAreRecent

\* Every listing stays as recent as it has to be.
LEMMA ListingsAreRecentStep ==
    ASSUME RouteTypes, ListingsAreRecent, [RoutesNext]_routeVars
    PROVE  ListingsAreRecent'
<1>1. CASE UNCHANGED <<live, revision, cached, loading, renewed, sync>>
  BY <1>1 DEF ListingsAreRecent
<1>2. CASE \/ UNCHANGED routeVars \/ PlanningStep \/ CheckEdit \/ CompareEdit
           \/ \E n \in Name : OpenEditor(n)
  <2>1. UNCHANGED <<live, revision, cached, loading, renewed, sync>>
    BY <1>2 DEF routeVars, listingVars, PlanningStep, StartDeployment, StoreDocument, PlanDeployment,
       DeploymentEnds, DeploymentIs, CheckEdit, CompareEdit, EditorIs, OpenEditor
  <2> QED BY <1>1, <2>1
<1>3. CASE WriteEdit \/ \E k \in 1 .. MaxRules : DeleteIngress(k) \/ PutIngress(k)
  <2>1. CASE WriteEdit
    <3>1. revision' = revision + 1 /\ UNCHANGED <<loading, sync>>
      BY <2>1 DEF WriteEdit, Write, EditorIs, Renew, listingVars
    <3>2. UNCHANGED <<cached, renewed>> \/ (Forget /\ Renew)
      BY <2>1 DEF WriteEdit, listingVars
    <3> QED BY <3>1, <3>2, WritingKeepsRecent
  <2>2. ASSUME NEW k \in 1 .. MaxRules, DeleteIngress(k) \/ PutIngress(k) PROVE ListingsAreRecent'
    <3>1. UNCHANGED <<cached, loading, renewed, sync>>
      BY <2>2 DEF DeleteIngress, PutIngress, DeploymentIs, listingVars
    <3>2. revision' = revision + 1 \/ UNCHANGED <<live, revision>>
      BY <2>2 DEF DeleteIngress, PutIngress, Write
    <3> QED BY <1>1, <3>1, <3>2, WritingKeepsRecent
  <2> QED BY <1>3, <2>1, <2>2
<1>4. CASE Expire \/ SaveDomains \/ SaveSynced
  <2>1. Forget /\ Renew /\ UNCHANGED <<live, revision>> /\ sync' \in {sync, NoRequest}
    BY <1>4 DEF Expire, SaveDomains, SaveSynced, SyncIs, Forget
  <2> QED BY <2>1, DroppingKeepsRecent
<1>5. CASE ReadIngresses
  BY <1>5 DEF ReadIngresses, ListingsAreRecent
<1>6. CASE IngressesRead
  <2>1. /\ UNCHANGED <<live, revision, renewed>>
        /\ cached' \cup loading' \subseteq cached \cup loading
    BY <1>6 DEF IngressesRead
  <2>2. \/ sync' \in {sync, NoRequest}
        \/ \E l \in loading : sync.step = "list" /\ HasListing(l)
    BY <1>6 DEF IngressesRead
  <2>3. CASE sync' \in {sync, NoRequest}
    BY <2>1, <2>3 DEF ListingsAreRecent, NoRequest
  <2> QED BY <2>1, <2>2, <2>3, TakingKeepsRecent
<1>7. CASE TakeListing
  <2>1. UNCHANGED <<live, revision, renewed, cached, loading>>
    BY <1>7 DEF TakeListing, SyncIs, listingVars
  <2>2. PICK l \in cached : sync.step = "list" /\ HasListing(l)
    BY <1>7 DEF TakeListing
  <2> QED BY <2>1, <2>2, TakingKeepsRecent
<1>8. CASE StartSync \/ LoadRules \/ SyncReturns
  <2>1. UNCHANGED <<live, revision, renewed, cached, loading>>
    BY <1>8 DEF StartSync, LoadRules, SyncReturns, SyncIs, listingVars
  <2>2. CASE StartSync
    BY <2>1, <2>2 DEF StartSync, ListingsAreRecent, RouteTypes
  <2>3. CASE LoadRules
    <3>1. sync.step = "load" /\ sync'.since = sync.since /\ sync'.listing = sync.listing
      BY <2>3 DEF LoadRules
    <3>2. sync # NoRequest
      BY <3>1 DEF NoRequest
    <3> QED BY <2>1, <3>1, <3>2 DEF ListingsAreRecent
  <2>4. CASE SyncReturns
    BY <2>1, <2>4 DEF SyncReturns, ListingsAreRecent, NoRequest
  <2> QED BY <1>8, <2>2, <2>3, <2>4
<1> QED
  BY <1>2, <1>3, <1>4, <1>5, <1>6, <1>7, <1>8 DEF RoutesNext, PlanningStep

\* "treats EKS as authoritative for every registered host": a synchronisation that begins
\* after the last change of the cluster, and after older listings were dropped, gives a host
\* the routes of the cluster, leaves alone what the cluster does not serve, and gives no path
\* a second backend.
THEOREM SyncFollowsClusterHolds ==
    RoutesSpec => SyncFollowsCluster
<1> DEFINE Follows ==
       \A h \in Host :
          LET actual == Actual(live, h)
              own    == Wanted(sync.rules, h)
          IN  /\ (sync.since = revision /\ actual # {} /\ ~Clash(actual) /\ ~Clash(own))
                  => Wanted(domains', h) = actual
              /\ (sync.since = revision /\ actual = {}) => Wanted(domains', h) = own
              /\ Clash(Wanted(domains', h)) => Clash(own)
<1>1. RouteTypes /\ ListingsAreRecent /\ [RoutesNext]_routeVars => [SaveSynced => Follows]_routeVars
  <2> SUFFICES ASSUME RouteTypes, ListingsAreRecent, SaveSynced, NEW h \in Host
               PROVE  LET actual == Actual(live, h)
                          own    == Wanted(sync.rules, h)
                      IN  /\ (sync.since = revision /\ actual # {} /\ ~Clash(actual) /\ ~Clash(own))
                              => Wanted(domains', h) = actual
                          /\ (sync.since = revision /\ actual = {}) => Wanted(domains', h) = own
                          /\ Clash(Wanted(domains', h)) => Clash(own)
    OBVIOUS
  <2> DEFINE d == sync.rules
             l == sync.listing
             a == Actual(l, h)
             w == Wanted(d, h)
  <2>1. domains' = Synced(d, l) /\ d \in Seq(DomainRule) /\ l \in Listing
    BY DEF SaveSynced, RouteTypes, SyncType, NoRequest
  <2>2. sync.since = revision => Actual(live, h) = a
    BY DEF SaveSynced, ListingsAreRecent
  <2>3. Wanted(domains', h) =
           IF RulesOf(d, h) = {} THEN IF Clash(a) THEN {} ELSE a
           ELSE IF Rewritten(d, l, h) /\ ClusterWins(d, l, h) THEN a
           ELSE w
    BY <2>1, SyncedRoutes
  <2>4. RulesOf(d, h) = {} => w = {}
    BY DEF Wanted
  <2>5. ClusterWins(d, l, h) <=> a # {} /\ a # w /\ ~Clash(a)
    BY DEF ClusterWins
  <2>6. Rewritten(d, l, h) <=>
           /\ RulesOf(d, h) # {} /\ ~Clash(w)
           /\ ClusterWins(d, l, h) \/ Cardinality(RulesOf(d, h)) > 1
    BY DEF Rewritten
  <2>7. ~Clash({})
    BY DEF Clash
  <2>8. /\ (a # {} /\ ~Clash(a) /\ ~Clash(w)) => Wanted(domains', h) = a
        /\ a = {} => Wanted(domains', h) = w
        /\ Clash(Wanted(domains', h)) => Clash(w)
    <3> HIDE DEF a, w, d, l
    <3>1. CASE RulesOf(d, h) = {}
      BY <2>3, <2>4, <2>7, <3>1
    <3>2. CASE RulesOf(d, h) # {}
      BY <2>3, <2>5, <2>6, <2>7, <3>2
    <3> QED BY <3>1, <3>2
  <2> HIDE DEF a
  <2> QED BY <2>2, <2>8 DEF w, d
<1>2. RouteTypes /\ RoutesInv /\ [RoutesNext]_routeVars => RouteTypes'
  BY RouteTypesStep DEF RoutesInv
<1>3. RouteTypes /\ ListingsAreRecent /\ [RoutesNext]_routeVars => ListingsAreRecent'
  BY ListingsAreRecentStep
<1>4. RoutesInit => ListingsAreRecent
  BY DEF RoutesInit, ListingsAreRecent, NoRequest
<1> QED
  BY <1>1, <1>2, <1>3, <1>4, RouteTypesStart, RoutesStart, RoutesStep, PTL DEF RoutesSpec, SyncFollowsCluster
===============================================================================
