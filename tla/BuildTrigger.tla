------------------------------ MODULE BuildTrigger -----------------------------
(***************************************************************************)
(* Builds of one CI/CD job (internal/cicd/service.go, jenkins.go and       *)
(* internal/persistence/cicd.go): triggering by hand, by a webhook that    *)
(* may be delivered again, and as a retry; refreshing, canceling, and the  *)
(* deletion of the job or of its project.  Every call of the database or   *)
(* of Jenkins is a step of its handler.                                    *)
(*                                                                         *)
(* Jenkins is external: it answers a request that equals a queued one with *)
(* the queue item it has.  All requests here are for one service and one   *)
(* branch, so that they are equal.                                         *)
(***************************************************************************)
EXTENDS Naturals

CONSTANTS
    MaxHandlers,    \* HTTP requests being handled at a time
    Deliveries,     \* webhook delivery ids
    Results,        \* of {"succeeded", "failed"}: how a build may end
    MaxItems,       \* bound on Jenkins' queue items
    MaxBuilds       \* bound on build records

ASSUME BuildTriggerAssumption ==
    /\ MaxHandlers \in Nat /\ MaxItems \in Nat /\ MaxBuilds \in Nat
    /\ Results \subseteq {"succeeded", "failed"}

Handlers == 1 .. MaxHandlers

Items == 1 .. MaxItems
Builds == 1 .. MaxBuilds
None == 0
ByHand == "by hand"

VARIABLES
    item,       \* Jenkins: what became of each queue item
    build,      \* cicd_builds
    pipeline,   \* the row of cicd_jobs exists
    handler,    \* what each handler does
    broken      \* a handler ended between Jenkins' acceptance and its record

buildVars == <<item, build, pipeline, handler, broken>>

NoBuild == [status |-> "none", item |-> None, delivery |-> ByHand, started |-> FALSE]
Ready == [at |-> "ready", delivery |-> ByHand, retries |-> None, item |-> None,
          row |-> None, copy |-> NoBuild]

ActiveBuild(b) == b.status \in {"queued", "running"}
Removed == [NoBuild EXCEPT !.status = "removed"]
Rows == {r \in Builds : build[r] \notin {NoBuild, Removed}}
Unused == {r \in Builds : build[r] = NoBuild}
ActiveRows == {r \in Rows : ActiveBuild(build[r])}
Now(h, does) == handler' = [handler EXCEPT ![h] = does]
Waits(h, stage) == handler[h].at = stage
\* Requests are alike: the first free handler takes the next one.
Takes(h) == Waits(h, "ready") /\ \A g \in Handlers : g < h => ~Waits(g, "ready")
Proceeds(h, stage) == Now(h, [handler[h] EXCEPT !.at = stage])
\* The user is told of the build; what was asked matters for a retry.
Answers(h, r) == Now(h, IF handler[h].retries = None THEN Ready
                        ELSE [Ready EXCEPT !.at = "answered", !.retries = handler[h].retries, !.row = r])

-------------------------------------------------------------------------------
(* TriggerBuild.                                                           *)

\* A push, or the user's request.
RequestBuild(h) ==
    /\ Takes(h) /\ pipeline
    /\ \E d \in Deliveries \cup {ByHand} :
         Now(h, [Ready EXCEPT !.at = "look", !.delivery = d])
    /\ UNCHANGED <<item, build, pipeline, broken>>

\* RetryBuild passes the old build's parameters, the delivery's id among them.
RequestRetry(h, r) ==
    /\ Takes(h) /\ r \in Rows /\ pipeline
    /\ build[r].status \in {"failed", "canceled"}
    /\ Now(h, [Ready EXCEPT !.at = "look", !.delivery = build[r].delivery, !.retries = r])
    /\ UNCHANGED <<item, build, pipeline, broken>>

\* A delivery that has a record is answered with it.  An error of the list counts
\* as an empty one.
LookForDelivery(h) ==
    /\ Waits(h, "look")
    /\ LET same == {r \in Rows : build[r].delivery = handler[h].delivery}
       IN IF handler[h].delivery = ByHand \/ same = {} THEN Proceeds(h, "trigger")
          ELSE Proceeds(h, "trigger") \/ \E r \in same : Answers(h, r)
    /\ UNCHANGED <<item, build, pipeline, broken>>

Queued == {i \in Items : item[i] = "queued"}
Free == {i \in Items : item[i] = "none"}
First(set) == CHOOSE i \in set : \A j \in set : i <= j

\* buildWithParameters; the answer may get lost.
Trigger(h) ==
    /\ Waits(h, "trigger")
    /\ \E i \in IF Queued # {} THEN Queued ELSE {j \in Free : j = First(Free)} :
         /\ item' = [item EXCEPT ![i] = "queued"]
         /\ \/ Now(h, [handler[h] EXCEPT !.at = "join", !.item = i]) /\ UNCHANGED broken
            \/ Now(h, Ready) /\ broken' = TRUE
    /\ UNCHANGED <<build, pipeline>>

\* Mutant: any active record of the job is taken for the item's.
JoinAny(h) ==
    /\ Waits(h, "join")
    /\ IF ActiveRows = {} THEN Proceeds(h, "store") ELSE \E r \in ActiveRows : Answers(h, r)
    /\ UNCHANGED <<item, build, pipeline, broken>>
\* "Jenkins can coalesce identical requests that are already queued": the record
\* of the same queue item is used again.
Join(h) ==
    /\ Waits(h, "join")
    /\ LET same == {r \in ActiveRows : build[r].item = handler[h].item}
       IN IF same = {} THEN Proceeds(h, "store")
          ELSE Proceeds(h, "store") \/ \E r \in same : Answers(h, r)
    /\ UNCHANGED <<item, build, pipeline, broken>>

Store(h) ==
    /\ Waits(h, "store")
    /\ \E r \in Unused :
         /\ \A q \in Unused : r <= q
         /\ build' = [build EXCEPT ![r] = [status |-> "queued", item |-> handler[h].item,
                                           delivery |-> handler[h].delivery, started |-> FALSE]]
         /\ Answers(h, r)
    /\ UNCHANGED <<item, pipeline, broken>>

Answered(h) ==
    /\ Waits(h, "answered") /\ Now(h, Ready)
    /\ UNCHANGED <<item, build, pipeline, broken>>

-------------------------------------------------------------------------------
(* ListBuilds with refreshBuild, and CancelBuild: a record is read, Jenkins *)
(* is asked, and the whole record is written back.                         *)

\* The page offers to stop an active build only.
ReadBuild(h, r) ==
    /\ Takes(h) /\ r \in ActiveRows /\ pipeline
    /\ \E call \in {"refresh", "cancel"} :
         Now(h, [Ready EXCEPT !.at = call, !.row = r, !.copy = build[r]])
    /\ UNCHANGED <<item, build, pipeline, broken>>

\* jenkinsClient.refresh
Refreshed(b) ==
    IF b.started THEN [b EXCEPT !.status = IF item[b.item] = "aborted" THEN "canceled" ELSE item[b.item]]
    ELSE IF item[b.item] = "cancelled" THEN [b EXCEPT !.status = "canceled"]
    ELSE IF item[b.item] = "queued" THEN b
    ELSE [b EXCEPT !.status = "running", !.started = TRUE]

AskJenkins(h) ==
    /\ Waits(h, "refresh")
    /\ \E b \in {Refreshed(handler[h].copy), handler[h].copy} :
         Now(h, [handler[h] EXCEPT !.at = "write", !.copy = b])
    /\ UNCHANGED <<item, build, pipeline, broken>>

\* jenkinsClient.cancel: stop for a build with a number, cancelItem otherwise,
\* which fails for an item that has left the queue.
StopBuild(h) ==
    /\ Waits(h, "cancel")
    /\ LET b == handler[h].copy
           i == b.item
       IN \/ /\ IF b.started THEN item' = [item EXCEPT ![i] = IF @ = "running" THEN "aborted" ELSE @]
                ELSE item[i] = "queued" /\ item' = [item EXCEPT ![i] = "cancelled"]
             /\ Now(h, [handler[h] EXCEPT !.at = "write", !.copy.status = "canceled"])
          \/ Now(h, Ready) /\ UNCHANGED item
    /\ UNCHANGED <<build, pipeline, broken>>

\* An upsert, which writes a record that has been deleted as well.
WriteBuild(h) ==
    /\ Waits(h, "write")
    /\ build' = [build EXCEPT ![handler[h].row] = handler[h].copy]
    /\ Now(h, Ready)
    /\ UNCHANGED <<item, pipeline, broken>>

-------------------------------------------------------------------------------
(* Deletions, the end of a request or of the process, and Jenkins.         *)

\* DeleteCICDJob keeps the history, DeleteCICDProject removes it.
DeletePipeline ==
    /\ pipeline /\ ActiveRows = {}
    /\ pipeline' = FALSE
    /\ build' \in {build, [r \in Builds |-> IF r \in Rows THEN Removed ELSE build[r]]}
    /\ UNCHANGED <<item, handler, broken>>

HangUp(h) ==
    /\ ~Waits(h, "ready")
    /\ broken' = (broken \/ handler[h].at \in {"join", "store"})
    /\ Now(h, Ready)
    /\ UNCHANGED <<item, build, pipeline>>

StartItem ==
    /\ \E i \in Queued : item' = [item EXCEPT ![i] = "running"]
    /\ UNCHANGED <<build, pipeline, handler, broken>>

EndItem ==
    /\ \E i \in Items : /\ item[i] = "running"
                        /\ \E end \in Results : item' = [item EXCEPT ![i] = end]
    /\ UNCHANGED <<build, pipeline, handler, broken>>

BuildInit ==
    /\ item = [i \in Items |-> "none"]
    /\ build = [r \in Builds |-> NoBuild]
    /\ pipeline = TRUE
    /\ handler = [h \in Handlers |-> Ready]
    /\ broken = FALSE

Handle(h) == \/ RequestBuild(h) \/ LookForDelivery(h) \/ Trigger(h) \/ Join(h) \/ Store(h)
             \/ Answered(h) \/ AskJenkins(h) \/ StopBuild(h) \/ WriteBuild(h) \/ HangUp(h)
             \/ \E r \in Builds : RequestRetry(h, r) \/ ReadBuild(h, r)
BuildNext == (\E h \in Handlers : Handle(h)) \/ DeletePipeline \/ StartItem \/ EndItem

BuildSpec == BuildInit /\ [][BuildNext]_buildVars

-------------------------------------------------------------------------------
(* Properties.                                                             *)

\* What Jenkins has accepted and not finished has an active record, which keeps
\* the job and its project from being deleted, or a handler that is about to
\* write one -- unless a handler ended between the two.
NothingBuildsUnseen ==
    broken \/ \A i \in Items : item[i] \in {"queued", "running"} =>
        \/ \E r \in ActiveRows : build[r].item = i
        \/ \E h \in Handlers : handler[h].item = i /\ handler[h].at \in {"join", "store"}

\* "The Jenkins build has been submitted again": the answer to a retry is another
\* build than the one that ended.
RetryRuns ==
    \A h \in Handlers :
        Waits(h, "answered") /\ handler[h].retries # None => handler[h].row # handler[h].retries
===============================================================================
