------------------------------ MODULE CICDProofs ------------------------------
(***************************************************************************)
(* The records of builds and the row of a pipeline, which requests read,   *)
(* hold over calls of Jenkins and GitLab and write back whole, for any     *)
(* number of requests.  The invariants say what each copy that a request   *)
(* holds still has to do with the record or the row.                       *)
(***************************************************************************)
EXTENDS BuildTrigger, PipelineSync, TLAPS

-------------------------------------------------------------------------------
(* Builds.                                                                 *)

USE BuildTriggerAssumption

Ended == {"succeeded", "failed", "canceled"}
ItemState == {"none", "queued", "running", "succeeded", "failed", "aborted", "cancelled"}
BuildRecord ==
    [status : {"none", "removed", "queued", "running"} \cup Ended, item : Items \cup {None},
     delivery : Deliveries \cup {ByHand}, started : BOOLEAN]
HandlerRecord ==
    [at : {"ready", "look", "trigger", "join", "store", "answered", "refresh", "cancel", "write"},
     delivery : Deliveries \cup {ByHand}, retries : Builds \cup {None},
     item : Items \cup {None}, row : Builds \cup {None}, copy : BuildRecord]

BuildTypeOK ==
    /\ item \in [Items -> ItemState]
    /\ build \in [Builds -> BuildRecord]
    /\ pipeline \in BOOLEAN
    /\ handler \in [Handlers -> HandlerRecord]
    /\ broken \in BOOLEAN

Runs(state) == state \in {"queued", "running"}

\* A record that is one names a queue item that Jenkins has made. It has a number only
\* when the item has left the queue, and it ends after the build.
RecordIsTrue(b, items) ==
    b.status \notin {"none", "removed"} =>
        /\ b.item \in Items /\ items[b.item] # "none"
        /\ b.started => items[b.item] \in {"running", "succeeded", "failed", "aborted"}
        /\ ActiveBuild(b) \/ ~Runs(items[b.item])

\* What a handler is about to do: a copy is of a record that still names the same item,
\* unless it has been removed.
HandlerIsTrue(h, items, builds) ==
    /\ h.at \in {"join", "store"} => h.item \in Items /\ items[h.item] # "none"
    /\ h.at \in {"refresh", "cancel", "write"} =>
         /\ h.row \in Builds /\ h.copy.status \notin {"none", "removed"}
         /\ RecordIsTrue(h.copy, items)
         /\ builds[h.row].status # "none"
         /\ builds[h.row].status # "removed" => builds[h.row].item = h.copy.item
    /\ h.at = "cancel" => ActiveBuild(h.copy)

Copies(h) == handler[h].at \in {"refresh", "cancel", "write"}
\* Also two copies of a record that has been removed.
CopiesAgree ==
    \A g, h \in Handlers :
        Copies(g) /\ Copies(h) /\ handler[g].row = handler[h].row => handler[g].copy.item = handler[h].copy.item

\* A status says all of what is no record.
NoRecordIsNothing ==
    \A r \in Builds : /\ build[r].status = "none" => build[r] = NoBuild
                      /\ build[r].status = "removed" => build[r] = Removed

BuildInv ==
    /\ BuildTypeOK /\ NoRecordIsNothing /\ CopiesAgree
    /\ \A r \in Builds : RecordIsTrue(build[r], item)
    /\ \A h \in Handlers : HandlerIsTrue(handler[h], item, build)
    /\ NothingBuildsUnseen

\* What becomes of a queue item.
Moves(from, to) ==
    \/ to = from
    \/ from = "none" /\ to = "queued"
    \/ from = "queued" /\ to \in {"running", "cancelled"}
    \/ from = "running" /\ to \in {"succeeded", "failed", "aborted"}

\* A record stays true while the items move.
LEMMA RecordStaysTrue ==
    ASSUME NEW b \in BuildRecord, NEW items, NEW later, RecordIsTrue(b, items),
           \A i \in Items : Moves(items[i], later[i])
    PROVE  RecordIsTrue(b, later)
BY DEF RecordIsTrue, Moves, Runs

\* What a handler holds stays true while items of the queue only move on.
LEMMA HandlerStaysTrue ==
    ASSUME NEW h \in HandlerRecord, NEW items, NEW later, NEW builds, HandlerIsTrue(h, items, builds),
           \A i \in Items : Moves(items[i], later[i])
    PROVE  HandlerIsTrue(h, later, builds)
<1>1. h.copy \in BuildRecord
  BY DEF HandlerRecord
<1>2. h.at \in {"refresh", "cancel", "write"} => RecordIsTrue(h.copy, later)
  BY <1>1, RecordStaysTrue DEF HandlerIsTrue
<1> QED BY <1>2 DEF HandlerIsTrue, Moves

\* An active record, or a handler that is about to write one.
Seen(i) ==
    \/ \E r \in Builds : ActiveBuild(build[r]) /\ build[r].item = i
    \/ \E h \in Handlers : handler[h].item = i /\ handler[h].at \in {"join", "store"}

\* The property, read of items that are items.
LEMMA UnseenMeans ==
    ASSUME NoRecordIsNothing
    PROVE  NothingBuildsUnseen <=> broken \/ \A i \in Items : Runs(item[i]) => Seen(i)
<1>1. \A r \in Builds : ActiveBuild(build[r]) => build[r] \notin {NoBuild, Removed}
  BY DEF ActiveBuild, NoBuild, Removed
<1> QED BY <1>1 DEF NothingBuildsUnseen, Seen, Runs, ActiveRows, Rows

\* The same of the next state.
LEMMA UnseenMeansNext ==
    ASSUME NoRecordIsNothing'
    PROVE  NothingBuildsUnseen' <=> broken' \/ \A i \in Items : Runs(item'[i]) => Seen(i)'
<1>1. \A r \in Builds : ActiveBuild(build'[r]) => build'[r] \notin {NoBuild, Removed}
  BY DEF ActiveBuild, NoBuild, Removed
<1> QED BY <1>1 DEF NothingBuildsUnseen, Seen, Runs, ActiveRows, Rows

\* A handler goes on; items may move, no record changes.
LEMMA HandlerGoesOn ==
    ASSUME BuildInv, NEW h \in Handlers, NEW m \in HandlerRecord,
           handler' = [handler EXCEPT ![h] = m],
           item' \in [Items -> ItemState], \A i \in Items : Moves(item[i], item'[i]),
           UNCHANGED <<build, pipeline>>, broken' \in BOOLEAN, broken => broken',
           HandlerIsTrue(m, item', build),
           m.at \in {"refresh", "cancel", "write"} =>
              \A g \in Handlers : g # h /\ Copies(g) /\ handler[g].row = m.row => handler[g].copy.item = m.copy.item,
           \A i \in Items :
              \/ item'[i] = item[i] \/ ~Runs(item'[i]) \/ Runs(item[i]) \/ broken'
              \/ m.at \in {"join", "store"} /\ m.item = i,
           handler[h].at \in {"join", "store"} =>
              \/ broken'
              \/ m.at \in {"join", "store"} /\ m.item = handler[h].item
              \/ \E r \in Builds : ActiveBuild(build[r]) /\ build[r].item = handler[h].item
    PROVE  BuildInv'
<1>0. /\ handler \in [Handlers -> HandlerRecord] /\ build \in [Builds -> BuildRecord]
      /\ pipeline \in BOOLEAN /\ item \in [Items -> ItemState] /\ NoRecordIsNothing
  BY DEF BuildInv, BuildTypeOK
<1>1. handler'[h] = m /\ \A g \in Handlers : g # h => handler'[g] = handler[g]
  BY <1>0
<1>2. BuildTypeOK'
  BY <1>0 DEF BuildTypeOK
<1>3. NoRecordIsNothing'
  BY <1>0 DEF NoRecordIsNothing
<1>4. CopiesAgree'
  BY <1>1 DEF BuildInv, CopiesAgree, Copies
<1>5. \A r \in Builds : RecordIsTrue(build[r], item')
  <2>1. ASSUME NEW r \in Builds PROVE RecordIsTrue(build[r], item')
    <3>1. RecordIsTrue(build[r], item) /\ build[r] \in BuildRecord
      BY <1>0 DEF BuildInv
    <3> QED BY <3>1, RecordStaysTrue
  <2> QED BY <2>1
<1>6. \A g \in Handlers : HandlerIsTrue(handler'[g], item', build)
  <2>1. ASSUME NEW g \in Handlers, g # h PROVE HandlerIsTrue(handler[g], item', build)
    <3>1. HandlerIsTrue(handler[g], item, build) /\ handler[g] \in HandlerRecord
      BY <1>0 DEF BuildInv
    <3> QED BY <3>1, HandlerStaysTrue
  <2> QED BY <1>1, <2>1
<1>7. NothingBuildsUnseen'
  <2>1. ASSUME NEW i \in Items, Runs(item'[i]), ~broken' PROVE Seen(i)'
    <3>1. CASE Runs(item[i])
      <4>1. Seen(i)
        BY <1>0, <2>1, <3>1, UnseenMeans DEF BuildInv
      <4> QED BY <1>1, <2>1, <4>1 DEF Seen
    <3>2. CASE ~Runs(item[i])
      BY <1>1, <2>1, <3>2 DEF Seen
    <3> QED BY <3>1, <3>2
  <2> QED BY <1>3, <2>1, UnseenMeansNext
<1>8. (\A r \in Builds : RecordIsTrue(build[r], item)') /\ \A g \in Handlers : HandlerIsTrue(handler[g], item, build)'
  BY <1>5, <1>6 DEF RecordIsTrue, HandlerIsTrue
<1> QED BY <1>2, <1>3, <1>4, <1>7, <1>8 DEF BuildInv

\* A handler writes a record and has done.
LEMMA RecordIsWritten ==
    ASSUME BuildInv, NEW h \in Handlers, NEW m \in HandlerRecord, NEW r \in Builds, NEW b \in BuildRecord,
           handler' \in [Handlers -> HandlerRecord], handler'[h] = m,
           \A g \in Handlers : g # h => handler'[g] = handler[g],
           build' \in [Builds -> BuildRecord], build'[r] = b,
           \A q \in Builds : q # r => build'[q] = build[q],
           UNCHANGED <<item, pipeline, broken>>,
           m.at \in {"ready", "answered"},
           b.status \notin {"none", "removed"}, RecordIsTrue(b, item),
           build[r].status \notin {"none", "removed"} => b.item = build[r].item,
           \A g \in Handlers : g # h /\ Copies(g) /\ handler[g].row = r => handler[g].copy.item = b.item,
           handler[h].at \in {"join", "store"} => ActiveBuild(b) /\ b.item = handler[h].item
    PROVE  BuildInv'
<1>0. /\ handler \in [Handlers -> HandlerRecord] /\ build \in [Builds -> BuildRecord]
      /\ item \in [Items -> ItemState] /\ NoRecordIsNothing
  BY DEF BuildInv, BuildTypeOK
<1>1. /\ handler'[h] = m /\ \A g \in Handlers : g # h => handler'[g] = handler[g]
      /\ build'[r] = b /\ \A q \in Builds : q # r => build'[q] = build[q]
  OBVIOUS
<1>2. BuildTypeOK'
  BY <1>0 DEF BuildTypeOK, BuildInv
<1>3. NoRecordIsNothing'
  BY <1>0, <1>1 DEF NoRecordIsNothing
<1>4. CopiesAgree'
  BY <1>1 DEF BuildInv, CopiesAgree, Copies
<1>5. \A q \in Builds : RecordIsTrue(build'[q], item)
  BY <1>1 DEF BuildInv
<1>6. \A g \in Handlers : HandlerIsTrue(handler'[g], item, build')
  <2>1. ASSUME NEW g \in Handlers, g # h PROVE HandlerIsTrue(handler[g], item, build')
    <3>1. HandlerIsTrue(handler[g], item, build)
      BY DEF BuildInv
    <3> QED BY <1>1, <2>1, <3>1 DEF HandlerIsTrue, Copies
  <2>2. HandlerIsTrue(m, item, build')
    BY DEF HandlerIsTrue
  <2> QED BY <1>1, <2>1, <2>2
<1>7. NothingBuildsUnseen'
  <2>1. ASSUME NEW i \in Items, Runs(item'[i]), ~broken' PROVE Seen(i)'
    <3>1. Seen(i)
      BY <1>0, <2>1, UnseenMeans DEF BuildInv
    <3>2. ASSUME NEW q \in Builds, ActiveBuild(build[q]), build[q].item = i PROVE Seen(i)'
      <4>1. CASE q = r
        <5>1. b.item = i
          BY <3>2, <4>1 DEF ActiveBuild
        <5>2. ActiveBuild(b)
          BY <2>1, <5>1 DEF RecordIsTrue
        <5> QED BY <1>1, <5>1, <5>2 DEF Seen
      <4>2. CASE q # r
        BY <1>1, <3>2, <4>2 DEF Seen
      <4> QED BY <4>1, <4>2
    <3>3. ASSUME NEW g \in Handlers, handler[g].item = i, handler[g].at \in {"join", "store"} PROVE Seen(i)'
      <4>1. CASE g = h
        BY <1>1, <3>3, <4>1 DEF Seen
      <4>2. CASE g # h
        BY <1>1, <3>3, <4>2 DEF Seen
      <4> QED BY <4>1, <4>2
    <3> QED BY <3>1, <3>2, <3>3 DEF Seen
  <2> QED BY <1>3, <2>1, UnseenMeansNext
<1>8. (\A q \in Builds : RecordIsTrue(build[q], item)') /\ \A g \in Handlers : HandlerIsTrue(handler[g], item, build)'
  BY <1>5, <1>6 DEF RecordIsTrue, HandlerIsTrue
<1> QED BY <1>2, <1>3, <1>4, <1>7, <1>8 DEF BuildInv
\* The record of a build that is not there, the one of a removed build and a handler that does nothing.
LEMMA NothingHandled ==
    /\ NoBuild \in BuildRecord /\ NoBuild.status = "none" /\ NoBuild.item = None
    /\ Removed \in BuildRecord /\ Removed.status = "removed"
    /\ Ready \in HandlerRecord /\ Ready.at = "ready" /\ Ready.item = None
    /\ Ready.row = None /\ Ready.copy = NoBuild
<1>1. FALSE \in BOOLEAN
  BY Zenon
<1>2. NoBuild \in BuildRecord /\ NoBuild.status = "none" /\ NoBuild.item = None
  BY <1>1 DEF NoBuild, BuildRecord
<1> HIDE DEF NoBuild
<1>3. Removed \in BuildRecord /\ Removed.status = "removed"
  BY <1>2 DEF Removed, BuildRecord
<1> QED BY <1>2, <1>3 DEF Ready, HandlerRecord

\* What every proof of a step starts from.
LEMMA BuildFacts ==
    ASSUME BuildInv, NEW h \in Handlers
    PROVE  /\ handler[h] \in HandlerRecord /\ HandlerIsTrue(handler[h], item, build)
           /\ item \in [Items -> ItemState] /\ build \in [Builds -> BuildRecord]
           /\ handler[h].copy \in BuildRecord /\ broken \in BOOLEAN /\ pipeline \in BOOLEAN
           /\ handler[h].item \in Items \cup {None} /\ handler[h].row \in Builds \cup {None}
           /\ handler[h].retries \in Builds \cup {None} /\ handler[h].delivery \in Deliveries \cup {ByHand}
           /\ \A i : Moves(item[i], item[i])
BY DEF BuildInv, BuildTypeOK, HandlerRecord, Moves

\* A handler goes on to do something that needs no copy and no item.
LEMMA HandlerAsks ==
    ASSUME BuildInv, NEW h \in Handlers, NEW m \in HandlerRecord,
           handler' = [handler EXCEPT ![h] = m], UNCHANGED <<item, build, pipeline, broken>>,
           m.at \in {"ready", "look", "trigger", "answered"},
           handler[h].at \in {"join", "store"} =>
              \E r \in Builds : ActiveBuild(build[r]) /\ build[r].item = handler[h].item
    PROVE  BuildInv'
<1>1. HandlerIsTrue(m, item', build)
  BY DEF HandlerIsTrue
<1> QED BY <1>1, BuildFacts, HandlerGoesOn

\* The answer to a request.
LEMMA AnswerGoesOn ==
    ASSUME BuildInv, NEW h \in Handlers, NEW r \in Builds, Answers(h, r),
           UNCHANGED <<item, build, pipeline, broken>>,
           handler[h].at \in {"join", "store"} =>
              ActiveBuild(build[r]) /\ build[r].item = handler[h].item
    PROVE  BuildInv'
<1> DEFINE m == IF handler[h].retries = None THEN Ready
                ELSE [Ready EXCEPT !.at = "answered", !.retries = handler[h].retries, !.row = r]
<1>1. m \in HandlerRecord /\ m.at \in {"ready", "answered"}
  <2>1. handler[h].retries \in Builds \cup {None}
    BY BuildFacts
  <2> QED BY <2>1, NothingHandled DEF HandlerRecord
<1>2. handler' = [handler EXCEPT ![h] = m]
  BY DEF Answers, Now
<1> HIDE DEF m
<1> QED BY <1>1, <1>2, HandlerAsks

\* A build requested by hand names no delivery and no item yet.
LEMMA RequestBuildStep ==
    ASSUME BuildInv, NEW h \in Handlers, RequestBuild(h)
    PROVE  BuildInv'
<1>1. PICK d \in Deliveries \cup {ByHand} : Now(h, [Ready EXCEPT !.at = "look", !.delivery = d])
  BY DEF RequestBuild
<1> DEFINE m == [Ready EXCEPT !.at = "look", !.delivery = d]
<1>2. m \in HandlerRecord /\ m.at = "look"
  BY NothingHandled DEF HandlerRecord
<1>3. /\ handler' = [handler EXCEPT ![h] = m] /\ UNCHANGED <<item, build, pipeline, broken>>
      /\ handler[h].at = "ready"
  BY <1>1 DEF Now, RequestBuild, Takes, Waits
<1> HIDE DEF m
<1> QED BY <1>2, <1>3, HandlerAsks

\* A retry starts from the delivery of the record it retries.
LEMMA RequestRetryStep ==
    ASSUME BuildInv, NEW h \in Handlers, NEW r \in Builds, RequestRetry(h, r)
    PROVE  BuildInv'
<1> DEFINE m == [Ready EXCEPT !.at = "look", !.delivery = build[r].delivery, !.retries = r]
<1>1. build[r].delivery \in Deliveries \cup {ByHand}
  BY BuildFacts DEF BuildRecord
<1>2. m \in HandlerRecord /\ m.at = "look"
  BY <1>1, NothingHandled DEF HandlerRecord
<1>3. /\ handler' = [handler EXCEPT ![h] = m] /\ UNCHANGED <<item, build, pipeline, broken>>
      /\ handler[h].at = "ready"
  BY DEF Now, RequestRetry, Takes, Waits
<1> HIDE DEF m
<1> QED BY <1>2, <1>3, HandlerAsks

\* A delivery that has a record is answered with it, any other is triggered.
LEMMA LookForDeliveryStep ==
    ASSUME BuildInv, NEW h \in Handlers, LookForDelivery(h)
    PROVE  BuildInv'
<1>1. handler[h].at = "look" /\ UNCHANGED <<item, build, pipeline, broken>>
  BY DEF LookForDelivery, Waits
<1>2. CASE Proceeds(h, "trigger")
  <2> DEFINE m == [handler[h] EXCEPT !.at = "trigger"]
  <2>1. m \in HandlerRecord /\ m.at = "trigger"
    BY BuildFacts DEF HandlerRecord
  <2>2. handler' = [handler EXCEPT ![h] = m]
    BY <1>2 DEF Proceeds, Now
  <2> HIDE DEF m
  <2> QED BY <1>1, <2>1, <2>2, HandlerAsks
<1>3. ASSUME NEW r \in Builds, Answers(h, r) PROVE BuildInv'
  BY <1>1, <1>3, AnswerGoesOn
<1> QED BY <1>2, <1>3 DEF LookForDelivery, Rows

\* What Trigger puts into the queue, its handler holds until it is recorded.
LEMMA TriggerStep ==
    ASSUME BuildInv, NEW h \in Handlers, Trigger(h)
    PROVE  BuildInv'
<1>1. handler[h].at = "trigger" /\ UNCHANGED <<build, pipeline>>
  BY DEF Trigger, Waits
<1>2. PICK i \in Items :
        /\ item[i] \in {"none", "queued"}
        /\ item' = [item EXCEPT ![i] = "queued"]
        /\ \/ Now(h, [handler[h] EXCEPT !.at = "join", !.item = i]) /\ UNCHANGED broken
           \/ Now(h, Ready) /\ broken' = TRUE
  BY Zenon DEF Trigger, Queued, Free
<1>3. /\ item' \in [Items -> ItemState] /\ item'[i] = "queued"
      /\ \A j \in Items : j # i => item'[j] = item[j]
  BY <1>2, BuildFacts DEF ItemState
<1>4. \A j \in Items : Moves(item[j], item'[j])
  BY <1>2, <1>3 DEF Moves
<1>5. CASE Now(h, [handler[h] EXCEPT !.at = "join", !.item = i]) /\ UNCHANGED broken
  <2> DEFINE m == [handler[h] EXCEPT !.at = "join", !.item = i]
  <2>1. m \in HandlerRecord /\ m.at = "join" /\ m.item = i
    BY BuildFacts DEF HandlerRecord
  <2>2. handler' = [handler EXCEPT ![h] = m]
    BY <1>5 DEF Now
  <2> HIDE DEF m
  <2>3. HandlerIsTrue(m, item', build)
    BY <1>3, <2>1 DEF HandlerIsTrue
  <2> QED BY <1>1, <1>3, <1>4, <1>5, <2>1, <2>2, <2>3, BuildFacts, HandlerGoesOn
<1>6. CASE Now(h, Ready) /\ broken' = TRUE
  <2>1. handler' = [handler EXCEPT ![h] = Ready]
    BY <1>6 DEF Now
  <2>2. HandlerIsTrue(Ready, item', build)
    BY NothingHandled DEF HandlerIsTrue
  <2>3. broken' \in BOOLEAN
    BY <1>6, Zenon
  <2> QED BY <1>1, <1>3, <1>4, <1>6, <2>1, <2>2, <2>3, NothingHandled, HandlerGoesOn
<1> QED BY <1>2, <1>5, <1>6

\* An item that an active record has is seen; any other goes on to be stored.
LEMMA JoinStep ==
    ASSUME BuildInv, NEW h \in Handlers, Join(h)
    PROVE  BuildInv'
<1>1. handler[h].at = "join" /\ UNCHANGED <<item, build, pipeline, broken>>
  BY DEF Join, Waits
<1>2. CASE Proceeds(h, "store")
  <2> DEFINE m == [handler[h] EXCEPT !.at = "store"]
  <2>1. m \in HandlerRecord /\ m.at = "store" /\ m.item = handler[h].item
    BY BuildFacts DEF HandlerRecord
  <2>2. handler' = [handler EXCEPT ![h] = m]
    BY <1>2 DEF Proceeds, Now
  <2> HIDE DEF m
  <2>3. HandlerIsTrue(m, item', build)
    BY <1>1, <2>1, BuildFacts DEF HandlerIsTrue
  <2> QED BY <1>1, <2>1, <2>2, <2>3, BuildFacts, HandlerGoesOn
<1>3. ASSUME NEW r \in Builds, ActiveBuild(build[r]), build[r].item = handler[h].item, Answers(h, r)
      PROVE  BuildInv'
  BY <1>1, <1>3, AnswerGoesOn
<1> QED BY <1>2, <1>3 DEF Join, ActiveRows, Rows

\* Store records the item its handler holds, so the item is seen before the handler forgets it.
LEMMA StoreStep ==
    ASSUME BuildInv, NEW h \in Handlers, Store(h)
    PROVE  BuildInv'
<1>1. handler[h].at = "store" /\ UNCHANGED <<item, pipeline, broken>>
  BY DEF Store, Waits
<1> DEFINE b == [status |-> "queued", item |-> handler[h].item,
                 delivery |-> handler[h].delivery, started |-> FALSE]
<1>2. PICK r \in Unused : build' = [build EXCEPT ![r] = b] /\ Answers(h, r)
  BY DEF Store
<1>3. r \in Builds /\ build[r].status = "none"
  BY <1>2, NothingHandled DEF Unused
<1>4. FALSE \in BOOLEAN
  BY Zenon
<1>5. /\ b \in BuildRecord /\ b.status = "queued" /\ b.item = handler[h].item
      /\ b.started = FALSE
  BY <1>4, BuildFacts DEF BuildRecord
<1> HIDE DEF b
<1>6. RecordIsTrue(b, item) /\ ActiveBuild(b)
  BY <1>1, <1>5, BuildFacts DEF RecordIsTrue, HandlerIsTrue, ActiveBuild
<1>7. \A g \in Handlers : Copies(g) => handler[g].row # r
  BY <1>3, BuildFacts DEF HandlerIsTrue, Copies
<1> DEFINE m == IF handler[h].retries = None THEN Ready
                ELSE [Ready EXCEPT !.at = "answered", !.retries = handler[h].retries, !.row = r]
<1>8. m \in HandlerRecord /\ m.at \in {"ready", "answered"}
  <2>1. handler[h].retries \in Builds \cup {None}
    BY BuildFacts
  <2> QED BY <1>3, <2>1, NothingHandled DEF HandlerRecord
<1>9. handler' = [handler EXCEPT ![h] = m]
  BY <1>2 DEF Answers, Now
<1> HIDE DEF m
<1>10. build[r].status \notin {"none", "removed"} => b.item = build[r].item
  BY <1>3
<1>11. \A g \in Handlers : g # h /\ Copies(g) /\ handler[g].row = r => handler[g].copy.item = b.item
  BY <1>7
<1>12. handler[h].at \in {"join", "store"} => ActiveBuild(b) /\ b.item = handler[h].item
  BY <1>5, <1>6
<1>13. b.status \notin {"none", "removed"}
  BY <1>5
<1>14. /\ handler' \in [Handlers -> HandlerRecord] /\ handler'[h] = m
       /\ \A g \in Handlers : g # h => handler'[g] = handler[g]
       /\ build' \in [Builds -> BuildRecord] /\ build'[r] = b
       /\ \A q \in Builds : q # r => build'[q] = build[q]
  BY <1>2, <1>3, <1>5, <1>8, <1>9 DEF BuildInv, BuildTypeOK
<1> QED BY <1>1, <1>3, <1>5, <1>6, <1>8, <1>10, <1>11, <1>12, <1>13, <1>14, RecordIsWritten

\* A handler that has answered is ready for another request.
LEMMA AnsweredStep ==
    ASSUME BuildInv, NEW h \in Handlers, Answered(h)
    PROVE  BuildInv'
BY NothingHandled, HandlerAsks DEF Answered, Waits, Now

\* A copy is of a record as it is.
LEMMA ReadBuildStep ==
    ASSUME BuildInv, NEW h \in Handlers, NEW r \in Builds, ReadBuild(h, r)
    PROVE  BuildInv'
<1>1. /\ handler[h].at = "ready" /\ UNCHANGED <<item, build, pipeline, broken>>
      /\ ActiveBuild(build[r])
  BY DEF ReadBuild, Takes, Waits, ActiveRows
<1>2. PICK call \in {"refresh", "cancel"} :
        Now(h, [Ready EXCEPT !.at = call, !.row = r, !.copy = build[r]])
  BY DEF ReadBuild
<1> DEFINE m == [Ready EXCEPT !.at = call, !.row = r, !.copy = build[r]]
<1>3. m \in HandlerRecord /\ m.at = call /\ m.row = r /\ m.copy = build[r]
  <2>1. build[r] \in BuildRecord
    BY BuildFacts
  <2> QED BY <2>1, NothingHandled DEF HandlerRecord
<1>4. handler' = [handler EXCEPT ![h] = m]
  BY <1>2 DEF Now
<1> HIDE DEF m
<1>5. build[r].status \notin {"none", "removed"} /\ RecordIsTrue(build[r], item)
  BY <1>1 DEF ActiveBuild, BuildInv
<1>6. HandlerIsTrue(m, item', build)
  BY <1>1, <1>3, <1>5 DEF HandlerIsTrue
<1>7. \A g \in Handlers : Copies(g) /\ handler[g].row = r => handler[g].copy.item = build[r].item
  BY <1>5, BuildFacts DEF Copies, HandlerIsTrue
<1> QED BY <1>1, <1>3, <1>4, <1>6, <1>7, BuildFacts, HandlerGoesOn, ZenonT(60)

\* The copy is kept, or brought up to date with its item.
LEMMA CopyGoesOn ==
    ASSUME BuildInv, NEW h \in Handlers, Copies(h), NEW b \in BuildRecord,
           item' \in [Items -> ItemState], \A i \in Items : Moves(item[i], item'[i]),
           handler' = [handler EXCEPT ![h] = [handler[h] EXCEPT !.at = "write", !.copy = b]],
           UNCHANGED <<build, pipeline, broken>>,
           b.status \notin {"none", "removed"}, RecordIsTrue(b, item'), b.item = handler[h].copy.item,
           \A i \in Items : item'[i] = item[i] \/ ~Runs(item'[i]) \/ Runs(item[i])
    PROVE  BuildInv'
<1> DEFINE m == [handler[h] EXCEPT !.at = "write", !.copy = b]
<1>1. m \in HandlerRecord /\ m.at = "write" /\ m.row = handler[h].row /\ m.copy = b
  BY BuildFacts, ZenonT(60) DEF HandlerRecord
<1>2. handler' = [handler EXCEPT ![h] = m]
  OBVIOUS
<1> HIDE DEF m
<1>3. HandlerIsTrue(m, item', build)
  BY <1>1, BuildFacts DEF HandlerIsTrue, Copies
<1>4. \A g \in Handlers : Copies(g) /\ handler[g].row = m.row => handler[g].copy.item = b.item
  BY <1>1 DEF BuildInv, CopiesAgree
<1> QED BY <1>1, <1>2, <1>3, <1>4, BuildFacts, HandlerGoesOn, ZenonT(60) DEF Copies

\* The copy gets the status of its item, or stays as it is; the record is not touched yet.
LEMMA AskJenkinsStep ==
    ASSUME BuildInv, NEW h \in Handlers, AskJenkins(h)
    PROVE  BuildInv'
<1> DEFINE c == handler[h].copy
<1>1. handler[h].at = "refresh" /\ UNCHANGED <<item, build, pipeline, broken>>
  BY DEF AskJenkins, Waits
<1>2. PICK b \in {Refreshed(c), c} : Now(h, [handler[h] EXCEPT !.at = "write", !.copy = b])
  BY DEF AskJenkins
<1>3. /\ c \in BuildRecord /\ c.status \notin {"none", "removed"} /\ RecordIsTrue(c, item)
      /\ c.item \in Items /\ item[c.item] # "none" /\ item[c.item] \in ItemState
  BY <1>1, BuildFacts DEF HandlerIsTrue, RecordIsTrue
<1>4. TRUE \in BOOLEAN
  BY Zenon
<1>5. /\ Refreshed(c) \in BuildRecord /\ Refreshed(c).status \notin {"none", "removed"}
      /\ Refreshed(c).item = c.item /\ RecordIsTrue(Refreshed(c), item)
  <2>1. CASE c.started
    <3> DEFINE status == IF item[c.item] = "aborted" THEN "canceled" ELSE item[c.item]
    <3>1. /\ item[c.item] \in {"running", "succeeded", "failed", "aborted"}
          /\ status \in {"running"} \cup Ended
          /\ status = "running" => item[c.item] = "running"
          /\ status # "running" => ~Runs(item[c.item])
      BY <1>3, <2>1 DEF RecordIsTrue, Ended, Runs
    <3>2. Refreshed(c) = [c EXCEPT !.status = status]
      BY <2>1 DEF Refreshed
    <3> HIDE DEF status, c
    <3>3. /\ Refreshed(c) \in BuildRecord /\ Refreshed(c).status = status
          /\ Refreshed(c).item = c.item
      BY <1>3, <3>1, <3>2 DEF BuildRecord, Ended
    <3>4. ActiveBuild(Refreshed(c)) \/ ~Runs(item[c.item])
      BY <3>1, <3>3 DEF ActiveBuild
    <3> QED BY <1>3, <3>1, <3>3, <3>4 DEF RecordIsTrue, Ended
  <2>2. CASE ~c.started /\ item[c.item] = "cancelled"
    <3>1. Refreshed(c) = [c EXCEPT !.status = "canceled"]
      BY <2>2 DEF Refreshed
    <3> HIDE DEF c
    <3>2. /\ Refreshed(c) \in BuildRecord /\ Refreshed(c).status = "canceled"
          /\ Refreshed(c).item = c.item /\ Refreshed(c).started = c.started
      BY <1>3, <3>1 DEF BuildRecord, Ended
    <3> QED BY <1>3, <2>2, <3>2 DEF RecordIsTrue, ActiveBuild, Runs
  <2>3. CASE ~c.started /\ item[c.item] = "queued"
    BY <1>3, <2>3 DEF Refreshed
  <2>4. CASE ~c.started /\ item[c.item] \notin {"cancelled", "queued"}
    <3>1. Refreshed(c) = [c EXCEPT !.status = "running", !.started = TRUE]
      BY <2>4 DEF Refreshed
    <3> HIDE DEF c
    <3>2. /\ Refreshed(c) \in BuildRecord /\ Refreshed(c).status = "running"
          /\ Refreshed(c).item = c.item
      BY <1>3, <1>4, <3>1 DEF BuildRecord, Ended
    <3> QED BY <1>3, <2>4, <3>2 DEF RecordIsTrue, ActiveBuild, Runs, ItemState
  <2> QED BY <2>1, <2>2, <2>3, <2>4
<1>6. /\ b \in BuildRecord /\ b.status \notin {"none", "removed"} /\ b.item = c.item
      /\ RecordIsTrue(b, item)
  BY <1>3, <1>5
<1>7. RecordIsTrue(b, item')
  BY <1>1, <1>6
<1>8. handler' = [handler EXCEPT ![h] = [handler[h] EXCEPT !.at = "write", !.copy = b]]
  BY <1>2 DEF Now
<1> QED BY <1>1, <1>6, <1>7, <1>8, BuildFacts, CopyGoesOn DEF Copies

\* What is stopped has ended, or does not begin.
LEMMA StopBuildStep ==
    ASSUME BuildInv, NEW h \in Handlers, StopBuild(h)
    PROVE  BuildInv'
<1> DEFINE c == handler[h].copy
<1>1. handler[h].at = "cancel" /\ UNCHANGED <<build, pipeline, broken>>
  BY DEF StopBuild, Waits
<1>2. /\ c \in BuildRecord /\ c.status \notin {"none", "removed"} /\ RecordIsTrue(c, item)
      /\ c.item \in Items /\ item[c.item] # "none" /\ item \in [Items -> ItemState]
  BY <1>1, BuildFacts DEF HandlerIsTrue, RecordIsTrue
<1>3. CASE Now(h, Ready) /\ UNCHANGED item
  BY <1>1, <1>3, NothingHandled, HandlerAsks DEF Now
<1>4. ASSUME Now(h, [handler[h] EXCEPT !.at = "write", !.copy.status = "canceled"]),
             item' \in [Items -> ItemState], \A i \in Items : Moves(item[i], item'[i]),
             ~Runs(item'[c.item]), item'[c.item] # "none",
             \A i \in Items : i # c.item => item'[i] = item[i],
             c.started => item'[c.item] \in {"running", "succeeded", "failed", "aborted"}
      PROVE  BuildInv'
  <2> DEFINE b == [c EXCEPT !.status = "canceled"]
  <2>1. handler' = [handler EXCEPT ![h] = [handler[h] EXCEPT !.at = "write", !.copy = b]]
    BY <1>4 DEF Now
  <2> HIDE DEF c
  <2>2. /\ b \in BuildRecord /\ b.status = "canceled" /\ b.item = c.item /\ b.started = c.started
    BY <1>2 DEF BuildRecord, Ended
  <2> HIDE DEF b
  <2>3. RecordIsTrue(b, item')
    BY <1>2, <1>4, <2>2 DEF RecordIsTrue
  <2> QED BY <1>1, <1>4, <2>1, <2>2, <2>3, CopyGoesOn DEF Copies, c
<1>5. CASE /\ c.started /\ item' = [item EXCEPT ![c.item] = IF @ = "running" THEN "aborted" ELSE @]
           /\ Now(h, [handler[h] EXCEPT !.at = "write", !.copy.status = "canceled"])
  <2> HIDE DEF c
  <2>1. item[c.item] \in {"running", "succeeded", "failed", "aborted"}
    BY <1>2, <1>5 DEF RecordIsTrue
  <2>2. /\ item'[c.item] = IF item[c.item] = "running" THEN "aborted" ELSE item[c.item]
        /\ \A i \in Items : i # c.item => item'[i] = item[i]
    BY <1>2, <1>5
  <2>3. item' \in [Items -> ItemState]
    BY <1>2, <1>5, <2>1 DEF ItemState
  <2>4. /\ ~Runs(item'[c.item]) /\ item'[c.item] # "none"
        /\ item'[c.item] \in {"running", "succeeded", "failed", "aborted"}
        /\ \A i \in Items : Moves(item[i], item'[i])
    BY <2>1, <2>2 DEF Runs, Moves
  <2> QED BY <1>4, <1>5, <2>2, <2>3, <2>4
<1>6. CASE /\ ~c.started /\ item[c.item] = "queued" /\ item' = [item EXCEPT ![c.item] = "cancelled"]
           /\ Now(h, [handler[h] EXCEPT !.at = "write", !.copy.status = "canceled"])
  <2> HIDE DEF c
  <2>1. /\ item'[c.item] = "cancelled" /\ item' \in [Items -> ItemState]
        /\ \A i \in Items : i # c.item => item'[i] = item[i]
    BY <1>2, <1>6 DEF ItemState
  <2>2. /\ ~Runs(item'[c.item]) /\ item'[c.item] # "none"
        /\ \A i \in Items : Moves(item[i], item'[i])
    BY <1>6, <2>1 DEF Runs, Moves
  <2> QED BY <1>4, <1>6, <2>1, <2>2
<1> QED BY <1>3, <1>5, <1>6 DEF StopBuild

\* What is written over an active record is not ended unless its item is: an item never goes back.
LEMMA WriteBuildStep ==
    ASSUME BuildInv, NEW h \in Handlers, WriteBuild(h)
    PROVE  BuildInv'
<1> DEFINE b == handler[h].copy
           r == handler[h].row
<1>1. /\ handler[h].at = "write" /\ UNCHANGED <<item, pipeline, broken>>
      /\ build' = [build EXCEPT ![r] = b] /\ handler' = [handler EXCEPT ![h] = Ready]
  BY DEF WriteBuild, Waits, Now
<1>2. /\ b \in BuildRecord /\ b.status \notin {"none", "removed"} /\ RecordIsTrue(b, item)
      /\ r \in Builds /\ (build[r].status \notin {"none", "removed"} => b.item = build[r].item)
  BY <1>1, BuildFacts DEF HandlerIsTrue
<1>3. \A g \in Handlers : Copies(g) /\ handler[g].row = r => handler[g].copy.item = b.item
  BY <1>1 DEF BuildInv, CopiesAgree, Copies
<1>4. \A g \in Handlers : g # h /\ Copies(g) /\ handler[g].row = r => handler[g].copy.item = b.item
  BY <1>3
<1>5. handler[h].at \in {"join", "store"} => ActiveBuild(b) /\ b.item = handler[h].item
  BY <1>1
<1>6. Ready \in HandlerRecord /\ Ready.at \in {"ready", "answered"}
  BY NothingHandled
<1> HIDE DEF b, r
<1>7. UNCHANGED <<item, pipeline, broken>>
  BY <1>1
<1>8. /\ handler' \in [Handlers -> HandlerRecord] /\ handler'[h] = Ready
      /\ \A g \in Handlers : g # h => handler'[g] = handler[g]
      /\ build' \in [Builds -> BuildRecord] /\ build'[r] = b
      /\ \A q \in Builds : q # r => build'[q] = build[q]
  BY <1>1, <1>2, <1>6 DEF BuildInv, BuildTypeOK
<1>9. b \in BuildRecord /\ r \in Builds
  BY <1>2
<1>10. b.status \notin {"none", "removed"} /\ RecordIsTrue(b, item)
  BY <1>2
<1>11. build[r].status \notin {"none", "removed"} => b.item = build[r].item
  BY <1>2
<1> QED BY <1>4, <1>5, <1>6, <1>7, <1>8, <1>9, <1>10, <1>11, RecordIsWritten

\* Nothing is removed while a build is active.
LEMMA DeletePipelineStep == ASSUME BuildInv, DeletePipeline PROVE BuildInv'
<1>0. /\ build \in [Builds -> BuildRecord] /\ NoRecordIsNothing /\ item \in [Items -> ItemState]
      /\ handler \in [Handlers -> HandlerRecord] /\ broken \in BOOLEAN
  BY DEF BuildInv, BuildTypeOK
<1>1. pipeline' = FALSE /\ UNCHANGED <<item, handler, broken>> /\ ActiveRows = {}
  BY DEF DeletePipeline
<1>2. \A r \in Builds : build'[r] = build[r] \/ (build'[r] = Removed /\ build[r].status # "none")
  <2>1. CASE build' = build
    BY <2>1
  <2>2. CASE build' = [r \in Builds |-> IF r \in Rows THEN Removed ELSE build[r]]
    BY <1>0, <2>2 DEF Rows, NoRecordIsNothing
  <2> QED BY <2>1, <2>2 DEF DeletePipeline
<1>3. build' \in [Builds -> BuildRecord]
  BY <1>0, NothingHandled DEF DeletePipeline
<1>4. FALSE \in BOOLEAN
  BY Zenon
<1>5. BuildTypeOK'
  BY <1>0, <1>1, <1>3, <1>4 DEF BuildTypeOK
<1>6. NoRecordIsNothing'
  BY <1>0, <1>2, NothingHandled DEF NoRecordIsNothing
<1>7. CopiesAgree'
  BY <1>1 DEF BuildInv, CopiesAgree, Copies
<1>8. \A r \in Builds : RecordIsTrue(build[r], item)'
  BY <1>1, <1>2, NothingHandled DEF BuildInv, RecordIsTrue
<1>9. \A h \in Handlers : HandlerIsTrue(handler[h], item, build)'
  BY <1>1, <1>2, NothingHandled DEF BuildInv, HandlerIsTrue, RecordIsTrue
<1>10. NothingBuildsUnseen'
  <2>1. \A r \in Builds : ~ActiveBuild(build[r])
    BY <1>1, NothingHandled DEF ActiveRows, Rows, ActiveBuild
  <2>2. ASSUME NEW i \in Items, Runs(item'[i]), ~broken' PROVE Seen(i)'
    <3>1. Seen(i)
      BY <1>0, <1>1, <2>2, UnseenMeans DEF BuildInv
    <3> QED BY <1>1, <2>1, <3>1 DEF Seen
  <2> QED BY <1>6, <2>2, UnseenMeansNext
<1> QED BY <1>5, <1>6, <1>7, <1>8, <1>9, <1>10 DEF BuildInv

\* A handler that ends between Trigger and Store leaves an item unseen, and broken says so.
LEMMA HangUpStep ==
    ASSUME BuildInv, NEW h \in Handlers, HangUp(h)
    PROVE  BuildInv'
<1>1. /\ broken' = (broken \/ handler[h].at \in {"join", "store"})
      /\ handler' = [handler EXCEPT ![h] = Ready] /\ UNCHANGED <<item, build, pipeline>>
  BY DEF HangUp, Now
<1>2. broken' \in BOOLEAN
  BY <1>1, Zenon
<1>3. item' \in [Items -> ItemState] /\ \A i \in Items : Moves(item[i], item'[i]) /\ item'[i] = item[i]
  BY <1>1, BuildFacts
<1>4. HandlerIsTrue(Ready, item', build)
  BY NothingHandled DEF HandlerIsTrue
<1>5. broken => broken'
  BY <1>1, Zenon
<1>6. handler[h].at \in {"join", "store"} => broken'
  BY <1>1, Zenon
<1>7. Ready \in HandlerRecord /\ Ready.at = "ready"
  BY NothingHandled
<1> QED BY <1>1, <1>2, <1>3, <1>4, <1>5, <1>6, <1>7, HandlerGoesOn

\* Jenkins goes on by itself.
LEMMA JenkinsStep == ASSUME BuildInv, StartItem \/ EndItem PROVE BuildInv'
<1>0. /\ build \in [Builds -> BuildRecord] /\ NoRecordIsNothing /\ item \in [Items -> ItemState]
      /\ handler \in [Handlers -> HandlerRecord] /\ broken \in BOOLEAN
  BY DEF BuildInv, BuildTypeOK
<1>1. UNCHANGED <<build, pipeline, handler, broken>>
  BY DEF StartItem, EndItem
<1>2. PICK i \in Items :
        \/ item[i] = "queued" /\ item' = [item EXCEPT ![i] = "running"]
        \/ item[i] = "running" /\ \E end \in Results : item' = [item EXCEPT ![i] = end]
  BY Zenon DEF StartItem, EndItem, Queued
<1>3. PICK to : /\ item' = [item EXCEPT ![i] = to]
                /\ \/ item[i] = "queued" /\ to = "running"
                   \/ item[i] = "running" /\ to \in {"succeeded", "failed"}
  BY <1>2
<1>4. /\ item' \in [Items -> ItemState] /\ item'[i] = to
      /\ \A j \in Items : j # i => item'[j] = item[j]
  BY <1>0, <1>3 DEF ItemState
<1>5. \A j \in Items : Moves(item[j], item'[j]) /\ (Runs(item'[j]) => Runs(item[j]))
  BY <1>3, <1>4 DEF Moves, Runs
<1>6. BuildTypeOK' /\ NoRecordIsNothing' /\ CopiesAgree'
  BY <1>1, <1>4 DEF BuildInv, BuildTypeOK, NoRecordIsNothing, CopiesAgree, Copies
<1>7. \A r \in Builds : RecordIsTrue(build[r], item')
  <2>1. ASSUME NEW r \in Builds PROVE RecordIsTrue(build[r], item')
    <3>1. RecordIsTrue(build[r], item) /\ build[r] \in BuildRecord
      BY <1>0 DEF BuildInv
    <3> QED BY <1>5, <3>1, RecordStaysTrue
  <2> QED BY <2>1
<1>8. \A g \in Handlers : HandlerIsTrue(handler[g], item', build)
  <2>1. ASSUME NEW g \in Handlers PROVE HandlerIsTrue(handler[g], item', build)
    <3>1. HandlerIsTrue(handler[g], item, build) /\ handler[g] \in HandlerRecord
      BY <1>0 DEF BuildInv
    <3> QED BY <1>5, <3>1, HandlerStaysTrue
  <2> QED BY <2>1
<1>9. NothingBuildsUnseen'
  <2>1. ASSUME NEW j \in Items, Runs(item'[j]), ~broken' PROVE Seen(j)'
    <3>1. Seen(j)
      BY <1>0, <1>1, <1>5, <2>1, UnseenMeans DEF BuildInv
    <3> QED BY <1>1, <3>1 DEF Seen
  <2> QED BY <1>6, <2>1, UnseenMeansNext
<1>10. (\A r \in Builds : RecordIsTrue(build[r], item)') /\ \A g \in Handlers : HandlerIsTrue(handler[g], item, build)'
  BY <1>1, <1>7, <1>8 DEF RecordIsTrue, HandlerIsTrue
<1> QED BY <1>6, <1>9, <1>10 DEF BuildInv

\* Nothing is built at the start.
LEMMA BuildStarts == BuildInit => BuildInv
<1> SUFFICES ASSUME BuildInit PROVE BuildInv
  OBVIOUS
<1>1. TRUE \in BOOLEAN /\ FALSE \in BOOLEAN
  BY Zenon
<1>2. BuildTypeOK
  BY <1>1, NothingHandled DEF BuildInit, BuildTypeOK, ItemState
<1>3. NoRecordIsNothing /\ CopiesAgree
  BY NothingHandled DEF BuildInit, NoRecordIsNothing, CopiesAgree, Copies
<1>4. \A r \in Builds : RecordIsTrue(build[r], item)
  BY NothingHandled DEF BuildInit, RecordIsTrue
<1>5. \A h \in Handlers : HandlerIsTrue(handler[h], item, build)
  BY NothingHandled DEF BuildInit, HandlerIsTrue
<1>6. NothingBuildsUnseen
  BY DEF BuildInit, NothingBuildsUnseen
<1> QED BY <1>2, <1>3, <1>4, <1>5, <1>6 DEF BuildInv

\* BuildInv holds of every behaviour: records, handlers and the items of Jenkins are in step
\* unless a handler ended between triggering and storing.
THEOREM BuildsInvariant == BuildSpec => []BuildInv
<1>1. BuildInv /\ [BuildNext]_buildVars => BuildInv'
  <2> SUFFICES ASSUME BuildInv, [BuildNext]_buildVars PROVE BuildInv'
    OBVIOUS
  <2>1. ASSUME NEW h \in Handlers,
               RequestBuild(h) \/ LookForDelivery(h) \/ Trigger(h) \/ Join(h) \/ Store(h)
        PROVE  BuildInv'
    BY <2>1, RequestBuildStep, LookForDeliveryStep, TriggerStep, JoinStep, StoreStep
  <2>2. ASSUME NEW h \in Handlers,
               Answered(h) \/ AskJenkins(h) \/ StopBuild(h) \/ WriteBuild(h) \/ HangUp(h)
        PROVE  BuildInv'
    BY <2>2, AnsweredStep, AskJenkinsStep, StopBuildStep, WriteBuildStep, HangUpStep
  <2>3. ASSUME NEW h \in Handlers, NEW r \in Builds, RequestRetry(h, r) \/ ReadBuild(h, r)
        PROVE  BuildInv'
    BY <2>3, RequestRetryStep, ReadBuildStep
  <2>4. CASE UNCHANGED buildVars
    BY <2>4 DEF buildVars, BuildInv, BuildTypeOK, NoRecordIsNothing, CopiesAgree, Copies,
                RecordIsTrue, HandlerIsTrue, NothingBuildsUnseen, ActiveRows, Rows
  <2> QED BY <2>1, <2>2, <2>3, <2>4, DeletePipelineStep, JenkinsStep DEF BuildNext, Handle
<1> QED BY <1>1, BuildStarts, PTL DEF BuildSpec

\* What Jenkins has accepted and not finished has an active record, or a handler that is about
\* to write one (internal/cicd/service.go, TriggerBuild and refreshBuild), for any number of
\* handlers, deliveries, items and records.
THEOREM NothingBuildsUnseenHolds == BuildSpec => []NothingBuildsUnseen
BY BuildsInvariant, PTL DEF BuildInv

-------------------------------------------------------------------------------
(* The pipeline.                                                           *)

USE PipelineSyncAssumption

Statuses == {"none", "pending", "ready", "failed"}
RowRecord == [config : Nat, status : Statuses, secret : Nat]
\* The stages in which the copy of a request is a copy of the row as it is, if it is
\* not stale.
Copying == {"pinSaved", "pinAgain", "pin", "pinJob", "parameter", "delivery", "resave",
            "provision", "commit", "upsert", "fail", "rotate"}
Stages == Copying \cup {"none", "save", "credentials", "prepare", "finish", "record", "erase"}
RequestRecord ==
    [at : Stages, copy : RowRecord, stale : BOOLEAN, committed : Nat]

PipelineTypeOK ==
    /\ jobRow \in RowRecord
    /\ jenkinsfile \in 0 .. configs /\ jenkins \in 0 .. configs
    /\ handled \in [RowRequests -> RequestRecord]
    /\ issued \in Nat /\ configs \in Nat /\ crossed \in BOOLEAN

\* Configs are given out in order, and only a job without a row has none.
RequestIsGiven(h, last) ==
    /\ h.copy.config \in 0 .. last /\ h.committed \in 0 .. last
    /\ h.at \in Copying \cup {"save", "finish"} => h.copy.config # 0
    /\ h.at = "prepare" => h.committed # 0

ConfigsAreGiven ==
    /\ jobRow.config \in 0 .. configs
    /\ HasRow <=> jobRow.config # 0
    /\ \A r \in RowRequests : RequestIsGiven(handled[r], configs)

Erasing == \E r \in RowRequests : RequestAt(r, "erase")
Synchronized == jenkinsfile = jobRow.config /\ jenkins = jobRow.config

\* What a request knows of the row, if it is not stale, and what it is about to say
\* of Jenkins.  A Jenkinsfile that has been committed is replaced by that of a newer
\* row only.
RequestIsTrue(h) ==
    /\ h.at = "prepare" /\ h.committed = jobRow.config => jenkinsfile = jobRow.config
    /\ ~h.stale =>
         /\ h.at \in Copying => h.copy = jobRow
         /\ h.at \in {"pinJob", "upsert"} => jenkinsfile = jobRow.config
         /\ h.at = "finish" => /\ h.copy.config = jobRow.config
                               /\ h.copy.secret = jobRow.secret
                               /\ h.copy.status = "ready" => Erasing \/ Synchronized
         /\ h.at = "save" => /\ h.copy.secret = jobRow.secret
                             /\ jobRow.config < h.copy.config

\* A form that is about to be written is newer than all that has been committed.
FormIsNew(h) ==
    h.at = "save" /\ ~h.stale =>
        \A q \in RowRequests : handled[q].committed < h.copy.config

SyncIsTrue ==
    /\ \A r \in RowRequests : RequestIsTrue(handled[r]) /\ FormIsNew(handled[r])
    /\ jobRow.secret = issued
    /\ jobRow.status = "ready" => Erasing \/ Synchronized

PipelineInv == PipelineTypeOK /\ ConfigsAreGiven /\ (crossed \/ SyncIsTrue)

\* No pipeline, no job and no request at the start.
LEMMA PipelineStarts == PipelineInit => PipelineInv
<1> SUFFICES ASSUME PipelineInit PROVE PipelineInv
  OBVIOUS
<1> USE DEF PipelineInit, NoPipeline, NotHandling
<1>1. PipelineTypeOK
  <2>1. TRUE \in BOOLEAN /\ FALSE \in BOOLEAN
    BY Zenon
  <2>2. NoPipeline \in RowRecord /\ "none" \in Stages
    BY DEF RowRecord, Stages, Statuses
  <2>3. NotHandling \in RequestRecord
    BY <2>1, <2>2, Z3 DEF RequestRecord
  <2>4. handled \in [RowRequests -> RequestRecord]
    BY <2>3
  <2>5. crossed \in BOOLEAN
    BY <2>1, Zenon
  <2>6. 0 \in 0 .. configs /\ configs \in Nat /\ issued \in Nat
    OBVIOUS
  <2> QED BY <2>2, <2>4, <2>5, <2>6, Zenon DEF PipelineTypeOK
<1>2. ConfigsAreGiven
  BY DEF ConfigsAreGiven, RequestIsGiven, HasRow, Copying
<1>3. SyncIsTrue
  BY DEF SyncIsTrue, RequestIsTrue, FormIsNew, Copying
<1> QED BY <1>1, <1>2, <1>3 DEF PipelineInv

\* A request goes on, and the row and the Jenkinsfile stay.  The job in Jenkins may
\* only go away when the row is about to.
LEMMA RequestGoesOn ==
    ASSUME PipelineInv, NEW r \in RowRequests, NEW h \in RequestRecord,
           handled' = [handled EXCEPT ![r] = h], ~RequestAt(r, "erase"),
           UNCHANGED <<jobRow, jenkinsfile, issued>>,
           configs' \in {configs, configs + 1},
           jenkins' = jenkins \/ (jenkins' = 0 /\ h.at = "erase"),
           crossed' \in BOOLEAN, crossed => crossed',
           RequestIsGiven(h, configs'), h.committed \in {0, handled[r].committed},
           ~crossed' /\ h.at # "erase" => RequestIsTrue(h) /\ FormIsNew(h)
    PROVE  PipelineInv'
<1>0. /\ handled \in [RowRequests -> RequestRecord] /\ jobRow \in RowRecord
      /\ jenkinsfile \in 0 .. configs /\ jenkins \in 0 .. configs /\ configs \in Nat /\ issued \in Nat
  BY DEF PipelineInv, PipelineTypeOK
<1>1. PipelineTypeOK'
  BY <1>0 DEF PipelineTypeOK
<1>2. ConfigsAreGiven'
  BY <1>0 DEF PipelineInv, ConfigsAreGiven, RequestIsGiven, HasRow
<1>3. (\A q \in RowRequests : q # r => handled'[q] = handled[q]) /\ handled'[r] = h
  BY <1>0
<1>4. (Erasing => Erasing') /\ (h.at = "erase" => Erasing')
  BY <1>3, Zenon DEF Erasing, RequestAt
<1>5. Synchronized => Erasing' \/ Synchronized'
  BY <1>4 DEF Synchronized
<1>6. ASSUME ~crossed' PROVE SyncIsTrue'
  <2>1. SyncIsTrue
    BY <1>6 DEF PipelineInv
  <2>2. \A q \in RowRequests : handled'[q].committed \in {0, handled[q].committed}
    BY <1>3
  <2>3. ASSUME NEW q \in RowRequests PROVE RequestIsTrue(handled[q])' /\ FormIsNew(handled[q])'
    <3>1. CASE q = r /\ h.at = "erase"
      BY <1>3, <3>1 DEF RequestIsTrue, FormIsNew, Copying
    <3>2. CASE ~(q = r /\ h.at = "erase")
      <4>1. RequestIsTrue(handled'[q]) /\ FormIsNew(handled'[q]) /\ RequestIsGiven(handled[q], configs)'
        BY <1>2, <1>3, <1>6, <2>1, <3>2 DEF SyncIsTrue, ConfigsAreGiven
      <4>2. RequestIsTrue(handled[q])'
        BY <1>4, <1>5, <4>1 DEF RequestIsTrue
      <4>3. handled'[q].at = "save" => 0 < handled'[q].copy.config
        BY <1>0, <4>1 DEF RequestIsGiven
      <4>4. FormIsNew(handled[q])'
        BY <2>2, <4>1, <4>3 DEF FormIsNew
      <4> QED BY <4>2, <4>4
    <3> QED BY <3>1, <3>2
  <2>4. (jobRow.secret = issued /\ (jobRow.status = "ready" => Erasing \/ Synchronized))'
    BY <1>4, <1>5, <2>1 DEF SyncIsTrue
  <2> QED BY <2>3, <2>4 DEF SyncIsTrue
<1> QED BY <1>1, <1>2, <1>6 DEF PipelineInv

\* A request writes a row that is not new, or is that of a newer form.
LEMMA RowIsWritten ==
    ASSUME PipelineInv, NEW r \in RowRequests, NEW row \in RowRecord, NEW then \in RequestRecord,
           Writes(r, row, then), ~RequestAt(r, "erase"),
           UNCHANGED <<jenkinsfile, jenkins, configs>>, issued' \in Nat,
           row.config \in 1 .. configs,
           then.stale = FALSE, then.copy \in {row, NoPipeline}, then.copy = NoPipeline => then.at = "none",
           then.at \notin {"save", "finish", "prepare"},
           then.committed \in {0, handled[r].committed},
           ~crossed' =>
              /\ row.secret = issued'
              /\ row.status = "ready" => Erasing \/ (jenkinsfile = row.config /\ jenkins = row.config)
              /\ then.at \in {"pinJob", "upsert"} => jenkinsfile = row.config
              /\ row.config # jobRow.config =>
                    jobRow.config < row.config /\ \A q \in RowRequests : handled[q].committed < row.config
    PROVE  PipelineInv'
<1> USE DEF Writes, Becomes
<1>0. /\ handled \in [RowRequests -> RequestRecord] /\ jobRow \in RowRecord
      /\ jenkinsfile \in 0 .. configs /\ jenkins \in 0 .. configs
      /\ configs \in Nat /\ crossed \in BOOLEAN
  BY DEF PipelineInv, PipelineTypeOK
<1>1. /\ jobRow' = row
      /\ handled'[r] = then
      /\ DOMAIN handled' = RowRequests
  OBVIOUS
<1>2. ASSUME NEW q \in RowRequests, q # r
      PROVE  /\ handled'[q] \in RequestRecord
             /\ handled'[q].at = handled[q].at
             /\ handled'[q].copy = handled[q].copy
             /\ handled'[q].committed = handled[q].committed
             /\ ~handled'[q].stale => ~handled[q].stale /\ row = jobRow
  <2>1. handled'[q] = [handled[q] EXCEPT !.stale = @ \/ row # jobRow]
    BY <1>2
  <2>2. (handled[q].stale \/ row # jobRow) \in BOOLEAN
    BY Zenon
  <2>3. handled[q] \in RequestRecord
    BY <1>0
  <2> QED BY <2>1, <2>2, <2>3 DEF RequestRecord
<1>3. PipelineTypeOK'
  <2>1. handled' \in [RowRequests -> RequestRecord]
    BY <1>0, <1>1, <1>2
  <2>2. crossed' \in BOOLEAN
    BY Zenon
  <2> QED BY <1>0, <2>1, <2>2 DEF PipelineTypeOK
<1>4. ConfigsAreGiven'
  <2>1. RequestIsGiven(handled[r], configs)
    BY DEF PipelineInv, ConfigsAreGiven
  <2>2. RequestIsGiven(handled[r], configs)'
    BY <1>0, <1>1, <2>1 DEF RequestIsGiven, NoPipeline, Copying
  <2>3. ASSUME NEW q \in RowRequests, q # r PROVE RequestIsGiven(handled[q], configs)'
    BY <1>2, <2>3 DEF PipelineInv, ConfigsAreGiven, RequestIsGiven
  <2>4. jobRow'.config \in 0 .. configs' /\ (HasRow <=> jobRow.config # 0)'
    BY <1>0 DEF HasRow, NoPipeline
  <2> QED BY <2>2, <2>3, <2>4 DEF ConfigsAreGiven
<1>5. Erasing => Erasing'
  BY <1>2 DEF Erasing, RequestAt
<1>6. ASSUME ~crossed' PROVE SyncIsTrue'
  <2>1. SyncIsTrue /\ ~handled[r].stale
    BY <1>6 DEF PipelineInv
  <2>2. ASSUME NEW q \in RowRequests PROVE RequestIsTrue(handled[q])' /\ FormIsNew(handled[q])'
    <3>1. CASE q = r
      BY <1>1, <1>6, <3>1 DEF RequestIsTrue, FormIsNew, NoPipeline, Copying
    <3>2. CASE q # r
      <4>1. RequestIsTrue(handled[q])'
        <5>1. row.config # jobRow.config => handled[q].committed < row.config
          BY <1>6
        <5>2. handled[q].committed \in Nat /\ row.config \in Nat
          BY <1>0 DEF RequestRecord
        <5>3. RequestIsTrue(handled[q])
          BY <2>1 DEF SyncIsTrue
        <5> QED BY <1>2, <1>5, <3>2, <5>1, <5>2, <5>3, SMTT(30) DEF RequestIsTrue, Synchronized
      <4>2. FormIsNew(handled[q])'
        <5>1. FormIsNew(handled[q]) /\ RequestIsGiven(handled[q], configs)
          BY <2>1 DEF SyncIsTrue, PipelineInv, ConfigsAreGiven
        <5>2. handled[q].at = "save" => 0 < handled[q].copy.config
          BY <1>0, <5>1 DEF RequestIsGiven
        <5>3. \A p \in RowRequests : handled'[p].committed \in {0, handled[p].committed}
          BY <1>1, <1>2
        <5> QED BY <1>2, <3>2, <5>1, <5>2, <5>3 DEF FormIsNew
      <4> QED BY <4>1, <4>2
    <3> QED BY <3>1, <3>2
  <2>3. (jobRow.secret = issued /\ (jobRow.status = "ready" => Erasing \/ Synchronized))'
    BY <1>5, <1>6 DEF Synchronized
  <2> QED BY <2>2, <2>3 DEF SyncIsTrue
<1> QED BY <1>3, <1>4, <1>6 DEF PipelineInv

\* The two ways a request writes: it goes on with what it has written, or ends.
LEMMA RowIsWrittenOn ==
    ASSUME PipelineInv, NEW r \in RowRequests, NEW row \in RowRecord, NEW stage \in Copying,
           WritesOn(r, row, stage), ~RequestAt(r, "erase"),
           UNCHANGED <<jenkinsfile, jenkins, configs, issued>>,
           row.config \in 1 .. configs,
           ~crossed' =>
              /\ row.secret = issued
              /\ row.status = "ready" => Erasing \/ (jenkinsfile = row.config /\ jenkins = row.config)
              /\ stage \in {"pinJob", "upsert"} => jenkinsfile = row.config
              /\ row.config # jobRow.config =>
                    jobRow.config < row.config /\ \A q \in RowRequests : handled[q].committed < row.config
    PROVE  PipelineInv'
<1> DEFINE then == [handled[r] EXCEPT !.at = stage, !.copy = row, !.stale = FALSE]
<1>1. then \in RequestRecord
  <2>1. FALSE \in BOOLEAN
    BY Zenon
  <2> QED BY <2>1 DEF PipelineInv, PipelineTypeOK, RequestRecord, Stages
<1>2. /\ then.stale = FALSE /\ then.copy = row /\ then.at = stage
      /\ then.committed = handled[r].committed
  BY DEF PipelineInv, PipelineTypeOK, RequestRecord
<1>3. row # NoPipeline /\ issued' \in Nat /\ stage \notin {"save", "finish", "prepare"}
  BY DEF PipelineInv, PipelineTypeOK, NoPipeline, Copying
<1>4. Writes(r, row, then)
  BY DEF WritesOn
<1> HIDE DEF then
<1> QED BY <1>1, <1>2, <1>3, <1>4, RowIsWritten

\* A request that writes the row and ends: what the invariant asks of the row it writes.
LEMMA RowIsWrittenLast ==
    ASSUME PipelineInv, NEW r \in RowRequests, NEW row \in RowRecord,
           Writes(r, row, NotHandling), ~RequestAt(r, "erase"),
           UNCHANGED <<jenkinsfile, jenkins, configs>>, issued' \in Nat,
           row.config \in 1 .. configs,
           ~crossed' =>
              /\ row.secret = issued'
              /\ row.status = "ready" => Erasing \/ (jenkinsfile = row.config /\ jenkins = row.config)
              /\ row.config = jobRow.config
    PROVE  PipelineInv'
<1>1. NotHandling \in RequestRecord
  <2>1. FALSE \in BOOLEAN
    BY Zenon
  <2>2. NoPipeline \in RowRecord /\ "none" \in Stages
    BY DEF RowRecord, Stages, Statuses, NoPipeline
  <2> QED BY <2>1, <2>2 DEF RequestRecord, NotHandling
<1>2. /\ NotHandling.stale = FALSE /\ NotHandling.copy = NoPipeline
      /\ NotHandling.at = "none" /\ NotHandling.committed = 0
  BY DEF NotHandling
<1> QED BY <1>1, <1>2, RowIsWritten

\* What a request that copies the row has, and what it may count on unless it is stale.
LEMMA CopyIsGiven ==
    ASSUME PipelineInv, NEW r \in RowRequests,
           handled[r].at \in Copying \cup {"save", "finish"}
    PROVE  /\ handled[r] \in RequestRecord /\ handled[r].copy \in RowRecord
           /\ handled[r].copy.config \in 1 .. configs
           /\ ~crossed /\ ~handled[r].stale =>
                /\ handled[r].copy.secret = issued
                /\ handled[r].at \in Copying =>
                     /\ handled[r].copy = jobRow
                     /\ jobRow.status = "ready" => Erasing \/ Synchronized
<1>1. handled[r] \in RequestRecord /\ configs \in Nat
  BY DEF PipelineInv, PipelineTypeOK
<1>2. handled[r].copy.config \in 1 .. configs
  BY <1>1 DEF PipelineInv, ConfigsAreGiven, RequestIsGiven
<1>3. handled[r].copy \in RowRecord
  BY <1>1 DEF RequestRecord
<1> QED BY <1>1, <1>2, <1>3 DEF PipelineInv, SyncIsTrue, RequestIsTrue

\* The form is saved before anything is provisioned for it.
LEMMA WriteFormStep ==
    ASSUME PipelineInv, NEW r \in RowRequests, WriteForm(r)
    PROVE  PipelineInv'
<1> DEFINE row == Saved(handled[r].copy, handled[r].copy)
<1>1. /\ RequestAt(r, "save") /\ WritesOn(r, row, "pinSaved")
      /\ UNCHANGED <<jenkinsfile, jenkins, configs, issued>>
  BY DEF WriteForm
<1>2. row \in RowRecord /\ row.config = handled[r].copy.config /\ row.status = "pending"
      /\ row.secret = handled[r].copy.secret
  BY <1>1, CopyIsGiven DEF RequestAt, RowRecord, Statuses, Saved
<1> HIDE DEF row
<1>3. row.config \in 1 .. configs
  BY <1>1, <1>2, CopyIsGiven DEF RequestAt
<1>4. ~crossed' => /\ row.secret = issued
                   /\ jobRow.config < row.config
                   /\ \A q \in RowRequests : handled[q].committed < row.config
  BY <1>1, <1>2, CopyIsGiven DEF WritesOn, Writes, PipelineInv, SyncIsTrue, RequestIsTrue, FormIsNew, RequestAt
<1> QED BY <1>1, <1>2, <1>3, <1>4, RowIsWrittenOn DEF Copying, RequestAt

\* Pinning the repositories writes the copy of the row, ready no more or unchanged.
LEMMA PinStep ==
    ASSUME PipelineInv, NEW r \in RowRequests, Pin(r)
    PROVE  PipelineInv'
<1> DEFINE next == After[handled[r].at]
<1>1. PICK row \in Pinned(handled[r].copy) :
         /\ handled[r].at \in DOMAIN After
         /\ IF next = "none" THEN Writes(r, row, NotHandling) ELSE WritesOn(r, row, next)
         /\ UNCHANGED <<jenkinsfile, jenkins, configs, issued>>
  BY DEF Pin
<1>2. /\ handled[r].at \in {"pinSaved", "pinAgain", "pin", "pinJob"}
      /\ next \in {"none", "provision", "commit", "upsert"}
      /\ next = "upsert" => RequestAt(r, "pinJob")
  BY <1>1 DEF After, RequestAt
<1>3. handled[r].at \in Copying /\ ~RequestAt(r, "erase")
  BY <1>2 DEF Copying, RequestAt
<1>4. /\ row \in RowRecord /\ row.config = handled[r].copy.config
      /\ row.secret = handled[r].copy.secret
      /\ row.status = "ready" => row = handled[r].copy
  BY <1>3, CopyIsGiven DEF Pinned, RowRecord, Statuses
<1>5. row.config \in 1 .. configs /\ issued' = issued /\ issued \in Nat
  BY <1>1, <1>3, <1>4, CopyIsGiven DEF PipelineInv, PipelineTypeOK
<1>6. ~crossed' =>
         /\ row.secret = issued /\ row.config = jobRow.config
         /\ row.status = "ready" => Erasing \/ (jenkinsfile = row.config /\ jenkins = row.config)
         /\ RequestAt(r, "pinJob") => jenkinsfile = row.config
  BY <1>1, <1>3, <1>4, CopyIsGiven DEF WritesOn, Writes, Synchronized, PipelineInv, SyncIsTrue,
                                       RequestIsTrue, RequestAt
<1> HIDE DEF next
<1>7. CASE next = "none"
  BY <1>1, <1>3, <1>4, <1>5, <1>6, <1>7, RowIsWrittenLast
<1>8. CASE next # "none"
  BY <1>1, <1>2, <1>3, <1>4, <1>5, <1>6, <1>8, RowIsWrittenOn DEF Copying
<1> QED BY <1>7, <1>8

\* The row is written back as it was read, with a parameter that the model leaves out.
LEMMA SetManagedJobParameterStep ==
    ASSUME PipelineInv, NEW r \in RowRequests, SetManagedJobParameter(r)
    PROVE  PipelineInv'
<1> DEFINE row == handled[r].copy
<1>1. PICK next \in {"parameter", "delivery"} :
         /\ RequestAt(r, "parameter") /\ WritesOn(r, row, next)
         /\ UNCHANGED <<jenkinsfile, jenkins, configs, issued>>
  BY DEF SetManagedJobParameter
<1>2. handled[r].at \in Copying
  BY <1>1 DEF Copying, RequestAt
<1>3. row \in RowRecord /\ row.config \in 1 .. configs
  BY <1>2, CopyIsGiven
<1>4. ~crossed' => /\ row.secret = issued /\ row.config = jobRow.config
                   /\ row.status = "ready" => Erasing \/ (jenkinsfile = row.config /\ jenkins = row.config)
  BY <1>1, <1>2, CopyIsGiven DEF WritesOn, Writes, Synchronized
<1> HIDE DEF row
<1> QED BY <1>1, <1>3, <1>4, RowIsWrittenOn DEF Copying, RequestAt

\* The copy is saved again, with the secret of the row there is.
LEMMA SaveAgainStep ==
    ASSUME PipelineInv, NEW r \in RowRequests, SaveAgain(r)
    PROVE  PipelineInv'
<1> DEFINE row == Saved(handled[r].copy, jobRow)
<1>1. /\ RequestAt(r, "resave") /\ WritesOn(r, row, "pinAgain")
      /\ UNCHANGED <<jenkinsfile, jenkins, configs, issued>>
  BY DEF SaveAgain
<1>2. handled[r].at \in Copying
  BY <1>1 DEF Copying, RequestAt
<1>3. row \in RowRecord /\ row.config = handled[r].copy.config /\ row.status = "pending"
      /\ row.secret = jobRow.secret
  BY <1>2, CopyIsGiven DEF RowRecord, Statuses, Saved, PipelineInv, PipelineTypeOK
<1> HIDE DEF row
<1>4. row.config \in 1 .. configs
  BY <1>2, <1>3, CopyIsGiven
<1>5. ~crossed' => row.secret = issued /\ row.config = jobRow.config
  BY <1>1, <1>2, <1>3, CopyIsGiven DEF WritesOn, Writes, PipelineInv, SyncIsTrue
<1> QED BY <1>1, <1>3, <1>4, <1>5, RowIsWrittenOn DEF Copying, RequestAt

\* The row becomes ready only with the configuration that the Jenkinsfile and the job have.
LEMMA FinishStep ==
    ASSUME PipelineInv, NEW r \in RowRequests, Finish(r)
    PROVE  PipelineInv'
<1> DEFINE row == handled[r].copy
<1>1. RequestAt(r, "finish") /\ Writes(r, row, NotHandling)
      /\ UNCHANGED <<jenkinsfile, jenkins, configs, issued>>
  BY DEF Finish
<1>2. row \in RowRecord /\ row.config \in 1 .. configs
  BY <1>1, CopyIsGiven DEF RequestAt
<1>3. ~crossed' => /\ row.secret = issued /\ row.config = jobRow.config
                   /\ row.status = "ready" => Erasing \/ (jenkinsfile = row.config /\ jenkins = row.config)
  BY <1>1 DEF Writes, Synchronized, RequestAt, PipelineInv, SyncIsTrue, RequestIsTrue
<1>4. issued' = issued /\ issued \in Nat
  BY <1>1 DEF PipelineInv, PipelineTypeOK
<1> HIDE DEF row
<1> QED BY <1>1, <1>2, <1>3, <1>4, RowIsWrittenLast DEF RequestAt

\* A stage that failed is recorded in the row as it was read.
LEMMA WriteFailureStep ==
    ASSUME PipelineInv, NEW r \in RowRequests, WriteFailure(r)
    PROVE  PipelineInv'
<1> DEFINE row == [handled[r].copy EXCEPT !.status = "failed"]
<1>1. RequestAt(r, "fail") /\ Writes(r, row, NotHandling)
      /\ UNCHANGED <<jenkinsfile, jenkins, configs, issued>>
  BY DEF WriteFailure
<1>2. handled[r].at \in Copying
  BY <1>1 DEF Copying, RequestAt
<1>3. row \in RowRecord /\ row.config = handled[r].copy.config /\ row.status = "failed"
      /\ row.secret = handled[r].copy.secret
  BY <1>2, CopyIsGiven DEF RowRecord, Statuses
<1> HIDE DEF row
<1>4. row.config \in 1 .. configs /\ issued' = issued /\ issued \in Nat
  BY <1>1, <1>2, <1>3, CopyIsGiven DEF PipelineInv, PipelineTypeOK
<1>5. ~crossed' => row.secret = issued /\ row.config = jobRow.config
  BY <1>1, <1>2, <1>3, CopyIsGiven DEF Writes
<1> QED BY <1>1, <1>3, <1>4, <1>5, RowIsWrittenLast DEF RequestAt

\* A rotated secret is the one last issued when the request ends.
LEMMA WriteSecretStep ==
    ASSUME PipelineInv, NEW r \in RowRequests, WriteSecret(r)
    PROVE  PipelineInv'
<1> DEFINE row == [handled[r].copy EXCEPT !.secret = issued + 1]
<1>1. RequestAt(r, "rotate") /\ Writes(r, row, NotHandling)
      /\ UNCHANGED <<jenkinsfile, jenkins, configs>> /\ issued' = issued + 1
  BY DEF WriteSecret
<1>2. handled[r].at \in Copying
  BY <1>1 DEF Copying, RequestAt
<1>3. issued' \in Nat
  BY <1>1 DEF PipelineInv, PipelineTypeOK
<1>4. row \in RowRecord /\ row.config = handled[r].copy.config /\ row.status = handled[r].copy.status
      /\ row.secret = issued'
  BY <1>1, <1>2, <1>3, CopyIsGiven DEF RowRecord, Statuses
<1> HIDE DEF row
<1>5. row.config \in 1 .. configs
  BY <1>2, <1>4, CopyIsGiven
<1>6. ~crossed' => /\ row.config = jobRow.config
                   /\ row.status = "ready" => Erasing \/ (jenkinsfile = row.config /\ jenkins = row.config)
  BY <1>1, <1>2, <1>4, CopyIsGiven DEF Writes, Synchronized
<1> QED BY <1>1, <1>3, <1>4, <1>5, <1>6, RowIsWrittenLast DEF RequestAt

\* The request that handles nothing.
LEMMA NotHandlingIsOne ==
    /\ NotHandling \in RequestRecord /\ NotHandling.at = "none" /\ NotHandling.committed = 0
    /\ NotHandling.copy = NoPipeline /\ NotHandling.stale = FALSE
<1>1. FALSE \in BOOLEAN
  BY Zenon
<1>2. NoPipeline \in RowRecord /\ "none" \in Stages
  BY DEF RowRecord, Stages, Statuses, NoPipeline
<1> QED BY <1>1, <1>2 DEF RequestRecord, NotHandling

\* A request that ends, or that goes where it uses no copy of the row.
LEMMA RequestRests ==
    ASSUME PipelineInv, NEW r \in RowRequests, ~RequestAt(r, "erase"),
           UNCHANGED <<jobRow, jenkinsfile, jenkins, issued, configs>>,
           crossed' \in BOOLEAN, crossed => crossed',
           Over(r) \/ GoesOn(r, "credentials") \/ FailsAt(r)
    PROVE  PipelineInv'
<1>1. CASE Over(r)
  <2>1. RequestIsGiven(NotHandling, configs')
    BY NotHandlingIsOne DEF RequestIsGiven, NoPipeline, Copying, PipelineInv, PipelineTypeOK
  <2>2. RequestIsTrue(NotHandling) /\ FormIsNew(NotHandling)
    BY NotHandlingIsOne DEF RequestIsTrue, FormIsNew, Copying
  <2> QED BY <1>1, <2>1, <2>2, NotHandlingIsOne, RequestGoesOn DEF Over
<1>2. ASSUME NEW stage \in {"credentials", "record"}, GoesOn(r, stage) PROVE PipelineInv'
  <2> DEFINE h == [handled[r] EXCEPT !.at = stage]
  <2>1. h \in RequestRecord /\ h.at = stage /\ h.committed = handled[r].committed
        /\ h.copy = handled[r].copy
    BY DEF PipelineInv, PipelineTypeOK, RequestRecord, Stages
  <2>2. handled' = [handled EXCEPT ![r] = h]
    BY <1>2 DEF GoesOn
  <2> HIDE DEF h
  <2>3. RequestIsGiven(h, configs')
    BY <2>1 DEF RequestIsGiven, Copying, PipelineInv, ConfigsAreGiven
  <2>4. RequestIsTrue(h) /\ FormIsNew(h)
    BY <2>1 DEF RequestIsTrue, FormIsNew, Copying
  <2> QED BY <2>1, <2>2, <2>3, <2>4, RequestGoesOn
<1> QED BY <1>1, <1>2 DEF FailsAt

\* A request reads the row, or ends for want of one.
LEMMA RequestReads ==
    ASSUME PipelineInv, NEW r \in RowRequests, NEW stage \in {"parameter", "pin", "pinJob", "fail", "rotate", "erase"},
           ~RequestAt(r, "erase"), Reads(r, stage),
           UNCHANGED <<jobRow, jenkinsfile, issued, configs>>,
           jenkins' = jenkins \/ (jenkins' = 0 /\ stage = "erase" /\ HasRow),
           crossed' \in BOOLEAN, crossed => crossed',
           ~crossed' /\ stage = "pinJob" /\ HasRow => jenkinsfile = jobRow.config
    PROVE  PipelineInv'
<1>1. CASE ~HasRow
  BY <1>1, RequestRests DEF Reads
<1>2. CASE HasRow
  <2> DEFINE h == [handled[r] EXCEPT !.at = stage, !.copy = jobRow, !.stale = FALSE]
  <2>1. FALSE \in BOOLEAN
    BY Zenon
  <2>2. handled[r] \in RequestRecord /\ jobRow \in RowRecord /\ stage \in Stages
    BY DEF PipelineInv, PipelineTypeOK, Stages, Copying
  <2>3. h \in RequestRecord /\ h.at = stage /\ h.committed = handled[r].committed
        /\ h.copy = jobRow /\ h.stale = FALSE
    BY <2>1, <2>2 DEF RequestRecord
  <2>4. handled' = [handled EXCEPT ![r] = h]
    BY <1>2 DEF Reads
  <2> HIDE DEF h
  <2>5. RequestIsGiven(h, configs')
    BY <1>2, <2>3 DEF RequestIsGiven, PipelineInv, ConfigsAreGiven
  <2>6. ~crossed' => RequestIsTrue(h) /\ FormIsNew(h)
    BY <1>2, <2>3 DEF RequestIsTrue, FormIsNew
  <2> QED BY <2>3, <2>4, <2>5, <2>6, RequestGoesOn
<1> QED BY <1>1, <1>2

\* The steps that leave the row alone and neither commit nor call Jenkins with a configuration.
LEMMA ReadingSteps ==
    ASSUME PipelineInv, NEW r \in RowRequests,
           \/ Synchronize(r) \/ PutCredentials(r) \/ Provision(r) \/ RecordFailure(r)
           \/ Rotate(r) \/ DeleteJob(r) \/ ClientGone(r)
    PROVE  PipelineInv'
<1>0. crossed \in BOOLEAN
  BY DEF PipelineInv, PipelineTypeOK
<1>1. CASE Synchronize(r)
  BY <1>0, <1>1, RequestRests DEF Synchronize, RequestAt
<1>2. CASE PutCredentials(r)
  BY <1>0, <1>2, RequestRests, RequestReads DEF PutCredentials, RequestAt
<1>3. CASE Provision(r)
  BY <1>0, <1>3, RequestRests, RequestReads DEF Provision, RequestAt
<1>4. CASE RecordFailure(r)
  BY <1>0, <1>4, RequestReads DEF RecordFailure, RequestAt
<1>5. CASE Rotate(r)
  BY <1>0, <1>5, RequestReads DEF Rotate, RequestAt
<1>6. CASE DeleteJob(r)
  BY <1>0, <1>6, RequestReads DEF DeleteJob, RequestAt
<1>7. CASE ClientGone(r)
  BY <1>0, <1>7, RequestRests DEF ClientGone, RequestAt
<1> QED BY <1>1, <1>2, <1>3, <1>4, <1>5, <1>6, <1>7

\* The row is read anew after the commit; another configuration than the committed one is crossed.
LEMMA PrepareStep ==
    ASSUME PipelineInv, NEW r \in RowRequests, Prepare(r)
    PROVE  PipelineInv'
<1>1. ~RequestAt(r, "erase") /\ Reads(r, "pinJob")
      /\ UNCHANGED <<jobRow, jenkinsfile, jenkins, issued, configs>>
  BY DEF Prepare, RequestAt
<1>2. crossed' \in BOOLEAN /\ (crossed => crossed')
  BY Zenon DEF Prepare
<1>3. ~crossed' /\ HasRow => jenkinsfile = jobRow.config
  BY DEF Prepare, RequestAt, PipelineInv, SyncIsTrue, RequestIsTrue
<1> QED BY <1>1, <1>2, <1>3, RequestReads

\* Putting the delivery credential in place leaves the copy and the row alone.
LEMMA PutDeliveryCredentialStep ==
    ASSUME PipelineInv, NEW r \in RowRequests, PutDeliveryCredential(r)
    PROVE  PipelineInv'
<1>1. /\ RequestAt(r, "delivery") /\ UNCHANGED <<jobRow, jenkinsfile, jenkins, issued, configs, crossed>>
      /\ crossed \in BOOLEAN
  BY DEF PutDeliveryCredential, PipelineInv, PipelineTypeOK
<1>2. CASE FailsAt(r)
  BY <1>1, <1>2, RequestRests DEF RequestAt
<1>3. ASSUME NEW stage \in {"resave", "provision"}, GoesOn(r, stage) PROVE PipelineInv'
  <2> DEFINE h == [handled[r] EXCEPT !.at = stage]
  <2>1. h \in RequestRecord /\ h.at = stage /\ h.committed = handled[r].committed
        /\ h.copy = handled[r].copy /\ h.stale = handled[r].stale
    BY DEF PipelineInv, PipelineTypeOK, RequestRecord, Stages, Copying
  <2>2. handled' = [handled EXCEPT ![r] = h]
    BY <1>3 DEF GoesOn
  <2> HIDE DEF h
  <2>3. RequestIsGiven(h, configs')
    BY <1>1, <2>1 DEF RequestIsGiven, Copying, PipelineInv, ConfigsAreGiven, RequestAt
  <2>4. ~crossed' => RequestIsTrue(h) /\ FormIsNew(h)
    BY <1>1, <2>1 DEF RequestIsTrue, FormIsNew, Copying, RequestAt, PipelineInv, SyncIsTrue
  <2> QED BY <1>1, <2>1, <2>2, <2>3, <2>4, RequestGoesOn DEF RequestAt
<1> QED BY <1>2, <1>3 DEF PutDeliveryCredential

\* The row of the form, with its new configuration and a secret just issued.
LEMMA SaveStep ==
    ASSUME PipelineInv, NEW r \in RowRequests, Save(r)
    PROVE  PipelineInv'
<1> DEFINE h == [handled[r] EXCEPT !.at = "save", !.stale = FALSE,
                                   !.copy = [jobRow EXCEPT !.config = configs + 1]]
<1>0. /\ handled \in [RowRequests -> RequestRecord] /\ jobRow \in RowRecord
      /\ configs \in Nat /\ crossed \in BOOLEAN
  BY DEF PipelineInv, PipelineTypeOK
<1>1. /\ RequestAt(r, "none") /\ UNCHANGED <<jobRow, jenkinsfile, jenkins, issued, crossed>>
      /\ configs' = configs + 1 /\ handled' = [handled EXCEPT ![r] = h]
  BY DEF Save
<1>2. FALSE \in BOOLEAN
  BY Zenon
<1>3. [jobRow EXCEPT !.config = configs + 1] \in RowRecord
  BY <1>0 DEF RowRecord
<1>4. h \in RequestRecord /\ h.at = "save" /\ h.stale = FALSE /\ h.committed = handled[r].committed
  BY <1>0, <1>2, <1>3 DEF RequestRecord, Stages
<1>5. h.copy.config = configs + 1 /\ h.copy.secret = jobRow.secret
  BY <1>0 DEF RequestRecord, RowRecord
<1> HIDE DEF h
<1>6. RequestIsGiven(h, configs')
  BY <1>0, <1>1, <1>4, <1>5 DEF RequestIsGiven, Copying, PipelineInv, ConfigsAreGiven
<1>7. RequestIsTrue(h) /\ FormIsNew(h)
  BY <1>0, <1>1, <1>4, <1>5 DEF RequestIsTrue, FormIsNew, Copying, PipelineInv, ConfigsAreGiven, RequestIsGiven
<1> QED BY <1>0, <1>1, <1>4, <1>6, <1>7, RequestGoesOn DEF RequestAt

\* The Jenkinsfile is committed from the copy of the request.
LEMMA CommitJenkinsfileStep ==
    ASSUME PipelineInv, NEW r \in RowRequests, CommitJenkinsfile(r)
    PROVE  PipelineInv'
<1> DEFINE c == handled[r].copy.config
<1>0. /\ handled \in [RowRequests -> RequestRecord] /\ jobRow \in RowRecord
      /\ configs \in Nat /\ crossed \in BOOLEAN /\ issued \in Nat
  BY DEF PipelineInv, PipelineTypeOK
<1>1. RequestAt(r, "commit") /\ UNCHANGED <<jobRow, jenkins, issued, configs>>
  BY DEF CommitJenkinsfile
<1>2. c \in 1 .. configs
  BY <1>1, CopyIsGiven DEF RequestAt, Copying
<1>3. CASE FailsAt(r) /\ UNCHANGED <<jenkinsfile, crossed>>
  BY <1>0, <1>1, <1>3, RequestRests DEF RequestAt
<1>4. ASSUME jenkinsfile' = c, crossed' = (crossed \/ c # jobRow.config),
             NEW stage \in {"prepare", "record"}, NEW m \in {c, handled[r].committed},
             stage = "prepare" => m = c,
             handled' = [handled EXCEPT ![r].at = stage, ![r].committed = m]
      PROVE  PipelineInv'
  <2>1. /\ handled'[r].at = stage /\ handled'[r].copy = handled[r].copy
        /\ handled'[r].committed = m /\ handled'[r].stale = handled[r].stale
        /\ handled'[r] \in RequestRecord
    <3>1. stage \in Stages /\ handled[r] \in RequestRecord
      BY <1>0, <1>4 DEF Stages
    <3>2. m \in Nat
      BY <1>0, <1>2, <1>4 DEF RequestRecord
    <3>3. handled'[r] = [handled[r] EXCEPT !.at = stage, !.committed = m]
      BY <1>0, <1>4
    <3> HIDE DEF c
    <3> QED BY <3>1, <3>2, <3>3 DEF RequestRecord
  <2>2. \A q \in RowRequests : q # r => handled'[q] = handled[q]
    BY <1>0, <1>4
  <2>3. PipelineTypeOK'
    <3>1. handled' \in [RowRequests -> RequestRecord]
      BY <1>0, <1>4, <2>1, <2>2
    <3>2. crossed' \in BOOLEAN
      BY <1>4, Zenon
    <3> QED BY <1>0, <1>1, <1>2, <1>4, <3>1, <3>2 DEF PipelineInv, PipelineTypeOK
  <2>4. m \in 0 .. configs
    BY <1>2, <1>4 DEF PipelineInv, ConfigsAreGiven, RequestIsGiven
  <2>5. ConfigsAreGiven'
    <3>1. RequestIsGiven(handled[r], configs)'
      BY <1>1, <1>2, <1>4, <2>1, <2>4 DEF RequestIsGiven
    <3> QED BY <1>1, <2>2, <3>1 DEF PipelineInv, ConfigsAreGiven, RequestIsGiven, HasRow
  <2>6. Erasing => Erasing'
    BY <1>1, <2>1, <2>2 DEF Erasing, RequestAt
  <2>7. ASSUME ~crossed' PROVE SyncIsTrue'
    <3>1. SyncIsTrue /\ c = jobRow.config
      BY <1>4, <2>7 DEF PipelineInv
    <3>2. \A q \in RowRequests : handled'[q].committed \in {jobRow.config, handled[q].committed}
      BY <1>4, <2>1, <2>2, <3>1
    <3>3. ASSUME NEW q \in RowRequests PROVE RequestIsTrue(handled[q])' /\ FormIsNew(handled[q])'
      <4>1. CASE q = r
        BY <1>1, <1>4, <2>1, <3>1, <4>1 DEF RequestIsTrue, FormIsNew, Copying
      <4>2. CASE q # r
        <5>1. RequestIsTrue(handled[q]) /\ FormIsNew(handled[q]) /\ handled'[q] = handled[q]
          BY <2>2, <3>1, <4>2 DEF SyncIsTrue
        <5>2. RequestIsTrue(handled[q])'
          BY <1>1, <1>4, <2>6, <3>1, <5>1 DEF RequestIsTrue, Synchronized
        <5>3. FormIsNew(handled[q])'
          BY <3>2, <5>1 DEF FormIsNew, RequestIsTrue
        <5> QED BY <5>2, <5>3
      <4> QED BY <4>1, <4>2
    <3>4. (jobRow.secret = issued /\ (jobRow.status = "ready" => Erasing \/ Synchronized))'
      BY <1>1, <1>4, <2>6, <3>1 DEF SyncIsTrue, Synchronized
    <3> QED BY <3>3, <3>4 DEF SyncIsTrue
  <2> QED BY <2>3, <2>5, <2>7 DEF PipelineInv
<1>5. CASE /\ jenkinsfile' = c /\ crossed' = (crossed \/ c # jobRow.config)
           /\ handled' = [handled EXCEPT ![r].at = "prepare", ![r].committed = c]
  BY <1>4, <1>5
<1>6. CASE jenkinsfile' = c /\ crossed' = (crossed \/ c # jobRow.config) /\ FailsAt(r)
  <2>1. handled' = [handled EXCEPT ![r].at = "record", ![r].committed = handled[r].committed]
    BY <1>0, <1>6 DEF FailsAt, GoesOn, RequestRecord
  <2> QED BY <1>4, <1>6, <2>1
<1> QED BY <1>3, <1>5, <1>6 DEF CommitJenkinsfile

\* The job of Jenkins is made from the copy of the request.
LEMMA UpsertJobStep ==
    ASSUME PipelineInv, NEW r \in RowRequests, UpsertJob(r)
    PROVE  PipelineInv'
<1> DEFINE c == handled[r].copy.config
<1>0. /\ handled \in [RowRequests -> RequestRecord] /\ jobRow \in RowRecord
      /\ configs \in Nat /\ crossed \in BOOLEAN /\ issued \in Nat
  BY DEF PipelineInv, PipelineTypeOK
<1>1. PICK done \in BOOLEAN, answered \in BOOLEAN :
         /\ answered => done
         /\ jenkins' = IF done THEN c ELSE jenkins
         /\ crossed' = (crossed \/ (done /\ c # jobRow.config))
         /\ handled' = [handled EXCEPT ![r].at = "finish", ![r].copy.status = Outcome(answered)]
  BY DEF UpsertJob
<1>2. RequestAt(r, "upsert") /\ UNCHANGED <<jobRow, jenkinsfile, issued, configs>>
  BY DEF UpsertJob
<1>3. c \in 1 .. configs
  BY <1>2, CopyIsGiven DEF RequestAt, Copying
<1>4. /\ handled'[r].at = "finish" /\ handled'[r].committed = handled[r].committed
      /\ handled'[r].stale = handled[r].stale
      /\ handled'[r].copy.config = c /\ handled'[r].copy.secret = handled[r].copy.secret
      /\ handled'[r].copy.status = "ready" => done
      /\ handled'[r] \in RequestRecord
  BY <1>0, <1>1, ZenonT(60) DEF RequestRecord, RowRecord, Stages, Statuses, Outcome
<1>5. \A q \in RowRequests : q # r => handled'[q] = handled[q]
  BY <1>0, <1>1
<1>6. PipelineTypeOK'
  <2>1. handled' \in [RowRequests -> RequestRecord]
    BY <1>0, <1>1, <1>4, <1>5
  <2>2. crossed' \in BOOLEAN
    BY <1>1, Zenon
  <2>3. jenkins' \in 0 .. configs
    BY <1>1, <1>3 DEF PipelineInv, PipelineTypeOK
  <2> QED BY <1>0, <1>2, <2>1, <2>2, <2>3 DEF PipelineInv, PipelineTypeOK
<1>7. ConfigsAreGiven'
  <2>1. RequestIsGiven(handled[r], configs)'
    BY <1>2, <1>3, <1>4 DEF RequestIsGiven, PipelineInv, ConfigsAreGiven
  <2> QED BY <1>2, <1>5, <2>1 DEF PipelineInv, ConfigsAreGiven, RequestIsGiven, HasRow
<1>8. Erasing => Erasing'
  BY <1>2, <1>5 DEF Erasing, RequestAt
<1>9. ASSUME ~crossed' PROVE SyncIsTrue'
  <2>1. SyncIsTrue /\ (done => jenkins' = jobRow.config) /\ (~done => jenkins' = jenkins)
    BY <1>1, <1>9 DEF PipelineInv
  <2>2. \A q \in RowRequests : handled'[q].committed = handled[q].committed
    BY <1>4, <1>5
  <2>3. Synchronized => Synchronized'
    BY <1>2, <2>1 DEF Synchronized
  <2>4. ASSUME NEW q \in RowRequests PROVE RequestIsTrue(handled[q])' /\ FormIsNew(handled[q])'
    <3>1. CASE q = r
      <4>1. ~handled[r].stale => /\ handled[r].copy = jobRow
                                 /\ jenkinsfile = jobRow.config
        BY <1>2, <2>1 DEF SyncIsTrue, RequestIsTrue, RequestAt, Copying
      <4> QED BY <1>2, <1>4, <2>1, <3>1, <4>1 DEF RequestIsTrue, FormIsNew, Copying, Synchronized
    <3>2. CASE q # r
      <4>1. RequestIsTrue(handled[q]) /\ FormIsNew(handled[q]) /\ handled'[q] = handled[q]
        BY <1>5, <2>1, <3>2 DEF SyncIsTrue
      <4>2. RequestIsTrue(handled[q])'
        BY <1>2, <1>8, <2>3, <4>1 DEF RequestIsTrue
      <4>3. FormIsNew(handled[q])'
        BY <2>2, <4>1 DEF FormIsNew
      <4> QED BY <4>2, <4>3
    <3> QED BY <3>1, <3>2
  <2>5. (jobRow.secret = issued /\ (jobRow.status = "ready" => Erasing \/ Synchronized))'
    BY <1>2, <1>8, <2>1, <2>3 DEF SyncIsTrue
  <2> QED BY <2>4, <2>5 DEF SyncIsTrue
<1> QED BY <1>6, <1>7, <1>9 DEF PipelineInv

\* A row that is gone names nothing; one that stays without its job is crossed.
LEMMA EraseRowStep ==
    ASSUME PipelineInv, NEW r \in RowRequests, EraseRow(r)
    PROVE  PipelineInv'
<1>0. /\ handled \in [RowRequests -> RequestRecord] /\ jobRow \in RowRecord
      /\ configs \in Nat /\ crossed \in BOOLEAN /\ issued \in Nat /\ jenkinsfile \in 0 .. configs
      /\ jenkins \in 0 .. configs
  BY DEF PipelineInv, PipelineTypeOK
<1>1. NoPipeline \in RowRecord /\ NoPipeline.config = 0 /\ NoPipeline.secret = 0
      /\ NoPipeline.status = "none"
  BY DEF RowRecord, Statuses, NoPipeline
<1>2. UNCHANGED <<jenkinsfile, jenkins, configs>>
  BY DEF EraseRow
<1>3. RequestIsGiven(NotHandling, configs)
  BY <1>0, <1>1, NotHandlingIsOne DEF RequestIsGiven, Copying
<1>4. CASE Over(r) /\ crossed' = TRUE /\ UNCHANGED <<jobRow, issued>>
  <2>1. PipelineTypeOK'
    <3>1. crossed' \in BOOLEAN
      BY <1>4, Zenon
    <3> QED BY <1>0, <1>2, <1>4, <3>1, NotHandlingIsOne DEF Over, PipelineTypeOK
  <2>2. ConfigsAreGiven'
    BY <1>0, <1>2, <1>3, <1>4 DEF Over, PipelineInv, ConfigsAreGiven, RequestIsGiven, HasRow
  <2> QED BY <1>4, <2>1, <2>2 DEF PipelineInv
<1>5. CASE Becomes(r, NoPipeline, NotHandling) /\ issued' = 0 /\ UNCHANGED crossed
  <2> USE <1>5 DEF Becomes
  <2>1. handled'[r] = NotHandling /\ jobRow' = NoPipeline
    OBVIOUS
  <2>2. ASSUME NEW q \in RowRequests, q # r
        PROVE  /\ handled'[q] \in RequestRecord
               /\ handled'[q].at = handled[q].at
               /\ handled'[q].copy = handled[q].copy
               /\ handled'[q].committed = handled[q].committed
               /\ ~handled'[q].stale => ~handled[q].stale /\ NoPipeline = jobRow
    <3>1. handled'[q] = [handled[q] EXCEPT !.stale = @ \/ NoPipeline # jobRow]
      BY <2>2
    <3>2. (handled[q].stale \/ NoPipeline # jobRow) \in BOOLEAN
      BY Zenon
    <3>3. handled[q] \in RequestRecord
      BY <1>0
    <3> QED BY <3>1, <3>2, <3>3 DEF RequestRecord
  <2>3. PipelineTypeOK'
    <3>1. handled' \in [RowRequests -> RequestRecord]
      BY <2>1, <2>2, NotHandlingIsOne
    <3> QED BY <1>0, <1>1, <1>2, <2>1, <3>1 DEF PipelineTypeOK
  <2>4. ConfigsAreGiven'
    <3>1. ASSUME NEW q \in RowRequests PROVE RequestIsGiven(handled[q], configs)'
      BY <1>2, <1>3, <2>1, <2>2 DEF PipelineInv, ConfigsAreGiven, RequestIsGiven
    <3> QED BY <1>0, <1>1, <1>2, <2>1, <3>1 DEF ConfigsAreGiven, HasRow
  <2>5. ASSUME ~crossed' PROVE SyncIsTrue'
    <3>1. SyncIsTrue
      BY <2>5 DEF PipelineInv
    <3>2. ASSUME NEW q \in RowRequests PROVE RequestIsTrue(handled[q])' /\ FormIsNew(handled[q])'
      <4>1. CASE q = r
        BY <2>1, <4>1, NotHandlingIsOne DEF RequestIsTrue, FormIsNew, Copying
      <4>2. CASE q # r
        <5>1. RequestIsTrue(handled[q]) /\ FormIsNew(handled[q]) /\ RequestIsGiven(handled[q], configs)
          BY <3>1 DEF SyncIsTrue, PipelineInv, ConfigsAreGiven
        <5>2. RequestIsTrue(handled[q])'
          <6>1. handled[q].at = "prepare" => handled[q].committed # 0
            BY <5>1 DEF RequestIsGiven
          <6>2. ~handled'[q].stale => handled[q].at \notin Copying \cup {"finish"}
            BY <1>1, <2>2, <4>2, <5>1 DEF RequestIsGiven, RequestIsTrue
          <6>3. ~handled'[q].stale /\ handled[q].at = "save" => RequestIsTrue(handled[q])'
            BY <1>1, <2>1, <2>2, <4>2, <5>1 DEF RequestIsTrue, Copying
          <6> QED BY <1>1, <2>1, <2>2, <4>2, <6>1, <6>2, <6>3 DEF RequestIsTrue, Copying
        <5>3. FormIsNew(handled[q])'
          <6>1. handled[q].at = "save" => 0 < handled[q].copy.config
            BY <1>0, <5>1 DEF RequestIsGiven
          <6>2. \A p \in RowRequests : handled'[p].committed \in {0, handled[p].committed}
            BY <2>1, <2>2, NotHandlingIsOne
          <6> QED BY <2>2, <4>2, <5>1, <6>1, <6>2 DEF FormIsNew
        <5> QED BY <5>2, <5>3
      <4> QED BY <4>1, <4>2
    <3>3. (jobRow.secret = issued /\ (jobRow.status = "ready" => Erasing \/ Synchronized))'
      BY <1>1, <2>1
    <3> QED BY <3>2, <3>3 DEF SyncIsTrue
  <2> QED BY <2>3, <2>4, <2>5 DEF PipelineInv
<1> QED BY <1>4, <1>5 DEF EraseRow

\* Every step keeps PipelineInv.
LEMMA PipelineStep ==
    ASSUME PipelineInv, [PipelineNext]_pipelineVars
    PROVE  PipelineInv'
<1>1. CASE UNCHANGED pipelineVars
  BY <1>1 DEF pipelineVars, PipelineInv, PipelineTypeOK, ConfigsAreGiven, RequestIsGiven, HasRow,
     SyncIsTrue, RequestIsTrue, FormIsNew, Erasing, RequestAt, Synchronized
<1>2. CASE PipelineNext
  BY <1>2, SaveStep, WriteFormStep, PinStep, ReadingSteps, SetManagedJobParameterStep,
     PutDeliveryCredentialStep, SaveAgainStep, CommitJenkinsfileStep, PrepareStep, UpsertJobStep,
     FinishStep, WriteFailureStep, WriteSecretStep, EraseRowStep, Zenon DEF PipelineNext
<1> QED BY <1>1, <1>2

\* PipelineInv holds of every behaviour, for any number of requests and configurations.
THEOREM PipelineInvariant == PipelineSpec => []PipelineInv
<1>1. PipelineInit => PipelineInv
  BY PipelineStarts
<1>2. PipelineInv /\ [PipelineNext]_pipelineVars => PipelineInv'
  BY PipelineStep
<1> QED BY <1>1, <1>2, PTL DEF PipelineSpec

\* A row that says ready has the configuration of the Jenkinsfile and of the job in Jenkins, and
\* the secret of the row is the one last issued (internal/cicd/service.go), wherever requests fail,
\* unless two requests for the row crossed or the job is being deleted.
THEOREM PipelineFollowsRowHolds == PipelineSpec => []PipelineFollowsRow
<1>1. PipelineInv => PipelineFollowsRow
  BY DEF PipelineInv, SyncIsTrue, PipelineFollowsRow, ReadyMeansSynchronized, NewestSecretIsAccepted,
         Erasing, Synchronized
<1> QED BY <1>1, PipelineInvariant, PTL
===============================================================================
