-------------------------- MODULE DeliveryRepositories --------------------------
(***************************************************************************)
(* The delivery repository of a project (internal/gitlab/service.go): the  *)
(* binding in project_gitlab_delivery, which names a GitLab group and the  *)
(* id of the repository in it, and the repository, which the platform      *)
(* creates, marks and fills and which other people may have made, moved or *)
(* removed.  Saving, provisioning and detaching are requests that write    *)
(* the whole row; nothing locks it.                                        *)
(*                                                                         *)
(* A project has one repository (unifiedDelivery), always under the same   *)
(* name: its path, and its clone URL, are its group.                       *)
(***************************************************************************)
EXTENDS Naturals

CONSTANTS
    Groups,          \* GitLab groups the platform may use
    Provisioners,    \* requests at a time
    MaxRepositories, \* bound on the repositories ever made
    MaxBindings      \* bound on the forms saved

ASSUME DeliveryRepositoriesAssumption == MaxRepositories \in Nat /\ MaxBindings \in Nat

VARIABLES
    binding,        \* the row
    repository,     \* what each group has under the project's name
    repositoryIds,  \* ids given out
    registered,     \* the clone URL in cicd_repositories, or Nowhere
    provisioning,   \* what each request does
    bindings,       \* forms saved
    lostTrack       \* a repository was made and its id lost

deliveryVars ==
    <<binding, repository, repositoryIds, registered, provisioning, bindings, lostTrack>>

Nowhere == "nowhere"
Unbound == [group |-> Nowhere, id |-> 0, ready |-> FALSE]
\* by: who made it; marked: has .ops-deploy/managed.json; files: has any file.
NoRepository == [id |-> 0, by |-> "nobody", marked |-> FALSE, files |-> FALSE]
\* id: the repository the request works on.
NoProvision == [now |-> "none", copy |-> Unbound, id |-> 0]

Now(r, step) == provisioning[r].now = step
Then(r, step) == provisioning' = [provisioning EXCEPT ![r].now = step]
Leaves(r) == provisioning' = [provisioning EXCEPT ![r] = NoProvision]
Made(id) == \E g \in Groups : id # 0 /\ repository[g].id = id
Where(id) == CHOOSE g \in Groups : repository[g].id = id

\* An upsert of the whole row.  The id of a repository that is not filled yet is lost
\* when it is written over.
Binds(row) ==
    /\ binding' = row
    /\ lostTrack' = (lostTrack \/ binding.id \notin {0, row.id})

-------------------------------------------------------------------------------
(* SaveDelivery.                                                           *)

\* verifyDeliveryRebind: the group of a row with a repository changes only to one
\* that has the same repository, with its mark.
Moved(g) == repository[g].marked /\ repository[g].id = binding.id

VerifyRebind(r, g) ==
    /\ Now(r, "none") /\ bindings < MaxBindings
    /\ binding.id = 0 \/ binding.group = g \/ Moved(g)
    /\ bindings' = bindings + 1
    /\ provisioning' = [provisioning EXCEPT ![r].now = "write",
                                            ![r].copy = [binding EXCEPT !.group = g]]
    /\ UNCHANGED <<binding, repository, repositoryIds, registered, lostTrack>>

\* The status stays.  Activate goes on with Provision, which reads the row afresh.
WriteBinding(r) ==
    /\ Now(r, "write")
    /\ Binds(provisioning[r].copy) /\ Leaves(r)
    /\ UNCHANGED <<repository, repositoryIds, registered, bindings>>

-------------------------------------------------------------------------------
(* Provision.                                                              *)

\* It needs a server.  The row is marked as running, which is not ready any more; an error
\* of that is ignored.
StartProvision(r) ==
    /\ Now(r, "none") /\ binding.group # Nowhere
    /\ LET row == [binding EXCEPT !.ready = FALSE]
       IN /\ Binds(row) \/ UNCHANGED <<binding, lostTrack>>
          /\ provisioning' = [provisioning EXCEPT ![r].now = "look", ![r].copy = row]
    /\ UNCHANGED <<repository, repositoryIds, registered, bindings>>

\* Any call may fail; the failure is written with the request's copy of the row.
Breaks(r) == Binds(provisioning[r].copy) /\ Leaves(r)

FindRepository(r) ==
    /\ Now(r, "look") \/ Now(r, "lookAgain")
    /\ LET found == repository[provisioning[r].copy.group].id
       IN \/ /\ found # 0
             /\ provisioning' = [provisioning EXCEPT ![r].now = "mark", ![r].id = found]
             /\ UNCHANGED <<binding, lostTrack>>
          \/ /\ found = 0 /\ Now(r, "look")
             /\ Then(r, "create") /\ UNCHANGED <<binding, lostTrack>>
          \/ Breaks(r)
    /\ UNCHANGED <<repository, repositoryIds, registered, bindings>>

MakeRepository(g, who) ==
    /\ repository[g].id = 0 /\ repositoryIds < MaxRepositories
    /\ repositoryIds' = repositoryIds + 1
    /\ repository' = [repository EXCEPT ![g] =
                        [NoRepository EXCEPT !.id = repositoryIds + 1, !.by = who]]

\* createProject.  After an error the repository is looked up once more: "A concurrent
\* retry may have created the same exact repository", or the answer got lost.
CreateRepository(r) ==
    /\ Now(r, "create")
    /\ LET g == provisioning[r].copy.group
       IN \/ /\ MakeRepository(g, "platform")
             /\ \/ /\ LET id == repositoryIds + 1
                      IN provisioning' = [provisioning EXCEPT ![r].now = "save", ![r].id = id,
                                                              ![r].copy.id = id]
                   /\ UNCHANGED lostTrack
                \/ Then(r, "lookAgain") /\ lostTrack' = TRUE
          \/ Then(r, "lookAgain") /\ UNCHANGED <<repository, repositoryIds, lostTrack>>
    /\ UNCHANGED <<binding, registered, bindings>>

\* "Persist ownership before the first commit so a failed request can be retried
\* without claiming an unrelated empty repository with the same path."
SaveOwnership(r) ==
    /\ Now(r, "save")
    /\ Binds(provisioning[r].copy)
    /\ Then(r, "mark") \/ Leaves(r)
    /\ UNCHANGED <<repository, repositoryIds, registered, bindings>>

\* Mutant: any repository without files is taken.
TakesEmpty(copy, found) == found.marked \/ ~found.files
\* What the files may be written to.
MayFill(copy, found) == found.marked \/ (copy.id = found.id /\ ~found.files)

CheckRepository(r) ==
    /\ Now(r, "mark")
    /\ LET id == provisioning[r].id
       IN \/ /\ Made(id) /\ MayFill(provisioning[r].copy, repository[Where(id)])
             /\ Then(r, "fill") /\ UNCHANGED <<binding, lostTrack>>
          \/ Breaks(r)
    /\ UNCHANGED <<repository, repositoryIds, registered, bindings>>

\* The mark is in the first commit; a later one may fail, or an answer get lost.
FillRepository(r) ==
    /\ Now(r, "fill")
    /\ LET id == provisioning[r].id
       IN \/ /\ Made(id)
             /\ repository' = [repository EXCEPT ![Where(id)].marked = TRUE,
                                                 ![Where(id)].files = TRUE]
             /\ \/ /\ provisioning' = [provisioning EXCEPT ![r].now = "register",
                                                           ![r].copy.id = id]
                   /\ UNCHANGED <<binding, lostTrack>>
                \/ Breaks(r)
          \/ Breaks(r) /\ UNCHANGED repository
    /\ UNCHANGED <<repositoryIds, registered, bindings>>

\* registerRepositories: the key must not have another URL.
RegisterRepository(r) ==
    /\ Now(r, "register")
    /\ LET url == provisioning[r].copy.group
       IN \/ /\ registered \in {Nowhere, url} /\ registered' = url
             /\ Then(r, "ready") /\ UNCHANGED <<binding, lostTrack>>
          \/ Breaks(r) /\ UNCHANGED registered
    /\ UNCHANGED <<repository, repositoryIds, bindings>>

EndProvision(r) ==
    /\ Now(r, "ready")
    /\ \/ Binds([provisioning[r].copy EXCEPT !.ready = TRUE]) /\ Leaves(r)
       \/ Breaks(r)
    /\ UNCHANGED <<repository, repositoryIds, registered, bindings>>

-------------------------------------------------------------------------------
(* Detaching, a process that dies, and people.                             *)

\* The registered repositories stay.
DetachDelivery ==
    /\ binding # Unbound
    /\ Binds(Unbound)
    /\ UNCHANGED <<repository, repositoryIds, registered, provisioning, bindings>>

DieIn(r) ==
    /\ ~Now(r, "none") /\ Leaves(r)
    /\ lostTrack' = (lostTrack \/ Now(r, "save"))
    /\ UNCHANGED <<binding, repository, repositoryIds, registered, bindings>>

PeopleMake(g) ==
    /\ MakeRepository(g, "people")
    /\ UNCHANGED <<binding, registered, provisioning, bindings, lostTrack>>

PeoplePush(g) ==
    /\ repository[g].id # 0 /\ ~repository[g].files
    /\ repository' = [repository EXCEPT ![g].files = TRUE]
    /\ UNCHANGED <<binding, repositoryIds, registered, provisioning, bindings, lostTrack>>

\* A repository is moved to another group with its id, or deleted.
PeopleMove(g, h) ==
    /\ repository[g].id # 0
    /\ \/ g # h /\ repository[h].id = 0
          /\ repository' = [repository EXCEPT ![g] = NoRepository, ![h] = repository[g]]
       \/ g = h /\ repository' = [repository EXCEPT ![g] = NoRepository]
    /\ UNCHANGED <<binding, repositoryIds, registered, provisioning, bindings, lostTrack>>

\* A binding that has been saved and not provisioned yet.
DeliveryInit ==
    /\ binding \in {[Unbound EXCEPT !.group = g] : g \in Groups}
    /\ registered = Nowhere
    /\ repository = [g \in Groups |-> NoRepository]
    /\ provisioning = [r \in Provisioners |-> NoProvision]
    /\ repositoryIds = 0 /\ bindings = 0 /\ lostTrack = FALSE

DeliveryNext ==
    \/ \E r \in Provisioners :
         \/ \E g \in Groups : VerifyRebind(r, g)
         \/ WriteBinding(r)
         \/ StartProvision(r) \/ FindRepository(r) \/ CreateRepository(r) \/ SaveOwnership(r)
         \/ CheckRepository(r) \/ FillRepository(r) \/ RegisterRepository(r)
         \/ EndProvision(r) \/ DieIn(r)
    \/ DetachDelivery
    \/ \E g \in Groups : PeopleMake(g) \/ PeoplePush(g) \/ \E h \in Groups : PeopleMove(g, h)

DeliverySpec == DeliveryInit /\ [][DeliveryNext]_deliveryVars

-------------------------------------------------------------------------------
(* Properties.                                                             *)

\* Provision never writes into a repository that it has not made ("已拒绝接管").
NothingIsTakenOver == \A g \in Groups : repository[g].marked => repository[g].by = "platform"

\* A row that says ready has its files in the repository it names, if that is still
\* there, wherever requests failed and whatever the row was bound to before.
ReadyIsFilled ==
    binding.ready /\ Made(binding.id) => repository[Where(binding.id)].marked

\* "so a failed request can be retried": an empty repository of the platform is the one
\* that the row names, or that a running request will name, unless its id was lost.
RetryFindsRepository ==
    \A g \in Groups :
        repository[g].by = "platform" /\ ~repository[g].marked =>
            \/ lostTrack \/ repository[g].id = binding.id
            \/ \E r \in Provisioners : provisioning[r].copy.id = repository[g].id

DeliveriesAreOwn == NothingIsTakenOver /\ ReadyIsFilled /\ RetryFindsRepository
===============================================================================
