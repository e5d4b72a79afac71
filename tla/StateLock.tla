------------------------------- MODULE StateLock -------------------------------
(***************************************************************************)
(* The lock of one Terraform state, an object of the central bucket, and   *)
(* the three ways it goes: Terraform releases it, a job removes one that a *)
(* replaced platform pod left behind (checkTerraformStateLock in           *)
(* internal/runner/deployment.go), an operator removes one by its id       *)
(* (cmd/terraform-state-unlock).                                           *)
(*                                                                         *)
(* Terraform's own locking and the bucket are external: an object is       *)
(* created only if there is none, and is deleted whatever it holds.  The   *)
(* pod is replaced, never doubled: its Deployment is of type Recreate.     *)
(***************************************************************************)
EXTENDS Naturals

CONSTANTS
    Executors,      \* what runs jobs inside the platform's pod: server, command line
    Operators,      \* who runs Terraform, and the unlock tool, elsewhere
    MaxLocks,       \* bound on the locks taken
    MaxPods         \* bound on the pods

ASSUME StateLockAssumption ==
    /\ Executors \cap Operators = {}
    /\ MaxLocks \in Nat /\ MaxPods \in Nat

Process == Executors \cup Operators
Elsewhere == 0

VARIABLES
    lock,       \* the object: its id and the pod of its Who, or NoLock
    aged,       \* it was created stalePlatformTerraformLockAge ago or earlier
    locks,      \* locks taken so far
    pod,        \* the running pod of the platform
    doing,      \* where each process is
    observed,   \* the lock it has read, or holds
    overtaken   \* a removal took away another lock than the one that was read

lockVars == <<lock, aged, locks, pod, doing, observed, overtaken>>

NoLock == [id |-> 0, pod |-> Elsewhere]
HostOf(p) == IF p \in Executors THEN pod ELSE Elsewhere

\* stalePlatformTerraformLock: of a platform pod, and old.
Stale == lock.pod # Elsewhere /\ aged

\* Terraform holds the lock p read of itself.
Runs(p) == doing[p] = "terraform"

StateLockInit ==
    /\ lock = NoLock /\ aged = FALSE /\ locks = 0
    /\ pod = 1
    /\ doing = [p \in Process |-> "idle"]
    /\ observed = [p \in Process |-> NoLock]
    /\ overtaken = FALSE

Goes(p, stage) == doing' = [doing EXCEPT ![p] = stage]

-------------------------------------------------------------------------------
\* Mutant: the lock of the pod that asks counts as left behind.
CheckAnyPod(e) ==
    /\ doing[e] = "idle"
    /\ \/ lock = NoLock /\ Goes(e, "ready") /\ UNCHANGED observed
       \/ Stale /\ Goes(e, "again") /\ observed' = [observed EXCEPT ![e] = lock]
    /\ UNCHANGED <<lock, aged, locks, pod, overtaken>>
\* checkTerraformStateLock, up to the second reading: any other lock fails the job.
CheckLock(e) ==
    /\ doing[e] = "idle"
    /\ \/ lock = NoLock /\ Goes(e, "ready") /\ UNCHANGED observed
       \/ Stale /\ lock.pod # pod
          /\ Goes(e, "again") /\ observed' = [observed EXCEPT ![e] = lock]
    /\ UNCHANGED <<lock, aged, locks, pod, overtaken>>

\* autoUnlockStalePlatformStateLock: the object is read again.
ReadAgain(e) ==
    /\ doing[e] = "again"
    /\ Goes(e, IF lock = NoLock THEN "ready"
               ELSE IF lock.id = observed[e].id /\ Stale /\ lock.pod = observed[e].pod
                 THEN "remove" ELSE "idle")
    /\ UNCHANGED <<lock, aged, locks, pod, observed, overtaken>>

\* The unlock tool, for an id whose holder was seen to have ended.
AskUnlock(o) ==
    /\ doing[o] = "idle" /\ lock # NoLock
    /\ \A p \in Process : ~(Runs(p) /\ observed[p] = lock)
    /\ Goes(o, "remove") /\ observed' = [observed EXCEPT ![o] = lock]
    /\ UNCHANGED <<lock, aged, locks, pod, overtaken>>

\* delete-object, of a job or of the tool.
RemoveLock(p) ==
    /\ doing[p] = "remove"
    /\ \/ /\ lock' = NoLock
          /\ overtaken' = (overtaken \/ lock \notin {NoLock, observed[p]})
          /\ Goes(p, IF p \in Executors THEN "ready" ELSE "idle")
       \/ Goes(p, "idle") /\ UNCHANGED <<lock, overtaken>>
    /\ UNCHANGED <<aged, locks, pod, observed>>

-------------------------------------------------------------------------------
(* Terraform, the pod and time.                                            *)

Acquire(p) ==
    /\ doing[p] = (IF p \in Executors THEN "ready" ELSE "idle")
    /\ lock = NoLock /\ locks < MaxLocks
    /\ locks' = locks + 1
    /\ lock' = [id |-> locks', pod |-> HostOf(p)] /\ aged' = FALSE
    /\ Goes(p, "terraform") /\ observed' = [observed EXCEPT ![p] = lock']
    /\ UNCHANGED <<pod, overtaken>>

NotAcquired(e) ==
    /\ doing[e] = "ready" /\ lock # NoLock
    /\ Goes(e, "idle")
    /\ UNCHANGED <<lock, aged, locks, pod, observed, overtaken>>

Release(p) ==
    /\ Runs(p)
    /\ Goes(p, "idle")
    /\ lock' = IF lock = observed[p] THEN NoLock ELSE lock
    /\ UNCHANGED <<aged, locks, pod, observed, overtaken>>

\* A cancel, a crash or a lost connection: what was taken stays.
Dies(p) ==
    /\ doing[p] # "idle"
    /\ Goes(p, "idle")
    /\ UNCHANGED <<lock, aged, locks, pod, observed, overtaken>>

ReplacePod ==
    /\ pod < MaxPods /\ pod' = pod + 1
    /\ doing' = [p \in Process |-> IF p \in Executors THEN "idle" ELSE doing[p]]
    /\ UNCHANGED <<lock, aged, locks, observed, overtaken>>

AgeLock ==
    /\ lock # NoLock /\ ~aged
    /\ aged' = TRUE
    /\ UNCHANGED <<lock, locks, pod, doing, observed, overtaken>>

StateLockNext ==
    \/ \E e \in Executors : CheckLock(e) \/ ReadAgain(e) \/ NotAcquired(e)
    \/ \E o \in Operators : AskUnlock(o)
    \/ \E p \in Process : RemoveLock(p) \/ Acquire(p) \/ Release(p) \/ Dies(p)
    \/ ReplacePod \/ AgeLock

StateLockSpec == StateLockInit /\ [][StateLockNext]_lockVars

-------------------------------------------------------------------------------
(* Properties.                                                             *)

StateLockTypeOK ==
    /\ lock \in [id : Nat, pod : Nat] /\ aged \in BOOLEAN
    /\ locks \in Nat /\ pod \in Nat \ {0}
    /\ doing \in [Process -> {"idle", "again", "remove", "ready", "terraform"}]
    /\ observed \in [Process -> [id : Nat, pod : Nat]]
    /\ overtaken \in BOOLEAN

\* As long as no removal took away another lock than the one it had read, one
\* Terraform at most works on the state: locks of operators, of the running pod
\* and young ones are left alone, whoever crashes.
OneTerraform ==
    ~overtaken => \A p, q \in Process : Runs(p) /\ Runs(q) => p = q
===============================================================================
