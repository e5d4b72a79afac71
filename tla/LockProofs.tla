------------------------------ MODULE LockProofs ------------------------------
(***************************************************************************)
(* What keeps two processes apart or is not to be left behind by them, for *)
(* any number of each: the object that locks a Terraform state, the        *)
(* ConfigMap that locks the platform's own deployments, and the port-      *)
(* forwards.  Both locks outlive the process that took them, and the       *)
(* arguments are the same: what is about to be removed was read when       *)
(* nobody worked under it, a later lock has another number, so a removal   *)
(* that takes away what it has read takes it from nobody.  For the port-   *)
(* forwards it is the mutex: a tunnel that is not in the map belongs to    *)
(* the one caller inside Ensure.                                           *)
(***************************************************************************)
EXTENDS StateLock, DeployLock, KubeTunnel, TLAPS

USE StateLockAssumption, DeployLockAssumption

-------------------------------------------------------------------------------
(* The lock of a Terraform state.                                          *)

\* Numbers are given out in order.
NumbersAreSpent == lock.id <= locks /\ \A p \in Process : observed[p].id <= locks

\* What Terraform holds names the host it runs on, and is held once.
HoldersAreKnown ==
    \A p \in Process : Runs(p) =>
        /\ observed[p].pod = HostOf(p)
        /\ \A q \in Process : Runs(q) /\ observed[p] = observed[q] => p = q

\* Nobody works under a lock that a job or an operator is about to remove.
DoomedIsIdle ==
    \A p, q \in Process :
        doing[p] \in {"again", "remove"} /\ Runs(q) => observed[p] # observed[q]

\* While nothing was taken from anybody, whoever works has the lock.
RunnersHold ==
    ~overtaken => \A p \in Process : Runs(p) => lock = observed[p] /\ lock # NoLock

StateLockInv ==
    /\ StateLockTypeOK /\ NumbersAreSpent /\ HoldersAreKnown
    /\ DoomedIsIdle /\ RunnersHold

\* A state without lock or jobs satisfies the invariant.
LEMMA StateLockStarts == StateLockInit => StateLockInv
<1> SUFFICES ASSUME StateLockInit PROVE StateLockInv
  OBVIOUS
<1>1. StateLockTypeOK
  <2>1. aged \in BOOLEAN /\ overtaken \in BOOLEAN
    BY Zenon DEF StateLockInit
  <2> QED BY <2>1 DEF StateLockInit, StateLockTypeOK, NoLock, Elsewhere
<1>2. NumbersAreSpent
  BY DEF StateLockInit, NumbersAreSpent, NoLock
<1>3. HoldersAreKnown /\ DoomedIsIdle /\ RunnersHold
  BY DEF StateLockInit, HoldersAreKnown, DoomedIsIdle, RunnersHold, Runs
<1> QED BY <1>1, <1>2, <1>3 DEF StateLockInv

\* The first reading: a stale lock of another pod is nobody's who runs.
LEMMA CheckLockStep ==
    ASSUME StateLockInv, NEW e \in Executors, CheckLock(e)
    PROVE  StateLockInv'
<1> USE DEF CheckLock, Goes, Process
<1>1. StateLockTypeOK'
  BY DEF StateLockInv, StateLockTypeOK
<1>2. NumbersAreSpent'
  BY DEF StateLockInv, StateLockTypeOK, NumbersAreSpent
<1>3. \A p \in Process : Runs(p)' <=> Runs(p)
  BY DEF StateLockInv, StateLockTypeOK, Runs
<1>4. \A p \in Process : Runs(p) => observed'[p] = observed[p]
  BY DEF StateLockInv, StateLockTypeOK, Runs
<1>5. HoldersAreKnown'
  BY <1>3, <1>4 DEF StateLockInv, HoldersAreKnown, HostOf
<1>6. DoomedIsIdle'
  BY <1>3, <1>4 DEF StateLockInv, StateLockTypeOK, HoldersAreKnown, DoomedIsIdle,
                    Stale, HostOf, Elsewhere, Runs
<1>7. RunnersHold'
  BY <1>3, <1>4 DEF StateLockInv, RunnersHold
<1> QED BY <1>1, <1>2, <1>5, <1>6, <1>7 DEF StateLockInv

\* The second reading moves on or gives up; it changes nothing else.
LEMMA ReadAgainStep ==
    ASSUME StateLockInv, NEW e \in Executors, ReadAgain(e)
    PROVE  StateLockInv'
<1> USE DEF ReadAgain, Goes, Process
<1>1. StateLockTypeOK'
  BY DEF StateLockInv, StateLockTypeOK
<1>2. \A p \in Process : Runs(p)' <=> Runs(p)
  BY DEF StateLockInv, StateLockTypeOK, Runs
<1>3. NumbersAreSpent' /\ HoldersAreKnown' /\ RunnersHold'
  BY <1>2 DEF StateLockInv, NumbersAreSpent, HoldersAreKnown, RunnersHold, HostOf
<1>4. DoomedIsIdle'
  BY <1>2 DEF StateLockInv, StateLockTypeOK, DoomedIsIdle
<1> QED BY <1>1, <1>3, <1>4 DEF StateLockInv

\* The operator asks for the removal of a lock that nobody works under.
LEMMA AskUnlockStep ==
    ASSUME StateLockInv, NEW o \in Operators, AskUnlock(o)
    PROVE  StateLockInv'
<1> USE DEF AskUnlock, Goes, Process
<1>1. StateLockTypeOK'
  BY DEF StateLockInv, StateLockTypeOK
<1>2. NumbersAreSpent'
  BY DEF StateLockInv, StateLockTypeOK, NumbersAreSpent
<1>3. \A p \in Process : Runs(p)' <=> Runs(p)
  BY DEF StateLockInv, StateLockTypeOK, Runs
<1>4. \A p \in Process : Runs(p) => observed'[p] = observed[p]
  BY DEF StateLockInv, StateLockTypeOK, Runs
<1>5. HoldersAreKnown'
  BY <1>3, <1>4 DEF StateLockInv, HoldersAreKnown, HostOf
<1>6. DoomedIsIdle'
  BY <1>3, <1>4 DEF StateLockInv, StateLockTypeOK, DoomedIsIdle, Runs
<1>7. RunnersHold'
  BY <1>3, <1>4 DEF StateLockInv, RunnersHold
<1> QED BY <1>1, <1>2, <1>5, <1>6, <1>7 DEF StateLockInv

\* A removal that takes what was read takes it from nobody.
LEMMA RemoveLockStep ==
    ASSUME StateLockInv, NEW p \in Process, RemoveLock(p)
    PROVE  StateLockInv'
<1> USE DEF RemoveLock, Goes
<1>1. StateLockTypeOK'
  <2>1. overtaken' \in BOOLEAN
    BY Zenon DEF StateLockInv, StateLockTypeOK
  <2>2. lock' \in [id : Nat, pod : Nat]
    BY DEF StateLockInv, StateLockTypeOK, NoLock, Elsewhere
  <2>3. doing' \in [Process -> {"idle", "again", "remove", "ready", "terraform"}]
    BY DEF StateLockInv, StateLockTypeOK, Process
  <2> QED BY <2>1, <2>2, <2>3 DEF StateLockInv, StateLockTypeOK
<1>2. NumbersAreSpent'
  BY DEF StateLockInv, StateLockTypeOK, NumbersAreSpent, NoLock
<1>3. \A q \in Process : Runs(q)' <=> Runs(q)
  BY DEF StateLockInv, StateLockTypeOK, Runs
<1>4. HoldersAreKnown'
  BY <1>3 DEF StateLockInv, HoldersAreKnown, HostOf
<1>5. DoomedIsIdle'
  BY <1>3 DEF StateLockInv, StateLockTypeOK, DoomedIsIdle
<1>6. RunnersHold'
  BY <1>3 DEF StateLockInv, DoomedIsIdle, RunnersHold, NoLock
<1> QED BY <1>1, <1>2, <1>4, <1>5, <1>6 DEF StateLockInv

\* Terraform takes the lock when there is none, under a new number.
LEMMA AcquireStep ==
    ASSUME StateLockInv, NEW p \in Process, Acquire(p)
    PROVE  StateLockInv'
<1> USE DEF Acquire, Goes
<1>1. HostOf(p) \in Nat
  BY DEF StateLockInv, StateLockTypeOK, HostOf, Elsewhere
<1>2. StateLockTypeOK'
  <2>1. aged' \in BOOLEAN
    BY Zenon
  <2>2. locks' \in Nat /\ lock' \in [id : Nat, pod : Nat]
    BY <1>1 DEF StateLockInv, StateLockTypeOK
  <2>3. observed' \in [Process -> [id : Nat, pod : Nat]]
    BY <2>2 DEF StateLockInv, StateLockTypeOK
  <2>4. doing' \in [Process -> {"idle", "again", "remove", "ready", "terraform"}]
    BY DEF StateLockInv, StateLockTypeOK
  <2> QED BY <2>1, <2>2, <2>3, <2>4 DEF StateLockInv, StateLockTypeOK
<1>3. /\ \A q \in Process : observed[q].id < lock'.id
      /\ lock'.id = locks' /\ lock'.pod = HostOf(p) /\ locks' \in Nat /\ locks < locks'
  BY <1>1 DEF StateLockInv, StateLockTypeOK, NumbersAreSpent
<1>4. /\ observed'[p] = lock' /\ Runs(p)' /\ ~(doing[p] \in {"remove", "again", "terraform"})
      /\ \A q \in Process \ {p} : observed'[q] = observed[q] /\ doing'[q] = doing[q]
  BY DEF StateLockInv, StateLockTypeOK, Runs
<1>5. \A q \in Process : observed[q] # lock' /\ observed[q].id <= locks'
  BY <1>3 DEF StateLockInv, StateLockTypeOK
<1>6. NumbersAreSpent'
  BY <1>3, <1>4, <1>5 DEF NumbersAreSpent
<1>7. HoldersAreKnown'
  BY <1>3, <1>4, <1>5 DEF StateLockInv, HoldersAreKnown, HostOf, Runs
<1>8. DoomedIsIdle'
  BY <1>4, <1>5 DEF StateLockInv, DoomedIsIdle, Runs
<1>9. lock' # NoLock
  BY <1>3 DEF StateLockInv, StateLockTypeOK, NoLock
<1>10. RunnersHold'
  BY <1>4, <1>9 DEF StateLockInv, RunnersHold, Runs
<1> QED BY <1>2, <1>6, <1>7, <1>8, <1>10 DEF StateLockInv

\* A job that meets a lock, or ends where it is, leaves everything as it was.
LEMMA StopStep ==
    ASSUME StateLockInv, NEW p \in Process, NotAcquired(p) \/ Dies(p)
    PROVE  StateLockInv'
<1> USE DEF NotAcquired, Dies, Goes
<1>1. StateLockTypeOK'
  BY DEF StateLockInv, StateLockTypeOK
<1>2. \A q \in Process : Runs(q)' => Runs(q)
  BY DEF StateLockInv, StateLockTypeOK, Runs
<1>3. NumbersAreSpent' /\ HoldersAreKnown' /\ RunnersHold'
  BY <1>2 DEF StateLockInv, NumbersAreSpent, HoldersAreKnown, RunnersHold, HostOf
<1>4. DoomedIsIdle'
  BY <1>2 DEF StateLockInv, StateLockTypeOK, DoomedIsIdle
<1> QED BY <1>1, <1>3, <1>4 DEF StateLockInv

\* Terraform gives back the lock it holds, and nobody else's.
LEMMA ReleaseStep ==
    ASSUME StateLockInv, NEW p \in Process, Release(p)
    PROVE  StateLockInv'
<1> USE DEF Release, Goes
<1>1. StateLockTypeOK'
  <2>1. lock' \in [id : Nat, pod : Nat]
    BY DEF StateLockInv, StateLockTypeOK, NoLock, Elsewhere
  <2>2. doing' \in [Process -> {"idle", "again", "remove", "ready", "terraform"}]
    BY DEF StateLockInv, StateLockTypeOK
  <2> QED BY <2>1, <2>2 DEF StateLockInv, StateLockTypeOK
<1>2. NumbersAreSpent'
  BY DEF StateLockInv, StateLockTypeOK, NumbersAreSpent, NoLock
<1>3. \A q \in Process : Runs(q)' => Runs(q) /\ q # p
  BY DEF StateLockInv, StateLockTypeOK, Runs
<1>4. HoldersAreKnown'
  BY <1>3 DEF StateLockInv, HoldersAreKnown, HostOf
<1>5. DoomedIsIdle'
  BY <1>3 DEF StateLockInv, StateLockTypeOK, DoomedIsIdle
<1>6. RunnersHold'
  BY <1>3 DEF StateLockInv, HoldersAreKnown, RunnersHold
<1> QED BY <1>1, <1>2, <1>4, <1>5, <1>6 DEF StateLockInv

\* A new pod ends the work of the old one, and a lock may only get older.
LEMMA OutsideStep ==
    ASSUME StateLockInv, ReplacePod \/ AgeLock
    PROVE  StateLockInv'
<1>1. StateLockTypeOK'
  <2>1. CASE ReplacePod
    <3>1. pod' \in Nat \ {0}
      BY <2>1 DEF ReplacePod, StateLockInv, StateLockTypeOK
    <3> QED BY <2>1, <3>1 DEF ReplacePod, StateLockInv, StateLockTypeOK
  <2>2. CASE AgeLock
    <3>1. aged' \in BOOLEAN
      BY <2>2, Zenon DEF AgeLock
    <3> QED BY <2>2, <3>1 DEF AgeLock, StateLockInv, StateLockTypeOK
  <2> QED BY <2>1, <2>2
<1>2. NumbersAreSpent'
  BY DEF ReplacePod, AgeLock, StateLockInv, NumbersAreSpent
<1>3. \A p \in Process : Runs(p)' => Runs(p) /\ HostOf(p)' = HostOf(p)
  BY DEF ReplacePod, AgeLock, StateLockInv, StateLockTypeOK, Runs, HostOf
<1>4. \A p \in Process : doing'[p] \in {doing[p], "idle"}
  BY DEF ReplacePod, AgeLock, StateLockInv, StateLockTypeOK
<1>5. HoldersAreKnown'
  BY <1>3 DEF ReplacePod, AgeLock, StateLockInv, HoldersAreKnown
<1>6. DoomedIsIdle'
  BY <1>3, <1>4 DEF ReplacePod, AgeLock, StateLockInv, DoomedIsIdle
<1>7. RunnersHold'
  BY <1>3 DEF ReplacePod, AgeLock, StateLockInv, RunnersHold
<1> QED BY <1>1, <1>2, <1>5, <1>6, <1>7 DEF StateLockInv

\* No step leads out of the invariant.
LEMMA StateLockKeeps == StateLockInv /\ [StateLockNext]_lockVars => StateLockInv'
<1> SUFFICES ASSUME StateLockInv, [StateLockNext]_lockVars PROVE StateLockInv'
  OBVIOUS
<1>1. CASE UNCHANGED lockVars
  <2>1. StateLockTypeOK' /\ NumbersAreSpent'
    BY <1>1 DEF lockVars, StateLockInv, StateLockTypeOK, NumbersAreSpent
  <2>2. HoldersAreKnown' /\ DoomedIsIdle' /\ RunnersHold'
    BY <1>1 DEF lockVars, StateLockInv, HoldersAreKnown, DoomedIsIdle, RunnersHold, Runs, HostOf
  <2> QED BY <2>1, <2>2 DEF StateLockInv
<1>2. ASSUME NEW e \in Executors, CheckLock(e) \/ ReadAgain(e) \/ NotAcquired(e)
      PROVE  StateLockInv'
  <2>1. e \in Process
    BY DEF Process
  <2> QED BY <1>2, <2>1, CheckLockStep, ReadAgainStep, StopStep
<1>3. ASSUME NEW o \in Operators, AskUnlock(o) PROVE StateLockInv'
  BY <1>3, AskUnlockStep
<1>4. ASSUME NEW p \in Process, RemoveLock(p) \/ Acquire(p) \/ Release(p) \/ Dies(p)
      PROVE  StateLockInv'
  BY <1>4, RemoveLockStep, AcquireStep, ReleaseStep, StopStep
<1> QED BY <1>1, <1>2, <1>3, <1>4, OutsideStep DEF StateLockNext

\* Every reachable state satisfies the invariant.
THEOREM StateLockInductive == StateLockSpec => []StateLockInv
BY StateLockStarts, StateLockKeeps, PTL DEF StateLockSpec

\* Unless a removal took away another lock than the one it had read, one
\* Terraform at most works on the state, however many jobs, pods and operators
\* remove what they take for left behind.
THEOREM TerraformStaysAlone == StateLockSpec => []OneTerraform
<1>1. StateLockInv => OneTerraform
  BY DEF StateLockInv, HoldersAreKnown, RunnersHold, OneTerraform
<1> QED BY StateLockInductive, <1>1, PTL

-------------------------------------------------------------------------------
(* The lock of the platform's own deployments.                             *)

Keeps(d) == deploying[d] \in {"working", "release"}

HolderNumbers ==
    /\ held <= holders
    /\ \A d \in Deployers : holder[d] <= holders /\ found[d] <= holders
    /\ \A d \in Deployers : Keeps(d) => holder[d] # Nobody

OwnNumbers == \A c, d \in Deployers : Keeps(c) /\ Keeps(d) /\ holder[c] = holder[d] => c = d

\* A lock that has expired is kept by nobody, and neither is one about to go.
ExpiredIsIdle ==
    \A c \in Deployers : Keeps(c) =>
        /\ expired => holder[c] # held
        /\ \A d \in Deployers : deploying[d] = "expired" => holder[c] # found[d]

ReleaseOwn == \A d \in Deployers : deploying[d] = "release" => found[d] = holder[d]

WorkersHold == ~displaced => \A d \in Deployers : Working(d) => held = holder[d]

DeployLockInv ==
    /\ DeployLockTypeOK /\ HolderNumbers /\ OwnNumbers
    /\ ExpiredIsIdle /\ ReleaseOwn /\ WorkersHold

\* No deployment and no lock: the invariant holds.
LEMMA DeployLockStarts == DeployLockInit => DeployLockInv
<1> SUFFICES ASSUME DeployLockInit PROVE DeployLockInv
  OBVIOUS
<1> USE DEF DeployLockInit, Nobody
<1>1. expired \in BOOLEAN /\ displaced \in BOOLEAN
  BY Zenon
<1>2. DeployLockTypeOK
  BY <1>1 DEF DeployLockTypeOK
<1>3. HolderNumbers /\ OwnNumbers
  BY DEF HolderNumbers, OwnNumbers, Keeps
<1>4. ExpiredIsIdle /\ ReleaseOwn /\ WorkersHold
  BY DEF ExpiredIsIdle, ReleaseOwn, WorkersHold, Keeps, Working
<1> QED BY <1>2, <1>3, <1>4 DEF DeployLockInv

\* A lock is created only when there is none, under a new number.
LEMMA CreateLockStep ==
    ASSUME DeployLockInv, NEW d \in Deployers, NEW otherwise \in {"refused", "idle"},
           ~Keeps(d), CreateLock(d, otherwise), UNCHANGED <<found, displaced>>
    PROVE  DeployLockInv'
<1> USE DEF CreateLock, Moves
<1>1. DeployLockTypeOK'
  <2>1. expired' \in BOOLEAN /\ displaced' \in BOOLEAN
    BY Zenon DEF DeployLockInv, DeployLockTypeOK
  <2>2. held' \in Nat /\ holders' \in Nat /\ holder' \in [Deployers -> Nat]
    BY DEF DeployLockInv, DeployLockTypeOK
  <2>3. deploying' \in [Deployers -> {"idle", "refused", "expired", "create", "working", "release"}]
    BY DEF DeployLockInv, DeployLockTypeOK
  <2> QED BY <2>1, <2>2, <2>3 DEF DeployLockInv, DeployLockTypeOK
<1>2. CASE held = Nobody
  <2> USE <1>2
  <2>1. /\ holder'[d] = holders + 1 /\ holders' = holders + 1 /\ held' = holders + 1
        /\ deploying'[d] = "working" /\ ~expired' /\ holders \in Nat
        /\ \A c \in Deployers \ {d} : holder'[c] = holder[c] /\ deploying'[c] = deploying[c]
    BY DEF DeployLockInv, DeployLockTypeOK
  <2>2. \A c \in Deployers : holder[c] \in Nat /\ found[c] \in Nat
                             /\ holder[c] <= holders /\ found[c] <= holders
    BY DEF DeployLockInv, DeployLockTypeOK, HolderNumbers
  <2>3. HolderNumbers'
    BY <2>1, <2>2 DEF DeployLockInv, HolderNumbers, Keeps, Nobody
  <2>4. OwnNumbers'
    BY <2>1, <2>2 DEF DeployLockInv, OwnNumbers, Keeps
  <2>5. ExpiredIsIdle'
    BY <2>1, <2>2 DEF DeployLockInv, ExpiredIsIdle, Keeps
  <2>6. ReleaseOwn'
    BY <2>1 DEF DeployLockInv, ReleaseOwn
  <2>7. ~displaced => \A c \in Deployers : ~Working(c)
    BY DEF DeployLockInv, WorkersHold, HolderNumbers, Keeps, Working
  <2>8. WorkersHold'
    BY <2>1, <2>7 DEF WorkersHold, Working
  <2> QED BY <1>1, <2>3, <2>4, <2>5, <2>6, <2>8 DEF DeployLockInv
<1>3. CASE held # Nobody
  <2> USE <1>3
  <2>1. /\ \A c \in Deployers : Keeps(c)' <=> Keeps(c)
        /\ \A c \in Deployers : Working(c)' <=> Working(c)
        /\ \A c \in Deployers : deploying'[c] \in {deploying[c], "refused", "idle"}
    BY DEF DeployLockInv, DeployLockTypeOK, Keeps, Working
  <2>2. HolderNumbers' /\ OwnNumbers'
    BY <2>1 DEF DeployLockInv, HolderNumbers, OwnNumbers
  <2>3. ExpiredIsIdle' /\ ReleaseOwn' /\ WorkersHold'
    BY <2>1 DEF DeployLockInv, ExpiredIsIdle, ReleaseOwn, WorkersHold
  <2> QED BY <1>1, <2>2, <2>3 DEF DeployLockInv
<1> QED BY <1>2, <1>3

\* The reading of a lock that refused the deployment: only an expired one goes on.
LEMMA ReadHolderStep ==
    ASSUME DeployLockInv, NEW d \in Deployers, ReadHolder(d)
    PROVE  DeployLockInv'
<1> USE DEF ReadHolder, Moves
<1>1. DeployLockTypeOK'
  BY DEF DeployLockInv, DeployLockTypeOK
<1>2. /\ \A c \in Deployers : Keeps(c)' <=> Keeps(c)
      /\ \A c \in Deployers : Working(c)' <=> Working(c)
      /\ \A c \in Deployers \ {d} : found'[c] = found[c] /\ deploying'[c] = deploying[c]
      /\ deploying'[d] \in {"idle", "expired"}
      /\ deploying'[d] = "expired" => expired /\ found'[d] = held
  BY DEF DeployLockInv, DeployLockTypeOK, Keeps, Working
<1>3. found'[d] \in {found[d], held}
  BY DEF DeployLockInv, DeployLockTypeOK
<1>4. HolderNumbers' /\ OwnNumbers'
  BY <1>2, <1>3 DEF DeployLockInv, HolderNumbers, OwnNumbers
<1>5. ExpiredIsIdle'
  BY <1>2 DEF DeployLockInv, ExpiredIsIdle
<1>6. ReleaseOwn' /\ WorkersHold'
  BY <1>2 DEF DeployLockInv, ReleaseOwn, WorkersHold
<1> QED BY <1>1, <1>4, <1>5, <1>6 DEF DeployLockInv

\* A deletion by name, of a lock that was read expired or that is the own one.
LEMMA DeleteStep ==
    ASSUME DeployLockInv, NEW d \in Deployers, RemoveExpired(d) \/ ReleaseLock(d)
    PROVE  DeployLockInv'
<1> USE DEF RemoveExpired, ReleaseLock, Delete, Moves
<1>1. DeployLockTypeOK'
  <2>1. displaced' \in BOOLEAN
    BY Zenon DEF DeployLockInv, DeployLockTypeOK
  <2>2. held' \in Nat
    BY DEF DeployLockInv, DeployLockTypeOK, Nobody
  <2>3. deploying' \in [Deployers -> {"idle", "refused", "expired", "create", "working", "release"}]
    BY DEF DeployLockInv, DeployLockTypeOK
  <2> QED BY <2>1, <2>2, <2>3 DEF DeployLockInv, DeployLockTypeOK
<1>2. /\ \A c \in Deployers : Keeps(c)' => Keeps(c)
      /\ \A c \in Deployers : Working(c)' <=> Working(c)
      /\ \A c \in Deployers : deploying'[c] \in {deploying[c], "create", "idle"}
      /\ held' \in {held, Nobody}
  BY DEF DeployLockInv, DeployLockTypeOK, Keeps, Working
<1>3. HolderNumbers' /\ OwnNumbers'
  BY <1>2 DEF DeployLockInv, DeployLockTypeOK, HolderNumbers, OwnNumbers, Nobody
<1>4. ExpiredIsIdle' /\ ReleaseOwn'
  BY <1>2 DEF DeployLockInv, HolderNumbers, ExpiredIsIdle, ReleaseOwn
<1>5. ASSUME ~displaced', NEW c \in Deployers, Working(c)'
      PROVE  held' = holder'[c]
  <2>0. ~displaced
    BY <1>5
  <2>1. held = holder[c] /\ Keeps(c) /\ held # Nobody
    BY <1>2, <1>5, <2>0 DEF DeployLockInv, WorkersHold, HolderNumbers, Keeps, Working
  <2>2. found[d] # holder[c]
    BY <1>2, <1>5, <2>1 DEF DeployLockInv, ExpiredIsIdle, ReleaseOwn, OwnNumbers, Keeps, Working
  <2> QED BY <1>5, <2>1, <2>2
<1>6. WorkersHold'
  BY <1>5 DEF WorkersHold
<1> QED BY <1>1, <1>3, <1>4, <1>6 DEF DeployLockInv

\* The end of a deployment, by its own hand or not.
LEMMA EndDeployStep ==
    ASSUME DeployLockInv, NEW d \in Deployers, EndDeploy(d) \/ Killed(d)
    PROVE  DeployLockInv'
<1> USE DEF EndDeploy, Killed, Moves
<1>1. DeployLockTypeOK'
  BY DEF DeployLockInv, DeployLockTypeOK
<1>2. /\ \A c \in Deployers : Keeps(c)' => Keeps(c)
      /\ \A c \in Deployers : Working(c)' => Working(c)
      /\ \A c \in Deployers \ {d} : found'[c] = found[c] /\ deploying'[c] = deploying[c]
      /\ deploying'[d] \in {"idle", "release"}
      /\ deploying'[d] = "release" => found'[d] = holder[d]
      /\ found'[d] \in {found[d], held}
  BY DEF DeployLockInv, DeployLockTypeOK, Keeps, Working
<1>3. HolderNumbers' /\ OwnNumbers'
  BY <1>2 DEF DeployLockInv, HolderNumbers, OwnNumbers
<1>4. ExpiredIsIdle' /\ ReleaseOwn' /\ WorkersHold'
  BY <1>2 DEF DeployLockInv, ExpiredIsIdle, ReleaseOwn, WorkersHold
<1> QED BY <1>1, <1>3, <1>4 DEF DeployLockInv

\* Time passes only over a lock whose holder has ended.
LEMMA ExpireLockStep == DeployLockInv /\ ExpireLock => DeployLockInv'
BY DEF DeployLockInv, ExpireLock, DeployLockTypeOK, HolderNumbers, OwnNumbers,
       ExpiredIsIdle, ReleaseOwn, WorkersHold, Keeps, Working

\* No step of a deployment leads out of the invariant.
LEMMA DeployLockKeeps == DeployLockInv /\ [DeployLockNext]_deployLockVars => DeployLockInv'
<1> SUFFICES ASSUME DeployLockInv, [DeployLockNext]_deployLockVars PROVE DeployLockInv'
  OBVIOUS
<1>1. CASE UNCHANGED deployLockVars
  BY <1>1 DEF deployLockVars, DeployLockInv, DeployLockTypeOK, HolderNumbers, OwnNumbers,
              ExpiredIsIdle, ReleaseOwn, WorkersHold, Keeps, Working
<1>2. ASSUME NEW d \in Deployers, StartDeploy(d) PROVE DeployLockInv'
  BY <1>2, CreateLockStep DEF StartDeploy, Keeps
<1>3. ASSUME NEW d \in Deployers, CreateAgain(d) PROVE DeployLockInv'
  BY <1>3, CreateLockStep DEF CreateAgain, Keeps
<1>4. ASSUME NEW d \in Deployers,
             ReadHolder(d) \/ RemoveExpired(d) \/ ReleaseLock(d) \/ EndDeploy(d) \/ Killed(d)
      PROVE  DeployLockInv'
  BY <1>4, ReadHolderStep, DeleteStep, EndDeployStep
<1> QED BY <1>1, <1>2, <1>3, <1>4, ExpireLockStep DEF DeployLockNext

\* Every reachable state satisfies the invariant.
THEOREM DeployLockInductive == DeployLockSpec => []DeployLockInv
BY DeployLockStarts, DeployLockKeeps, PTL DEF DeployLockSpec

\* One deployment of the platform at a time, unless a removal took away another
\* lock than the one it had read: expiry alone never lets two work.
THEOREM DeploymentsStayAlone == DeployLockSpec => []OneDeployment
<1>1. DeployLockInv => OneDeployment
  BY DEF DeployLockInv, OwnNumbers, WorkersHold, Keeps, Working, OneDeployment
<1> QED BY DeployLockInductive, <1>1, PTL

-------------------------------------------------------------------------------
(* The port-forwards.                                                      *)

USE KubeTunnelAssumption

Inside(c) == caller[c].where \in {"prepares", "listens"}

TunnelRecord ==
    [key : Environments \cup {"none"}, endpoint : Endpoints \cup {"none"}, alive : BOOLEAN,
     process : {"none", "running", "terminated", "ended", "gone"}]
CallRecord ==
    [key : Environments \cup {"none"}, endpoint : Endpoints \cup {"none"},
     where : {"idle", "waiting", "prepares", "listens"}, starts : Nat]

TunnelTypeOK ==
    /\ tunnelOf \in [Environments -> Nat]
    /\ tunnel \in [Tunnels -> TunnelRecord]
    /\ started \in 0 .. MaxTunnels /\ closed \in BOOLEAN
    /\ mutex \in Callers \cup {Unlocked}
    /\ caller \in [Callers -> CallRecord]

\* Whoever is inside Ensure has the mutex, has made room for its tunnel, and no
\* other caller has started one.
EnsureIsAlone ==
    \A c \in Callers :
        /\ caller[c].where # "idle" => caller[c].key \in Environments
        /\ Inside(c) => /\ mutex = c /\ ~closed
                        /\ tunnelOf[caller[c].key] = NoTunnel
        /\ caller[c].where # "listens" => caller[c].starts = NoTunnel
        /\ caller[c].where = "listens" => /\ caller[c].starts \in 1 .. started
                                          /\ tunnel[caller[c].starts].key = caller[c].key

\* The map holds tunnels of the environment that have been started.
MapIsTrue ==
    \A k \in Environments : tunnelOf[k] # NoTunnel =>
        tunnelOf[k] \in 1 .. started /\ tunnel[tunnelOf[k]].key = k

\* A process that runs was started, and was not told to end.
RunningIsAlive ==
    \A i \in Tunnels : tunnel[i].process = "running" =>
        tunnel[i].alive /\ i <= started /\ tunnel[i].key \in Environments

TunnelInv ==
    /\ TunnelTypeOK /\ EnsureIsAlone /\ MapIsTrue /\ RunningIsAlive
    /\ EveryTunnelIsKnown

USE DEF Tunnels, NoTunnel, CallRecord

\* A manager without tunnels satisfies the invariant.
LEMMA TunnelStarts == TunnelInit => TunnelInv
<1> SUFFICES ASSUME TunnelInit PROVE TunnelInv
  OBVIOUS
<1> USE DEF TunnelInit, NotStarted, Idle
<1>1. TunnelTypeOK
  <2>1. closed \in BOOLEAN /\ FALSE \in BOOLEAN
    BY Zenon
  <2>2. NotStarted \in TunnelRecord
    BY <2>1 DEF TunnelRecord
  <2>3. tunnel \in [Tunnels -> TunnelRecord] /\ caller \in [Callers -> CallRecord]
    BY <2>2
  <2>4. started \in 0 .. MaxTunnels
    OBVIOUS
  <2>5. tunnelOf \in [Environments -> Nat] /\ mutex \in Callers \cup {Unlocked}
    OBVIOUS
  <2> QED BY <2>1, <2>3, <2>4, <2>5, Zenon DEF TunnelTypeOK
<1>2. EnsureIsAlone /\ MapIsTrue
  BY DEF EnsureIsAlone, MapIsTrue, Inside
<1>3. RunningIsAlive /\ EveryTunnelIsKnown
  BY DEF RunningIsAlive, EveryTunnelIsKnown
<1> QED BY <1>1, <1>2, <1>3 DEF TunnelInv

\* What stopLocked leaves: the tunnels named do not run, the others are the same.
LEMMA StoppedTunnels ==
    ASSUME TunnelInv, NEW which
    PROVE  /\ Stopped(tunnel, which) \in [Tunnels -> TunnelRecord]
           /\ \A i \in Tunnels : Stopped(tunnel, which)[i].key = tunnel[i].key
           /\ \A i \in Tunnels : Stopped(tunnel, which)[i].process = "running"
                => i \notin which /\ Stopped(tunnel, which)[i] = tunnel[i]
<1> DEFINE T(i) == Stopped(tunnel, which)[i]
<1>1. \A i \in Tunnels : /\ tunnel[i] \in TunnelRecord
                         /\ tunnel[i].process = "running" => tunnel[i].alive
  BY DEF TunnelInv, TunnelTypeOK, RunningIsAlive
<1>2. ASSUME NEW i \in Tunnels
      PROVE  /\ T(i) \in TunnelRecord /\ T(i).key = tunnel[i].key
             /\ T(i).process = "running" => i \notin which /\ T(i) = tunnel[i]
  <2>1. CASE i \in which /\ tunnel[i].alive
    <3>1. T(i) = [tunnel[i] EXCEPT !.alive = FALSE,
                          !.process = IF @ = "running" THEN "terminated" ELSE @]
      BY <2>1 DEF Stopped
    <3>2. FALSE \in BOOLEAN
      BY Zenon
    <3> QED BY <1>1, <3>1, <3>2 DEF TunnelRecord
  <2>2. CASE ~(i \in which /\ tunnel[i].alive)
    <3>1. T(i) = tunnel[i]
      BY <2>2 DEF Stopped
    <3> QED BY <1>1, <2>2, <3>1
  <2> QED BY <2>1, <2>2
<1>3. Stopped(tunnel, which) = [i \in Tunnels |-> T(i)]
  BY DEF Stopped
<1> QED BY <1>2, <1>3

\* A request that begins has nothing yet.
LEMMA CallStep ==
    ASSUME TunnelInv, NEW c \in Callers, NEW key \in Environments,
           NEW endpoint \in Endpoints, Call(c, key, endpoint)
    PROVE  TunnelInv'
<1> USE DEF Call, Idle
<1>1. TunnelTypeOK'
  BY DEF TunnelInv, TunnelTypeOK
<1>2. EnsureIsAlone'
  BY DEF TunnelInv, TunnelTypeOK, EnsureIsAlone, Inside
<1>3. MapIsTrue' /\ RunningIsAlive'
  BY DEF TunnelInv, MapIsTrue, RunningIsAlive
<1>4. \A d \in Callers : caller'[d].starts = caller[d].starts
  BY DEF TunnelInv, TunnelTypeOK
<1>5. EveryTunnelIsKnown'
  BY <1>4 DEF TunnelInv, EveryTunnelIsKnown
<1> QED BY <1>1, <1>2, <1>3, <1>5 DEF TunnelInv

\* What has been started is among the tunnels.
LEMMA StartedTunnels == TunnelInv => \A i \in 1 .. started : i \in Tunnels
BY DEF TunnelInv, TunnelTypeOK

\* Under the free mutex every tunnel that runs is in the map.
LEMMA FreeMutex ==
    ASSUME TunnelInv, mutex = Unlocked
    PROVE  /\ \A c \in Callers : ~Inside(c)
           /\ \A i \in Tunnels : tunnel[i].process = "running"
                => tunnelOf[tunnel[i].key] = i /\ ~closed
BY DEF TunnelInv, EnsureIsAlone, EveryTunnelIsKnown, Unlocked

\* Ensure answers, or stops what is in the way and goes on.
LEMMA EnterEnsureStep ==
    ASSUME TunnelInv, NEW c \in Callers, EnterEnsure(c)
    PROVE  TunnelInv'
<1> DEFINE key == caller[c].key
           which == {tunnelOf[key]}
<1>1. key \in Environments /\ caller[c].where = "waiting" /\ mutex = Unlocked
      /\ caller[c].starts = 0 /\ started' = started /\ closed' = closed
  BY DEF EnterEnsure, TunnelInv, EnsureIsAlone
<1>2. CASE Returns(c) /\ UNCHANGED <<tunnelOf, tunnel>>
  <2> USE <1>1, <1>2 DEF Returns, Idle
  <2>1. TunnelTypeOK'
    BY DEF TunnelInv, TunnelTypeOK
  <2>2. EnsureIsAlone'
    BY DEF TunnelInv, TunnelTypeOK, EnsureIsAlone, Inside
  <2>3. MapIsTrue' /\ RunningIsAlive'
    BY DEF TunnelInv, MapIsTrue, RunningIsAlive
  <2>4. EveryTunnelIsKnown'
    BY FreeMutex DEF EveryTunnelIsKnown
  <2> QED BY <2>1, <2>2, <2>3, <2>4 DEF TunnelInv
<1>3. CASE /\ mutex' = c /\ tunnel' = Stopped(tunnel, which) /\ ~closed
           /\ tunnelOf' = [tunnelOf EXCEPT ![key] = NoTunnel]
           /\ caller' = [caller EXCEPT ![c].where = "prepares"]
  <2>1. TunnelTypeOK'
    <3>1. tunnel' \in [Tunnels -> TunnelRecord]
      BY <1>3, StoppedTunnels
    <3>2. tunnelOf' \in [Environments -> Nat]
      BY <1>3 DEF TunnelInv, TunnelTypeOK
    <3>3. caller' \in [Callers -> CallRecord]
      BY <1>3, ZenonT(60) DEF TunnelInv, TunnelTypeOK
    <3>4. mutex' \in Callers \cup {Unlocked}
      BY <1>3
    <3>5. started' \in 0 .. MaxTunnels /\ closed' \in BOOLEAN
      BY <1>1, Zenon DEF TunnelInv, TunnelTypeOK
    <3> QED BY <3>1, <3>2, <3>3, <3>4, <3>5, Zenon DEF TunnelTypeOK
  <2>2. \A i \in Tunnels : tunnel'[i].key = tunnel[i].key
    BY <1>3, StoppedTunnels
  <2>3. \A i \in Tunnels : tunnel'[i].process = "running" => i # tunnelOf[key] /\ tunnel'[i] = tunnel[i]
    BY <1>3, StoppedTunnels
  <2>4. EnsureIsAlone'
    BY <1>1, <1>3, <2>2, FreeMutex DEF TunnelInv, TunnelTypeOK, EnsureIsAlone, Inside
  <2>5. MapIsTrue'
    <3>1. \A k \in Environments : tunnelOf'[k] = tunnelOf[k] \/ tunnelOf'[k] = 0
      BY <1>3 DEF TunnelInv, TunnelTypeOK
    <3> QED BY <1>1, <2>2, <3>1, StartedTunnels DEF TunnelInv, MapIsTrue
  <2>6. RunningIsAlive'
    BY <1>1, <2>3 DEF TunnelInv, RunningIsAlive
  <2>7. EveryTunnelIsKnown'
    <3> SUFFICES ASSUME NEW i \in Tunnels, tunnel'[i].process = "running"
                 PROVE  tunnelOf'[tunnel'[i].key] = i /\ ~closed'
      BY DEF EveryTunnelIsKnown
    <3>1. i # tunnelOf[key] /\ tunnel'[i] = tunnel[i]
      BY <2>3
    <3>2. tunnelOf[tunnel[i].key] = i /\ tunnel[i].key # key
      BY <1>1, <3>1, FreeMutex
    <3>3. tunnelOf'[tunnel[i].key] = tunnelOf[tunnel[i].key]
      BY <1>3, <3>1, <3>2 DEF TunnelInv, TunnelTypeOK, RunningIsAlive
    <3> QED BY <1>1, <1>3, <3>1, <3>2, <3>3
  <2> QED BY <2>1, <2>4, <2>5, <2>6, <2>7 DEF TunnelInv
<1>4. closed \/ ~closed
  BY DEF TunnelInv, TunnelTypeOK
<1> QED BY <1>1, <1>2, <1>3, <1>4 DEF EnterEnsure

\* A caller that fails before it has started anything leaves nothing.
LEMMA EnsureFailsStep ==
    ASSUME TunnelInv, NEW c \in Callers, EnsureFails(c)
    PROVE  TunnelInv'
<1> USE DEF EnsureFails, Returns, Idle
<1>1. TunnelTypeOK'
  BY DEF TunnelInv, TunnelTypeOK
<1>2. mutex = c /\ caller[c].starts = 0
  BY DEF TunnelInv, EnsureIsAlone, Inside
<1>3. EnsureIsAlone'
  BY <1>2 DEF TunnelInv, TunnelTypeOK, EnsureIsAlone, Inside
<1>4. MapIsTrue' /\ RunningIsAlive'
  BY DEF TunnelInv, MapIsTrue, RunningIsAlive
<1>5. EveryTunnelIsKnown'
  BY <1>2 DEF TunnelInv, EveryTunnelIsKnown
<1> QED BY <1>1, <1>3, <1>4, <1>5 DEF TunnelInv

\* kubectl starts: its caller knows the tunnel until it decides about it.
LEMMA StartTunnelStep ==
    ASSUME TunnelInv, NEW c \in Callers, StartTunnel(c)
    PROVE  TunnelInv'
<1>1. /\ mutex = c /\ mutex' = c /\ caller[c].starts = 0 /\ ~closed /\ ~closed'
      /\ started' = started + 1 /\ started' \in Tunnels /\ started \in Nat
      /\ tunnelOf' = tunnelOf /\ tunnelOf[caller[c].key] = 0
      /\ caller[c].key \in Environments
  BY DEF StartTunnel, TunnelInv, TunnelTypeOK, EnsureIsAlone, Inside
<1>2. /\ tunnel'[started'].key = caller[c].key /\ tunnel'[started'].alive
      /\ \A i \in Tunnels \ {started'} : tunnel'[i] = tunnel[i]
  BY <1>1 DEF StartTunnel, TunnelInv, TunnelTypeOK
<1>3. /\ caller'[c].where = "listens" /\ caller'[c].starts = started'
      /\ caller'[c].key = caller[c].key
      /\ \A d \in Callers \ {c} : caller'[d] = caller[d]
  BY DEF StartTunnel, TunnelInv, TunnelTypeOK
<1>4. TunnelTypeOK'
  <2>1. caller' \in [Callers -> CallRecord]
    <3>1. caller \in [Callers -> CallRecord] /\ started' \in Nat
      BY <1>1 DEF TunnelInv, TunnelTypeOK
    <3>2. [caller[c] EXCEPT !.where = "listens", !.starts = started'] \in CallRecord
      BY <3>1
    <3>3. caller' = [caller EXCEPT ![c] = [caller[c] EXCEPT !.where = "listens", !.starts = started']]
      BY <3>1 DEF StartTunnel
    <3> QED BY <3>1, <3>2, <3>3
  <2>2. TRUE \in BOOLEAN
    BY Zenon
  <2>3. tunnel' \in [Tunnels -> TunnelRecord]
    <3>1. \A i \in Tunnels : tunnel'[i] \in TunnelRecord
      BY <1>1, <2>2 DEF StartTunnel, TunnelInv, TunnelTypeOK, TunnelRecord
    <3> QED BY <3>1 DEF StartTunnel, TunnelInv, TunnelTypeOK
  <2>4. tunnelOf' \in [Environments -> Nat] /\ started' \in 0 .. MaxTunnels
    BY <1>1 DEF TunnelInv, TunnelTypeOK
  <2>5. mutex' \in Callers \cup {Unlocked}
    BY <1>1
  <2>6. closed' \in BOOLEAN
    BY Zenon DEF StartTunnel, TunnelInv, TunnelTypeOK
  <2> QED BY <2>1, <2>3, <2>4, <2>5, <2>6, Zenon DEF TunnelTypeOK
<1>5. \A i \in 1 .. started : i \in Tunnels \ {started'}
  BY <1>1
<1>6. EnsureIsAlone'
  BY <1>1, <1>2, <1>3, <1>5 DEF TunnelInv, EnsureIsAlone, Inside
<1>7. MapIsTrue'
  BY <1>1, <1>2, <1>5 DEF TunnelInv, MapIsTrue
<1>8. RunningIsAlive'
  BY <1>1, <1>2 DEF TunnelInv, RunningIsAlive
<1>9. EveryTunnelIsKnown'
  BY <1>1, <1>2, <1>3 DEF TunnelInv, EveryTunnelIsKnown
<1> QED BY <1>4, <1>6, <1>7, <1>8, <1>9 DEF TunnelInv

\* The tunnel enters the map before the mutex is given back.
LEMMA ForwardingStep ==
    ASSUME TunnelInv, NEW c \in Callers, Forwarding(c)
    PROVE  TunnelInv'
<1> DEFINE key == caller[c].key
           i == caller[c].starts
<1>1. /\ mutex = c /\ ~closed /\ tunnelOf[key] = 0 /\ key \in Environments
      /\ i \in 1 .. started /\ i \in Tunnels /\ tunnel[i].key = key
  BY DEF Forwarding, TunnelInv, TunnelTypeOK, EnsureIsAlone, Inside
<1>2. /\ tunnelOf' = [tunnelOf EXCEPT ![key] = i]
      /\ tunnel' = tunnel /\ started' = started /\ closed' = closed
      /\ caller' = [caller EXCEPT ![c] = Idle] /\ mutex' = Unlocked
  BY DEF Forwarding, Returns
<1>3. TunnelTypeOK'
  BY <1>1, <1>2 DEF TunnelInv, TunnelTypeOK, Idle
<1>4. EnsureIsAlone'
  BY <1>1, <1>2 DEF TunnelInv, TunnelTypeOK, EnsureIsAlone, Inside, Idle
<1>5. MapIsTrue'
  BY <1>1, <1>2 DEF TunnelInv, TunnelTypeOK, MapIsTrue
<1>6. RunningIsAlive'
  BY <1>2 DEF TunnelInv, RunningIsAlive
<1>7. EveryTunnelIsKnown'
  BY <1>1, <1>2 DEF TunnelInv, TunnelTypeOK, EveryTunnelIsKnown
<1> QED BY <1>3, <1>4, <1>5, <1>6, <1>7 DEF TunnelInv

\* A caller that gives up ends the tunnel it has started.
LEMMA GivesUpStep ==
    ASSUME TunnelInv, NEW c \in Callers, GivesUp(c)
    PROVE  TunnelInv'
<1> DEFINE which == {caller[c].starts}
<1>1. mutex = c
  BY DEF GivesUp, TunnelInv, EnsureIsAlone, Inside
<1>2. /\ tunnel' = Stopped(tunnel, which) /\ caller' = [caller EXCEPT ![c] = Idle]
      /\ mutex' = Unlocked /\ UNCHANGED <<tunnelOf, started, closed>>
  BY DEF GivesUp, Returns
<1>3. TunnelTypeOK'
  BY <1>2, StoppedTunnels DEF TunnelInv, TunnelTypeOK, Idle
<1>4. /\ \A i \in Tunnels : tunnel'[i].key = tunnel[i].key
      /\ \A i \in Tunnels : tunnel'[i].process = "running"
           => i # caller[c].starts /\ tunnel'[i] = tunnel[i]
  BY <1>2, StoppedTunnels
<1>5. EnsureIsAlone'
  BY <1>1, <1>2, <1>4 DEF TunnelInv, TunnelTypeOK, EnsureIsAlone, Inside, Idle
<1>6. MapIsTrue'
  BY <1>2, <1>4, StartedTunnels DEF TunnelInv, MapIsTrue
<1>7. RunningIsAlive'
  BY <1>2, <1>4 DEF TunnelInv, RunningIsAlive
<1>8. EveryTunnelIsKnown'
  BY <1>1, <1>2, <1>4, SMTT(30) DEF TunnelInv, EveryTunnelIsKnown
<1> QED BY <1>3, <1>5, <1>6, <1>7, <1>8 DEF TunnelInv

\* The end of a process, and the goroutine that hears of it, forget that tunnel alone.
LEMMA EndStep ==
    ASSUME TunnelInv, NEW i \in Tunnels, ProcessEnds(i) \/ Forget(i)
    PROVE  TunnelInv'
<1>1. UNCHANGED <<started, closed, mutex, caller>>
  BY DEF ProcessEnds, Forget, Waited
<1>2. /\ tunnel'[i].process # "running" /\ tunnel'[i].key = tunnel[i].key
      /\ tunnel' \in [Tunnels -> TunnelRecord]
      /\ \A j \in Tunnels \ {i} : tunnel'[j] = tunnel[j]
  <2>1. tunnel \in [Tunnels -> TunnelRecord] /\ FALSE \in BOOLEAN
    BY Zenon DEF TunnelInv, TunnelTypeOK
  <2>2. CASE ProcessEnds(i)
    BY <2>1, <2>2 DEF ProcessEnds, TunnelRecord
  <2>3. CASE Forget(i)
    BY <2>1, <2>3, ZenonT(60) DEF Forget, Waited, TunnelRecord
  <2> QED BY <2>2, <2>3
<1>3. \A k \in Environments : tunnelOf'[k] = tunnelOf[k] \/ (tunnelOf[k] = i /\ tunnelOf'[k] = 0)
  <2>1. CASE ProcessEnds(i)
    BY <2>1 DEF ProcessEnds
  <2>2. CASE Forget(i)
    BY <2>2 DEF Forget
  <2> QED BY <2>1, <2>2
<1>4. TunnelTypeOK'
  <2>2. tunnel' \in [Tunnels -> TunnelRecord]
    BY <1>2
  <2>3. tunnelOf' \in [Environments -> Nat]
    BY DEF ProcessEnds, Forget, TunnelInv, TunnelTypeOK
  <2>4. started \in 0 .. MaxTunnels /\ closed \in BOOLEAN /\ mutex \in Callers \cup {Unlocked}
        /\ caller \in [Callers -> CallRecord]
    BY Zenon DEF TunnelInv, TunnelTypeOK
  <2> QED BY <1>1, <2>2, <2>3, <2>4, Zenon DEF TunnelTypeOK
<1>5. EnsureIsAlone'
  <2>1. \A j \in Tunnels : tunnel'[j].key = tunnel[j].key
    BY <1>2
  <2> QED BY <1>1, <1>3, <2>1, StartedTunnels DEF TunnelInv, EnsureIsAlone, Inside
<1>6. MapIsTrue'
  <2>1. \A j \in Tunnels : tunnel'[j].key = tunnel[j].key
    BY <1>2
  <2> QED BY <1>1, <1>3, <2>1, StartedTunnels DEF TunnelInv, MapIsTrue
<1>7. RunningIsAlive'
  BY <1>1, <1>2 DEF TunnelInv, RunningIsAlive
<1>8. EveryTunnelIsKnown'
  <2> SUFFICES ASSUME NEW j \in Tunnels, tunnel'[j].process = "running"
               PROVE  \/ tunnelOf'[tunnel'[j].key] = j /\ ~closed'
                      \/ \E c \in Callers : mutex' = c /\ caller'[c].starts = j
    BY DEF EveryTunnelIsKnown
  <2>1. j # i /\ tunnel'[j] = tunnel[j]
    BY <1>2
  <2>2. CASE tunnelOf[tunnel[j].key] = j /\ ~closed
    <3>1. tunnelOf'[tunnel[j].key] = j
      BY <1>3, <2>1, <2>2 DEF TunnelInv, RunningIsAlive
    <3> QED BY <1>1, <2>1, <2>2, <3>1
  <2>3. CASE \E c \in Callers : mutex = c /\ caller[c].starts = j
    BY <1>1, <2>3
  <2> QED BY <2>1, <2>2, <2>3 DEF TunnelInv, EveryTunnelIsKnown
<1> QED BY <1>4, <1>5, <1>6, <1>7, <1>8 DEF TunnelInv

\* Close ends everything the map holds, which under the mutex is everything.
LEMMA CloseStep ==
    ASSUME TunnelInv, CloseTunnels
    PROVE  TunnelInv'
<1> DEFINE which == {tunnelOf[k] : k \in Environments}
<1>1. /\ tunnel' = Stopped(tunnel, which) /\ mutex = Unlocked /\ closed' = TRUE
      /\ tunnelOf' = [k \in Environments |-> NoTunnel]
      /\ UNCHANGED <<started, mutex, caller>>
  BY DEF CloseTunnels
<1>2. TunnelTypeOK'
  BY <1>1, StoppedTunnels DEF TunnelInv, TunnelTypeOK
<1>3. \A i \in Tunnels : /\ tunnel'[i].key = tunnel[i].key
                         /\ tunnel'[i].process = "running" => i \notin which /\ tunnel'[i] = tunnel[i]
  BY <1>1, StoppedTunnels
<1>4. \A i \in Tunnels : tunnel'[i].process # "running"
  <2> SUFFICES ASSUME NEW i \in Tunnels, tunnel'[i].process = "running" PROVE FALSE
    OBVIOUS
  <2>1. tunnel[i].process = "running" /\ i \notin which
    BY <1>3
  <2>2. tunnelOf[tunnel[i].key] = i
    BY <1>1, <2>1, FreeMutex
  <2>3. tunnel[i].key \in Environments
    BY <2>1 DEF TunnelInv, RunningIsAlive
  <2> QED BY <2>1, <2>2, <2>3
<1>5. EnsureIsAlone'
  BY <1>1, FreeMutex DEF TunnelInv, EnsureIsAlone, Inside
<1>6. MapIsTrue' /\ RunningIsAlive' /\ EveryTunnelIsKnown'
  BY <1>1, <1>4 DEF MapIsTrue, RunningIsAlive, EveryTunnelIsKnown
<1> QED BY <1>2, <1>5, <1>6 DEF TunnelInv

\* No step leads out of the invariant.
LEMMA TunnelKeeps == TunnelInv /\ [TunnelNext]_tunnelVars => TunnelInv'
<1> SUFFICES ASSUME TunnelInv, [TunnelNext]_tunnelVars PROVE TunnelInv'
  OBVIOUS
<1>1. CASE UNCHANGED tunnelVars
  BY <1>1 DEF tunnelVars, TunnelInv, TunnelTypeOK, EnsureIsAlone, Inside, MapIsTrue,
              RunningIsAlive, EveryTunnelIsKnown
<1>2. ASSUME NEW c \in Callers, Ensure(c) PROVE TunnelInv'
  BY <1>2, CallStep, EnterEnsureStep, EnsureFailsStep, StartTunnelStep, ForwardingStep,
     GivesUpStep DEF Ensure
<1>3. ASSUME NEW i \in Tunnels, ProcessEnds(i) \/ Forget(i) PROVE TunnelInv'
  BY <1>3, EndStep
<1> QED BY <1>1, <1>2, <1>3, CloseStep DEF TunnelNext

\* A kubectl that runs and was not told to end can still be found and ended,
\* whatever ends late, is given up or is closed meanwhile.
THEOREM TunnelsStayKnown == TunnelSpec => []EveryTunnelIsKnown
<1>1. TunnelInv => EveryTunnelIsKnown
  BY DEF TunnelInv
<1> QED BY TunnelStarts, TunnelKeeps, <1>1, PTL DEF TunnelSpec
===============================================================================
