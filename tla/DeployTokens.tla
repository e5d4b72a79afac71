------------------------------ MODULE DeployTokens -----------------------------
(***************************************************************************)
(* The read-only deploy token with which one Jenkins clones a project's    *)
(* repositories (SyncSourceCredential and SyncDeliveryCredential of        *)
(* internal/gitlab/source_repository.go): GitLab issues and revokes it,    *)
(* a row of cicd_credentials keeps it encrypted, Jenkins holds a copy.     *)
(* Every synchronization of a job runs the rotation; nothing keeps two of  *)
(* them apart, and any of their calls may fail.                            *)
(*                                                                         *)
(* Token 0 is the platform's own GitLab token, which the source credential *)
(* falls back to when it may not administer deploy tokens.                 *)
(***************************************************************************)
EXTENDS Naturals, FiniteSets

CONSTANTS
    Rotations,      \* synchronizations at a time
    MaxDeployTokens, \* bound on the deploy tokens issued
    MaxRevoked      \* bound on the tokens people revoke in GitLab

ASSUME DeployTokensAssumption == MaxDeployTokens \in Nat /\ MaxRevoked \in Nat

VARIABLES
    liveTokens,     \* deploy tokens of this name that GitLab accepts
    tokenCount,     \* tokens issued
    credential,     \* the token in the row, or NoToken without a row
    held,           \* the token in Jenkins, or NoToken
    rotation,       \* what each synchronization does
    byHand,         \* tokens that people revoked
    overtakenBy     \* a rotation took another's new token for an old one, or wrote
                    \* what had been replaced since it read it

tokenVars == <<liveTokens, tokenCount, credential, held, rotation, byHand, overtakenBy>>

PlatformToken == 0
NoToken == MaxDeployTokens + 1

\* old: the tokens listed before its own was made; fallback: the stored token has
\* been found valid; copy: the token SyncCredential has read;
\* answered: Jenkins has taken it.
NoRotation == [step |-> "none", old |-> {}, own |-> NoToken, fallback |-> FALSE,
               copy |-> NoToken, answered |-> FALSE, outdated |-> FALSE]

Rotating(r, step) == rotation[r].step = step
Proceeds(r, step) == rotation' = [rotation EXCEPT ![r].step = step]
GivesUp(r) == rotation' = [rotation EXCEPT ![r] = NoRotation]
HasCopy(r) == rotation[r].step \in {"put", "mark"}
Works(token) == token = PlatformToken \/ token \in liveTokens

\* The row changes, and the rotation goes on as `then'.
RowBecomes(r, row, then) ==
    /\ credential' = row
    /\ rotation' = [q \in Rotations |->
                      IF q = r THEN then
                      ELSE [rotation[q] EXCEPT
                              !.outdated = @ \/ (HasCopy(q) /\ row # credential)]]

-------------------------------------------------------------------------------
(* Choosing the token.                                                     *)

\* ValidateGitCredential clones with the stored token; it may fail for other
\* reasons.  A deploy token that works is pushed again as it is, the platform's own
\* only after an attempt to replace it.
Validate(r) ==
    /\ Rotating(r, "none")
    /\ \E valid \in BOOLEAN :
         /\ valid => Works(credential)
         /\ IF valid /\ credential # PlatformToken THEN Proceeds(r, "read")
            ELSE rotation' = [rotation EXCEPT ![r].step = "list", ![r].fallback = valid]
    /\ UNCHANGED <<liveTokens, tokenCount, credential, held, byHand, overtakenBy>>

\* An error of the listing is ignored.  Nothing in the list tells the old tokens from
\* the one that another rotation has just made and not stored yet.
ListOldTokens(r) ==
    /\ Rotating(r, "list")
    /\ \E old \in {liveTokens, {}} :
         /\ rotation' = [rotation EXCEPT ![r].step = "create", ![r].old = old]
         /\ overtakenBy' = (overtakenBy \/ \E q \in Rotations : rotation[q].own \in old)
    /\ UNCHANGED <<liveTokens, tokenCount, credential, held, byHand>>

\* Without a new token: the stored one if it works, the platform's own if GitLab
\* says that its scope is insufficient, or an error.
TokenRefused(r, insufficient) ==
    IF rotation[r].fallback THEN Proceeds(r, "read")
    ELSE \/ insufficient
            /\ rotation' = [rotation EXCEPT ![r].step = "save", ![r].own = PlatformToken]
         \/ GivesUp(r)

\* createGroupDeployToken: refused, granted, or granted and the answer lost.
CreateToken(r) ==
    /\ Rotating(r, "create")
    /\ \/ TokenRefused(r, TRUE) /\ UNCHANGED <<liveTokens, tokenCount>>
       \/ /\ tokenCount < MaxDeployTokens
          /\ tokenCount' = tokenCount + 1 /\ liveTokens' = liveTokens \cup {tokenCount + 1}
          /\ \/ rotation' = [rotation EXCEPT ![r].step = "check", ![r].own = tokenCount + 1]
             \/ TokenRefused(r, FALSE)
    /\ UNCHANGED <<credential, held, byHand, overtakenBy>>

\* Its own token is revoked again, if GitLab answers.
Withdraws(r) == /\ liveTokens' \in {liveTokens, liveTokens \ {rotation[r].own}}
                /\ GivesUp(r)

\* The new token must be able to clone every repository.
CheckToken(r) ==
    /\ Rotating(r, "check")
    /\ \/ Proceeds(r, "save") /\ UNCHANGED liveTokens
       \/ Withdraws(r)
    /\ UNCHANGED <<tokenCount, credential, held, byHand, overtakenBy>>

-------------------------------------------------------------------------------
(* Storing it and writing it to Jenkins.                                   *)

SaveToken(r) ==
    /\ Rotating(r, "save")
    /\ \/ /\ RowBecomes(r, rotation[r].own, [rotation[r] EXCEPT !.step = "read"])
          /\ UNCHANGED liveTokens
       \/ Withdraws(r) /\ UNCHANGED credential
    /\ UNCHANGED <<tokenCount, held, byHand, overtakenBy>>

\* SyncCredential reads the row,
ReadToken(r) ==
    /\ Rotating(r, "read")
    /\ IF credential = NoToken THEN GivesUp(r)
       ELSE rotation' = [rotation EXCEPT ![r].step = "put", ![r].copy = credential,
                                         ![r].outdated = FALSE]
    /\ UNCHANGED <<liveTokens, tokenCount, credential, held, byHand, overtakenBy>>

\* writes its token to Jenkins, whose answer may get lost,
PutToken(r) ==
    /\ Rotating(r, "put")
    /\ \E done, answered \in BOOLEAN :
         /\ answered => done
         /\ held' = IF done THEN rotation[r].copy ELSE held
         /\ overtakenBy' = (overtakenBy \/ (done /\ rotation[r].outdated))
         /\ rotation' = [rotation EXCEPT ![r].step = "mark",
                                  ![r].answered = answered]
    /\ UNCHANGED <<liveTokens, tokenCount, credential, byHand>>

\* Mutant: the old tokens are revoked whatever Jenkins has answered.
PrunesAlways(answered) == TRUE
\* SyncCredential returns an error when Jenkins did.
Prunes(answered) == answered

\* and the whole row back.
MarkRow(r) ==
    /\ Rotating(r, "mark")
    /\ overtakenBy' = (overtakenBy \/ rotation[r].outdated)
    /\ RowBecomes(r, rotation[r].copy,
                  IF Prunes(rotation[r].answered) /\ rotation[r].own \in 1..MaxDeployTokens
                  THEN [rotation[r] EXCEPT !.step = "prune", !.copy = NoToken, !.answered = FALSE]
                  ELSE NoRotation)
    /\ UNCHANGED <<liveTokens, tokenCount, held, byHand>>

\* Each deletion may fail unnoticed.
PruneTokens(r) ==
    /\ Rotating(r, "prune")
    /\ \E gone \in SUBSET (rotation[r].old \ {rotation[r].own}) :
         liveTokens' = liveTokens \ gone
    /\ GivesUp(r)
    /\ UNCHANGED <<tokenCount, credential, held, byHand, overtakenBy>>

-------------------------------------------------------------------------------
(* Requests that end early, rows that are deleted, people in GitLab.       *)

BreakOff(r) ==
    /\ ~Rotating(r, "none") /\ GivesUp(r)
    /\ UNCHANGED <<liveTokens, tokenCount, credential, held, byHand, overtakenBy>>

\* DeleteCICDCredential, when no job names it; the token and Jenkins keep theirs.
DeleteCredential ==
    /\ credential # NoToken
    /\ credential' = NoToken
    /\ rotation' = [r \in Rotations |-> [rotation[r] EXCEPT !.outdated = HasCopy(r)]]
    /\ UNCHANGED <<liveTokens, tokenCount, held, byHand, overtakenBy>>

RevokeByHand(token) ==
    /\ token \in liveTokens /\ Cardinality(byHand) < MaxRevoked
    /\ liveTokens' = liveTokens \ {token} /\ byHand' = byHand \cup {token}
    /\ UNCHANGED <<tokenCount, credential, held, rotation, overtakenBy>>

TokensInit ==
    /\ liveTokens = {} /\ tokenCount = 0 /\ credential = NoToken /\ held = NoToken
    /\ rotation = [r \in Rotations |-> NoRotation]
    /\ byHand = {} /\ overtakenBy = FALSE

TokensNext ==
    \/ \E r \in Rotations :
         \/ Validate(r) \/ ListOldTokens(r) \/ CreateToken(r) \/ CheckToken(r)
         \/ SaveToken(r) \/ ReadToken(r) \/ PutToken(r) \/ MarkRow(r) \/ PruneTokens(r)
         \/ BreakOff(r)
    \/ DeleteCredential
    \/ \E token \in 1..MaxDeployTokens : RevokeByHand(token)

TokensSpec == TokensInit /\ [][TokensNext]_tokenVars

-------------------------------------------------------------------------------
(* Property.                                                               *)

\* The rotation revokes no token that Jenkins still clones with, wherever it fails
\* (syncSourceRootCredential, SyncDeliveryCredential): a job in Jenkins never loses its
\* access to the repositories unless people revoke the token, one rotation lists
\* the token another has just made, or puts one in place that has been replaced.
JenkinsCanClone ==
    held = NoToken \/ Works(held) \/ held \in byHand \/ overtakenBy
===============================================================================
