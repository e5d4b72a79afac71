---------------------------- MODULE DeliveryProofs ----------------------------
(***************************************************************************)
(* The deploy tokens with which Jenkins clones and the delivery repository *)
(* of a project, for any number of requests that overlap and fail          *)
(* anywhere, and whatever people do in GitLab.                             *)
(***************************************************************************)
EXTENDS DeployTokens, DeliveryRepositories, TLAPS

-------------------------------------------------------------------------------
(* Tokens.                                                                 *)

USE DeployTokensAssumption

Issuable == 1 .. MaxDeployTokens
TokenOrNone == 0 .. (MaxDeployTokens + 1)
RotationRecord ==
    [step : {"none", "list", "create", "check", "save", "read", "put", "mark", "prune"},
     old : SUBSET Issuable, own : TokenOrNone, fallback : BOOLEAN, copy : TokenOrNone,
     answered : BOOLEAN, outdated : BOOLEAN]

TokensTypeOK ==
    /\ liveTokens \in SUBSET Issuable /\ byHand \in SUBSET Issuable
    /\ tokenCount \in 0 .. MaxDeployTokens
    /\ credential \in TokenOrNone /\ held \in TokenOrNone
    /\ rotation \in [Rotations -> RotationRecord]
    /\ overtakenBy \in BOOLEAN

\* Tokens are numbered as GitLab issues them.
Issued(token) == token \in Issuable => token <= tokenCount

TokensAreIssued ==
    /\ Issued(credential) /\ Issued(held)
    /\ \A token \in liveTokens : Issued(token)
    /\ \A r \in Rotations :
         /\ Issued(rotation[r].own)
         /\ \A token \in rotation[r].old : Issued(token)
         /\ rotation[r].step \in {"none", "list", "create"} => rotation[r].own = NoToken
         /\ rotation[r].step \in {"put", "mark"} => Issued(rotation[r].copy)

\* No two rotations have the same new token.
OwnersDiffer ==
    \A r, q \in Rotations : r # q /\ rotation[r].own \in Issuable
        => rotation[r].own # rotation[q].own

\* What can be written to Jenkins: a token that works, unless people revoked it.
Usable == liveTokens \cup byHand
Sound(token, usable) == token \in Issuable => token \in usable

\* The new token of a rotation is no old one for any rotation.
NewIsNotOld ==
    \A r, q \in Rotations : rotation[q].own \notin rotation[r].old

RotationIsTrue(h, row, jenkins, usable) ==
    /\ h.step \in {"put", "mark"} /\ ~h.outdated => h.copy = row
    \* Until it is stored, nobody has the new token but the rotation,
    /\ h.step \in {"check", "save"} /\ h.own \in Issuable
         => h.own # row /\ h.own # jenkins /\ h.own \in usable
    \* afterwards the row has no old one,
    /\ h.step \in {"read", "put", "mark", "prune"} /\ h.own \in Issuable
         => row \notin h.old
    \* and once Jenkins has answered, Jenkins has none either.
    /\ h.own \in Issuable /\ (h.step = "prune" \/ (h.step = "mark" /\ h.answered))
         => jenkins \notin h.old

TokensAreTrue ==
    /\ NewIsNotOld
    /\ \A r \in Rotations : RotationIsTrue(rotation[r], credential, held, Usable)
    /\ Sound(credential, Usable) /\ Sound(held, Usable)

\* Old tokens are revoked for the sake of a new one only.
PruneIsOwn == \A r \in Rotations : rotation[r].step = "prune" => rotation[r].own \in Issuable

TokensInv ==
    /\ TokensTypeOK /\ TokensAreIssued /\ OwnersDiffer /\ PruneIsOwn
    /\ overtakenBy \/ TokensAreTrue

\* The rotation that has not begun, and the two tokens that GitLab did not issue.
LEMMA NothingRotates ==
    /\ NoRotation \in RotationRecord /\ NoRotation.step = "none" /\ NoRotation.own = NoToken
    /\ NoRotation.old = {} /\ NoToken \notin Issuable /\ NoToken \in TokenOrNone
    /\ PlatformToken \notin Issuable /\ PlatformToken \in TokenOrNone
<1>1. FALSE \in BOOLEAN
  BY Zenon
<1>2. NoToken \notin Issuable /\ NoToken \in TokenOrNone
      /\ PlatformToken \notin Issuable /\ PlatformToken \in TokenOrNone
  BY DEF NoToken, PlatformToken, Issuable, TokenOrNone
<1>3. {} \in SUBSET Issuable
  OBVIOUS
<1> HIDE DEF NoToken
<1> QED BY <1>1, <1>2, <1>3 DEF NoRotation, RotationRecord

\* A rotation goes on, and the row and Jenkins keep what they have.  A token that GitLab
\* stops accepting is nobody's; one that it issues is the rotation's.
LEMMA RotationGoesOn ==
    ASSUME TokensInv, NEW r \in Rotations, NEW h \in RotationRecord,
           rotation' = [rotation EXCEPT ![r] = h],
           UNCHANGED <<credential, held, byHand>>,
           tokenCount' \in {tokenCount, tokenCount + 1}, tokenCount' \leq MaxDeployTokens,
           liveTokens' \in SUBSET Issuable,
           \A token \in liveTokens' : token \in liveTokens \/ token = tokenCount',
           overtakenBy' \in BOOLEAN, overtakenBy => overtakenBy',
           h.own \in {NoToken, PlatformToken, rotation[r].own}
              \/ (tokenCount' = tokenCount + 1 /\ h.own = tokenCount'),
           h.step \in {"none", "list", "create"} => h.own = NoToken,
           \A token \in h.old : token \leq tokenCount, h.step \notin {"mark", "prune"},
           h.step = "put" => h.copy = credential,
           ~overtakenBy' =>
              /\ RotationIsTrue(h, credential, held, Usable')
              /\ h.own \notin h.old
              /\ \A q \in Rotations : q # r => rotation[q].own \notin h.old
              /\ \A token \in liveTokens \ liveTokens' :
                    /\ token # credential /\ token # held
                    /\ \A q \in Rotations : q # r => rotation[q].own # token
    PROVE  TokensInv'
<1>0. /\ rotation \in [Rotations -> RotationRecord] /\ tokenCount \in 0 .. MaxDeployTokens
      /\ liveTokens \in SUBSET Issuable /\ byHand \in SUBSET Issuable
  BY DEF TokensInv, TokensTypeOK
<1>1. TokensTypeOK'
  BY <1>0 DEF TokensInv, TokensTypeOK
<1>2. (\A q \in Rotations : q # r => rotation'[q] = rotation[q]) /\ rotation'[r] = h
  BY <1>0
<1>3. \A token \in Issuable : token \in Nat
  BY DEF Issuable
<1>4. tokenCount \in Nat /\ tokenCount' \in Nat /\ tokenCount' >= tokenCount
  BY <1>0
<1>5. \A q \in Rotations : /\ rotation[q].own \in Issuable => rotation[q].own \leq tokenCount
                           /\ \A token \in rotation[q].old : token \leq tokenCount
                           /\ rotation[q].old \in SUBSET Issuable
  BY <1>0 DEF TokensInv, TokensAreIssued, Issued, RotationRecord
<1>6. h.old \in SUBSET Issuable
  BY DEF RotationRecord
<1>7. TokensAreIssued'
  <2>1. Issued(credential)' /\ Issued(held)' /\ \A token \in liveTokens' : Issued(token)'
    BY <1>0, <1>3, <1>4 DEF TokensInv, TokensAreIssued, Issued
  <2>2. Issued(rotation[r].own)' /\ \A token \in rotation'[r].old : Issued(token)'
    BY <1>2, <1>3, <1>4, <1>5, <1>6, NothingRotates DEF Issued
  <2>3. ASSUME NEW q \in Rotations, q # r
        PROVE  Issued(rotation[q].own)' /\ \A token \in rotation'[q].old : Issued(token)'
    BY <1>2, <1>3, <1>4, <1>5, <2>3 DEF Issued
  <2>4. ASSUME NEW q \in Rotations
        PROVE  /\ rotation'[q].step \in {"none", "list", "create"} => rotation'[q].own = NoToken
               /\ rotation'[q].step \in {"put", "mark"} => Issued(rotation[q].copy)'
    BY <1>2, <2>1, <1>3, <1>4 DEF TokensInv, TokensAreIssued, Issued
  <2> QED BY <2>1, <2>2, <2>3, <2>4 DEF TokensAreIssued
<1>8. OwnersDiffer'
  <2>1. ASSUME NEW q \in Rotations, q # r, h.own \in Issuable PROVE h.own # rotation[q].own
    BY <1>3, <1>4, <1>5, <2>1, NothingRotates DEF TokensInv, OwnersDiffer
  <2> QED BY <1>2, <2>1 DEF TokensInv, OwnersDiffer
<1>9. ASSUME ~overtakenBy' PROVE TokensAreTrue'
  <2>1. TokensAreTrue
    BY <1>9 DEF TokensInv
  <2>2. \A q \in Rotations : h.own \notin rotation[q].old
    BY <1>3, <1>4, <1>5, <2>1, NothingRotates DEF TokensAreTrue, NewIsNotOld
  <2>3. NewIsNotOld'
    BY <1>2, <1>9, <2>1, <2>2 DEF TokensAreTrue, NewIsNotOld
  <2>4. Sound(credential, Usable)' /\ Sound(held, Usable)'
    BY <1>9, <2>1 DEF TokensAreTrue, Sound, Usable
  <2>5. ASSUME NEW q \in Rotations, q # r
        PROVE  RotationIsTrue(rotation[q], credential, held, Usable')
    <3>1. rotation[q].own \in Usable => rotation[q].own \in Usable'
      BY <1>9, <2>5 DEF Usable
    <3> QED BY <2>1, <3>1 DEF TokensAreTrue, RotationIsTrue
  <2>6. \A q \in Rotations : RotationIsTrue(rotation[q], credential, held, Usable)'
    BY <1>2, <1>9, <2>5
  <2> QED BY <2>3, <2>4, <2>6 DEF TokensAreTrue
<1>10. PruneIsOwn'
  BY <1>2 DEF TokensInv, PruneIsOwn
<1> QED BY <1>1, <1>7, <1>8, <1>9, <1>10 DEF TokensInv

\* A rotation may always end where it is, and take back a token it has not stored.
LEMMA RotationEnds ==
    ASSUME TokensInv, NEW r \in Rotations, GivesUp(r),
           liveTokens' = liveTokens \/ (liveTokens' = liveTokens \ {rotation[r].own}
                                        /\ rotation[r].step \in {"check", "save"}),
           UNCHANGED <<tokenCount, credential, held, byHand, overtakenBy>>
    PROVE  TokensInv'
<1>0. /\ rotation \in [Rotations -> RotationRecord] /\ tokenCount \in 0 .. MaxDeployTokens
      /\ liveTokens \in SUBSET Issuable /\ overtakenBy \in BOOLEAN
  BY DEF TokensInv, TokensTypeOK
<1>1. rotation' = [rotation EXCEPT ![r] = NoRotation]
  BY DEF GivesUp
<1>2. liveTokens' \in SUBSET Issuable /\ \A token \in liveTokens' : token \in liveTokens
  BY <1>0
<1>3. \A token \in liveTokens \ liveTokens' :
         token = rotation[r].own /\ rotation[r].own \in Issuable /\ rotation[r].step \in {"check", "save"}
  BY <1>0
<1>4. ~overtakenBy' =>
         /\ RotationIsTrue(NoRotation, credential, held, Usable')
         /\ NoRotation.own \notin NoRotation.old
         /\ \A token \in liveTokens \ liveTokens' :
               /\ token # credential /\ token # held
               /\ \A q \in Rotations : q # r => rotation[q].own # token
  BY <1>3, NothingRotates DEF RotationIsTrue, TokensInv, TokensAreTrue, OwnersDiffer
<1>5. tokenCount' = tokenCount /\ tokenCount' \leq MaxDeployTokens
  BY <1>0
<1> QED BY <1>0, <1>1, <1>2, <1>4, <1>5, NothingRotates, RotationGoesOn

\* A rotation that goes on with what it has, to a step that asks for no more.
LEMMA RotationProceeds ==
    ASSUME TokensInv, NEW r \in Rotations, NEW step \in {"save", "read"}, Proceeds(r, step),
           \/ step = "save" /\ Rotating(r, "check")
           \/ step = "read" /\ rotation[r].own = NoToken,
           UNCHANGED <<tokenCount, liveTokens, credential, held, byHand, overtakenBy>>
    PROVE  TokensInv'
<1> DEFINE h == [rotation[r] EXCEPT !.step = step]
<1>0. /\ rotation \in [Rotations -> RotationRecord] /\ tokenCount \in 0 .. MaxDeployTokens
      /\ liveTokens \in SUBSET Issuable /\ overtakenBy \in BOOLEAN
  BY DEF TokensInv, TokensTypeOK
<1>1. h \in RotationRecord /\ h.step = step /\ h.own = rotation[r].own /\ h.old = rotation[r].old
  BY <1>0 DEF RotationRecord
<1>2. rotation' = [rotation EXCEPT ![r] = h]
  BY DEF Proceeds
<1> HIDE DEF h
<1>3. ~overtakenBy' =>
         /\ RotationIsTrue(h, credential, held, Usable')
         /\ h.own \notin h.old
         /\ \A q \in Rotations : q # r => rotation[q].own \notin h.old
  BY <1>1, NothingRotates DEF RotationIsTrue, TokensInv, TokensAreTrue, NewIsNotOld, Rotating, Usable
<1>4. \A token \in h.old : token \leq tokenCount
  BY <1>0, <1>1 DEF TokensInv, TokensAreIssued, Issued, RotationRecord
<1>5. tokenCount' = tokenCount /\ tokenCount' \leq MaxDeployTokens
  BY <1>0
<1> QED BY <1>0, <1>1, <1>2, <1>3, <1>4, <1>5, RotationGoesOn

\* Validating chooses between the stored token and a new one and changes neither.
LEMMA ValidateStep ==
    ASSUME TokensInv, NEW r \in Rotations, Validate(r)
    PROVE  TokensInv'
<1>0. /\ rotation \in [Rotations -> RotationRecord] /\ tokenCount \in 0 .. MaxDeployTokens
      /\ liveTokens \in SUBSET Issuable /\ overtakenBy \in BOOLEAN
  BY DEF TokensInv, TokensTypeOK
<1>1. rotation[r].own = NoToken
  BY DEF Validate, Rotating, TokensInv, TokensAreIssued
<1>2. UNCHANGED <<tokenCount, liveTokens, credential, held, byHand, overtakenBy>>
  BY DEF Validate
<1>3. CASE Proceeds(r, "read")
  BY <1>1, <1>2, <1>3, RotationProceeds
<1>4. ASSUME NEW valid \in BOOLEAN,
             rotation' = [rotation EXCEPT ![r].step = "list", ![r].fallback = valid]
      PROVE  TokensInv'
  <2> DEFINE h == [rotation[r] EXCEPT !.step = "list", !.fallback = valid]
  <2>1. h \in RotationRecord /\ h.step = "list" /\ h.own = NoToken /\ h.old = rotation[r].old
    BY <1>0, <1>1 DEF RotationRecord
  <2>2. rotation' = [rotation EXCEPT ![r] = h]
    BY <1>4
  <2> HIDE DEF h
  <2>3. ~overtakenBy' =>
           /\ RotationIsTrue(h, credential, held, Usable')
           /\ h.own \notin h.old
           /\ \A q \in Rotations : q # r => rotation[q].own \notin h.old
    BY <1>1, <1>2, <2>1 DEF RotationIsTrue, TokensInv, TokensAreTrue, NewIsNotOld
  <2>4. \A token \in h.old : token \leq tokenCount
    BY <1>0, <2>1 DEF TokensInv, TokensAreIssued, Issued, RotationRecord
  <2>5. tokenCount' = tokenCount /\ tokenCount' \leq MaxDeployTokens
    BY <1>0, <1>2
  <2> QED BY <1>0, <1>2, <2>1, <2>2, <2>3, <2>4, <2>5, RotationGoesOn
<1> QED BY <1>3, <1>4 DEF Validate

\* The list of a rotation names only tokens that were issued before it.
LEMMA ListOldTokensStep ==
    ASSUME TokensInv, NEW r \in Rotations, ListOldTokens(r)
    PROVE  TokensInv'
<1>0. /\ rotation \in [Rotations -> RotationRecord] /\ tokenCount \in 0 .. MaxDeployTokens
      /\ liveTokens \in SUBSET Issuable /\ overtakenBy \in BOOLEAN
  BY DEF TokensInv, TokensTypeOK
<1>1. rotation[r].own = NoToken
  BY DEF ListOldTokens, Rotating, TokensInv, TokensAreIssued
<1>2. PICK old \in {liveTokens, {}} :
         /\ rotation' = [rotation EXCEPT ![r].step = "create", ![r].old = old]
         /\ overtakenBy' = (overtakenBy \/ \E q \in Rotations : rotation[q].own \in old)
  BY DEF ListOldTokens
<1> DEFINE h == [rotation[r] EXCEPT !.step = "create", !.old = old]
<1>3. UNCHANGED <<liveTokens, tokenCount, credential, held, byHand>>
  BY DEF ListOldTokens
<1>4. h \in RotationRecord /\ h.step = "create" /\ h.own = NoToken /\ h.old = old
  BY <1>0, <1>1 DEF RotationRecord
<1>5. rotation' = [rotation EXCEPT ![r] = h]
  BY <1>2
<1> HIDE DEF h
<1>6. ~overtakenBy' =>
         /\ RotationIsTrue(h, credential, held, Usable')
         /\ h.own \notin h.old
         /\ \A q \in Rotations : q # r => rotation[q].own \notin h.old
  BY <1>1, <1>2, <1>4 DEF RotationIsTrue
<1>7. \A token \in h.old : token \leq tokenCount
  BY <1>0, <1>4 DEF TokensInv, TokensAreIssued, Issued
<1>8. tokenCount' = tokenCount /\ tokenCount' \leq MaxDeployTokens
  BY <1>0, <1>3
<1>9. overtakenBy' \in BOOLEAN /\ (overtakenBy => overtakenBy')
  BY <1>2, Zenon
<1> QED BY <1>0, <1>3, <1>4, <1>5, <1>6, <1>7, <1>8, <1>9, RotationGoesOn

\* A token created now is in no list and in no place yet but its own rotation.
LEMMA CreateTokenStep ==
    ASSUME TokensInv, NEW r \in Rotations, CreateToken(r)
    PROVE  TokensInv'
<1>0. /\ rotation \in [Rotations -> RotationRecord] /\ tokenCount \in 0 .. MaxDeployTokens
      /\ liveTokens \in SUBSET Issuable /\ overtakenBy \in BOOLEAN
  BY DEF TokensInv, TokensTypeOK
<1>1. /\ rotation[r].own = NoToken /\ UNCHANGED <<credential, held, byHand, overtakenBy>>
      /\ rotation[r].step = "create"
  BY DEF CreateToken, Rotating, TokensInv, TokensAreIssued
<1>2. /\ \A token \in rotation[r].old : token \leq tokenCount
      /\ rotation[r].old \in SUBSET Issuable
  BY <1>0 DEF TokensInv, TokensAreIssued, Issued, RotationRecord
<1>3. \/ UNCHANGED <<liveTokens, tokenCount>>
      \/ /\ tokenCount < MaxDeployTokens
         /\ tokenCount' = tokenCount + 1 /\ liveTokens' = liveTokens \cup {tokenCount + 1}
  BY Zenon DEF CreateToken
<1>4. /\ tokenCount' \in {tokenCount, tokenCount + 1} /\ tokenCount' \leq MaxDeployTokens
      /\ liveTokens' \in SUBSET Issuable
      /\ \A token \in liveTokens' : token \in liveTokens \/ token = tokenCount'
      /\ liveTokens \subseteq liveTokens'
  <2>1. CASE UNCHANGED <<liveTokens, tokenCount>>
    BY <1>0, <2>1
  <2>2. CASE /\ tokenCount < MaxDeployTokens
             /\ tokenCount' = tokenCount + 1 /\ liveTokens' = liveTokens \cup {tokenCount + 1}
    <3>1. tokenCount + 1 \in Issuable /\ tokenCount + 1 \leq MaxDeployTokens
      BY <1>0, <2>2 DEF Issuable
    <3> QED BY <1>0, <2>2, <3>1
  <2> QED BY <1>3, <2>1, <2>2
<1>5. ASSUME NEW h \in RotationRecord, rotation' = [rotation EXCEPT ![r] = h],
             h.step \in {"none", "read", "save", "check"}, h.old \in {{}, rotation[r].old},
             \/ h.own = NoToken
             \/ h.own = PlatformToken /\ h.step = "save"
             \/ h.own = tokenCount' /\ tokenCount' = tokenCount + 1 /\ h.step = "check"
                  /\ h.own \in liveTokens'
      PROVE  TokensInv'
  <2>1. h.own \notin rotation[r].old
    BY <1>0, <1>2, <1>5, NothingRotates
  <2>2. h.own \in Issuable => h.own # credential /\ h.own # held /\ h.own \in Usable'
    BY <1>0, <1>5, NothingRotates DEF TokensInv, TokensAreIssued, Issued, Usable, Issuable
  <2>3. ~overtakenBy' =>
           /\ RotationIsTrue(h, credential, held, Usable')
           /\ h.own \notin h.old
           /\ \A q \in Rotations : q # r => rotation[q].own \notin h.old
    <3>1. h.step # "read" \/ h.own \notin Issuable
      BY <1>5, NothingRotates
    <3> QED BY <1>1, <1>5, <2>1, <2>2, <3>1 DEF RotationIsTrue, TokensInv, TokensAreTrue, NewIsNotOld
  <2>4. \A token \in h.old : token \leq tokenCount
    BY <1>2, <1>5
  <2>5. h.step \in {"none", "list", "create"} => h.own = NoToken
    BY <1>5
  <2> QED BY <1>0, <1>1, <1>4, <1>5, <2>3, <2>4, <2>5, RotationGoesOn
<1>6. ASSUME NEW insufficient \in BOOLEAN, TokenRefused(r, insufficient) PROVE TokensInv'
  <2>1. CASE Proceeds(r, "read")
    <3> DEFINE h == [rotation[r] EXCEPT !.step = "read"]
    <3>1. h \in RotationRecord /\ h.step = "read" /\ h.own = NoToken /\ h.old = rotation[r].old
      BY <1>0, <1>1 DEF RotationRecord
    <3>2. rotation' = [rotation EXCEPT ![r] = h]
      BY <2>1 DEF Proceeds
    <3> HIDE DEF h
    <3> QED BY <1>5, <3>1, <3>2
  <2>2. CASE rotation' = [rotation EXCEPT ![r].step = "save", ![r].own = PlatformToken]
    <3> DEFINE h == [rotation[r] EXCEPT !.step = "save", !.own = PlatformToken]
    <3>1. h \in RotationRecord /\ h.step = "save" /\ h.own = PlatformToken /\ h.old = rotation[r].old
      BY <1>0, NothingRotates DEF RotationRecord
    <3>2. rotation' = [rotation EXCEPT ![r] = h]
      BY <2>2
    <3> HIDE DEF h
    <3> QED BY <1>5, <3>1, <3>2
  <2>3. CASE GivesUp(r)
    BY <1>5, <2>3, NothingRotates DEF GivesUp
  <2> QED BY <1>6, <2>1, <2>2, <2>3 DEF TokenRefused
<1>7. CASE /\ tokenCount' = tokenCount + 1 /\ liveTokens' = liveTokens \cup {tokenCount + 1}
           /\ rotation' = [rotation EXCEPT ![r].step = "check", ![r].own = tokenCount + 1]
  <2> DEFINE h == [rotation[r] EXCEPT !.step = "check", !.own = tokenCount + 1]
  <2>1. tokenCount + 1 \in TokenOrNone
    BY <1>0 DEF TokenOrNone
  <2>2. h \in RotationRecord /\ h.step = "check" /\ h.own = tokenCount' /\ h.old = rotation[r].old
    BY <1>0, <1>7, <2>1 DEF RotationRecord
  <2>3. rotation' = [rotation EXCEPT ![r] = h]
    BY <1>7
  <2> HIDE DEF h
  <2> QED BY <1>5, <1>7, <2>2, <2>3
<1> QED BY <1>6, <1>7 DEF CreateToken

\* A token that cannot clone is withdrawn before anybody else has it.
LEMMA CheckTokenStep ==
    ASSUME TokensInv, NEW r \in Rotations, CheckToken(r)
    PROVE  TokensInv'
<1>1. CASE Proceeds(r, "save") /\ UNCHANGED liveTokens
  BY <1>1, RotationProceeds DEF CheckToken
<1>2. CASE Withdraws(r)
  BY <1>2, RotationEnds DEF CheckToken, Withdraws, Rotating
<1> QED BY <1>1, <1>2 DEF CheckToken

\* The copy of the row is up to date when it is read.
LEMMA ReadTokenStep ==
    ASSUME TokensInv, NEW r \in Rotations, ReadToken(r)
    PROVE  TokensInv'
<1> DEFINE h == [rotation[r] EXCEPT !.step = "put", !.copy = credential, !.outdated = FALSE]
<1>0. /\ rotation \in [Rotations -> RotationRecord] /\ tokenCount \in 0 .. MaxDeployTokens
      /\ liveTokens \in SUBSET Issuable /\ overtakenBy \in BOOLEAN /\ credential \in TokenOrNone
  BY DEF TokensInv, TokensTypeOK
<1>1. Rotating(r, "read") /\ UNCHANGED <<liveTokens, tokenCount, credential, held, byHand, overtakenBy>>
  BY DEF ReadToken
<1>2. CASE GivesUp(r)
  BY <1>1, <1>2, RotationEnds
<1>3. CASE rotation' = [rotation EXCEPT ![r] = h]
  <2>1. FALSE \in BOOLEAN
    BY Zenon
  <2>2. /\ h \in RotationRecord /\ h.step = "put" /\ h.copy = credential /\ h.old = rotation[r].old
        /\ h.own = rotation[r].own /\ h.outdated = FALSE
    BY <1>0, <2>1 DEF RotationRecord
  <2> HIDE DEF h
  <2>3. ~overtakenBy' =>
           /\ RotationIsTrue(h, credential, held, Usable')
           /\ h.own \notin h.old
           /\ \A q \in Rotations : q # r => rotation[q].own \notin h.old
    BY <1>1, <2>2 DEF RotationIsTrue, TokensInv, TokensAreTrue, NewIsNotOld, Rotating
  <2>4. \A token \in h.old : token \leq tokenCount
    BY <1>0, <2>2 DEF TokensInv, TokensAreIssued, Issued, RotationRecord
  <2>5. tokenCount' = tokenCount /\ tokenCount' \leq MaxDeployTokens
    BY <1>0, <1>1
  <2> QED BY <1>0, <1>1, <1>3, <2>2, <2>3, <2>4, <2>5, RotationGoesOn
<1> QED BY <1>2, <1>3 DEF ReadToken

\* Revoked are old tokens only, and neither the row nor Jenkins has one of them by then.
LEMMA PruneTokensStep ==
    ASSUME TokensInv, NEW r \in Rotations, PruneTokens(r)
    PROVE  TokensInv'
<1>0. /\ rotation \in [Rotations -> RotationRecord] /\ tokenCount \in 0 .. MaxDeployTokens
      /\ liveTokens \in SUBSET Issuable /\ overtakenBy \in BOOLEAN
  BY DEF TokensInv, TokensTypeOK
<1>1. PICK gone \in SUBSET (rotation[r].old \ {rotation[r].own}) : liveTokens' = liveTokens \ gone
  BY DEF PruneTokens
<1>2. /\ rotation[r].step = "prune" /\ rotation' = [rotation EXCEPT ![r] = NoRotation]
      /\ UNCHANGED <<tokenCount, credential, held, byHand, overtakenBy>>
  BY DEF PruneTokens, Rotating, GivesUp
<1>3. liveTokens' \in SUBSET Issuable /\ \A token \in liveTokens' : token \in liveTokens
  BY <1>0, <1>1
<1>4. \A token \in liveTokens \ liveTokens' : token \in rotation[r].old
  BY <1>1
<1>5. rotation[r].own \in Issuable
  BY <1>2 DEF TokensInv, PruneIsOwn
<1>6. ~overtakenBy' =>
         /\ RotationIsTrue(NoRotation, credential, held, Usable')
         /\ NoRotation.own \notin NoRotation.old
         /\ \A token \in liveTokens \ liveTokens' :
               /\ token # credential /\ token # held
               /\ \A q \in Rotations : q # r => rotation[q].own # token
  BY <1>2, <1>4, <1>5, NothingRotates DEF RotationIsTrue, TokensInv, TokensAreTrue, NewIsNotOld
<1>7. tokenCount' = tokenCount /\ tokenCount' \leq MaxDeployTokens
  BY <1>0, <1>2
<1> QED BY <1>0, <1>2, <1>3, <1>6, <1>7, NothingRotates, RotationGoesOn

\* A rotation that breaks off revokes nothing.
LEMMA BreakOffStep ==
    ASSUME TokensInv, NEW r \in Rotations, BreakOff(r)
    PROVE  TokensInv'
BY RotationEnds DEF BreakOff

\* The row becomes another one, by a rotation that has just stored its token or that
\* writes back what it has read.
LEMMA RowBecomesStep ==
    ASSUME TokensInv, NEW r \in Rotations, NEW row \in TokenOrNone, NEW then \in RotationRecord,
           RowBecomes(r, row, then),
           UNCHANGED <<liveTokens, tokenCount, held, byHand>>,
           overtakenBy' \in BOOLEAN, overtakenBy => overtakenBy',
           row \in Issuable => row \leq tokenCount,
           then.own \in {NoToken, rotation[r].own}, then.old \in {{}, rotation[r].old},
           then.step = "prune" => then.own \in Issuable, then.step \notin {"put", "mark"},
           then.step \in {"none", "list", "create"} => then.own = NoToken,
           ~overtakenBy' =>
              /\ RotationIsTrue(then, row, held, Usable)
              /\ Sound(row, Usable)
              /\ row = credential \/ row = rotation[r].own
    PROVE  TokensInv'
<1>0. /\ rotation \in [Rotations -> RotationRecord] /\ tokenCount \in 0 .. MaxDeployTokens
      /\ liveTokens \in SUBSET Issuable /\ byHand \in SUBSET Issuable /\ held \in TokenOrNone
  BY DEF TokensInv, TokensTypeOK
<1>1. credential' = row /\ rotation'[r] = then /\ DOMAIN rotation' = Rotations
  BY DEF RowBecomes
<1>2. ASSUME NEW q \in Rotations, q # r
      PROVE  /\ rotation'[q] \in RotationRecord
             /\ rotation'[q].step = rotation[q].step /\ rotation'[q].old = rotation[q].old
             /\ rotation'[q].own = rotation[q].own /\ rotation'[q].copy = rotation[q].copy
             /\ rotation'[q].answered = rotation[q].answered
             /\ ~rotation'[q].outdated => ~rotation[q].outdated /\ ~(HasCopy(q) /\ row # credential)
  <2>1. rotation'[q] = [rotation[q] EXCEPT !.outdated = @ \/ (HasCopy(q) /\ row # credential)]
    BY <1>2 DEF RowBecomes
  <2>2. (rotation[q].outdated \/ (HasCopy(q) /\ row # credential)) \in BOOLEAN
    BY Zenon
  <2>3. rotation[q] \in RotationRecord
    BY <1>0
  <2> QED BY <2>1, <2>2, <2>3 DEF RotationRecord
<1>3. TokensTypeOK'
  <2>1. rotation' \in [Rotations -> RotationRecord]
    <3>1. rotation' = [q \in Rotations |-> rotation'[q]]
      BY DEF RowBecomes
    <3> QED BY <1>1, <1>2, <3>1
  <2> QED BY <1>0, <1>1, <2>1 DEF TokensTypeOK
<1>4. TokensAreIssued'
  <2>1. ASSUME NEW q \in Rotations
        PROVE  /\ Issued(rotation'[q].own) /\ \A token \in rotation'[q].old : Issued(token)
               /\ rotation'[q].step \in {"none", "list", "create"} => rotation'[q].own = NoToken
               /\ rotation'[q].step \in {"put", "mark"} => Issued(rotation'[q].copy)
    BY <1>1, <1>2, NothingRotates DEF TokensInv, TokensAreIssued, Issued
  <2> QED BY <1>1, <2>1 DEF TokensInv, TokensAreIssued, Issued
<1>5. OwnersDiffer'
  BY <1>1, <1>2, NothingRotates DEF TokensInv, OwnersDiffer
<1>6. PruneIsOwn'
  BY <1>1, <1>2 DEF TokensInv, PruneIsOwn
<1>7. ASSUME ~overtakenBy' PROVE TokensAreTrue'
  <2>1. TokensAreTrue
    BY <1>7 DEF TokensInv
  <2>2. NewIsNotOld'
    <3>1. NoToken \notin rotation[r].old /\ \A q \in Rotations : NoToken \notin rotation[q].old
      BY <1>0, NothingRotates DEF RotationRecord
    <3>2. ASSUME NEW q \in Rotations, NEW p \in Rotations PROVE rotation'[p].own \notin rotation'[q].old
      BY <1>1, <1>2, <2>1, <3>1 DEF TokensAreTrue, NewIsNotOld
    <3> QED BY <3>2 DEF NewIsNotOld
  <2>3. Usable' = Usable
    BY DEF Usable
  <2>4. Sound(credential, Usable)' /\ Sound(held, Usable)'
    BY <1>1, <1>7, <2>1, <2>3 DEF TokensAreTrue, Sound
  <2>5. ASSUME NEW q \in Rotations, q # r PROVE RotationIsTrue(rotation'[q], row, held, Usable)
    <3>1. row = credential \/ row # rotation[q].own \/ rotation[q].own \notin Issuable
      BY <1>7, <2>5 DEF TokensInv, OwnersDiffer
    <3>2. row = credential \/ row \notin rotation[q].old
      BY <1>7, <2>1 DEF TokensAreTrue, NewIsNotOld
    <3> QED BY <1>2, <2>1, <2>5, <3>1, <3>2 DEF TokensAreTrue, RotationIsTrue, HasCopy, Rotating
  <2>6. \A q \in Rotations : RotationIsTrue(rotation[q], credential, held, Usable)'
    BY <1>1, <1>7, <2>3, <2>5
  <2> QED BY <2>2, <2>4, <2>6 DEF TokensAreTrue
<1> QED BY <1>3, <1>4, <1>5, <1>6, <1>7 DEF TokensInv

\* The token that gets into the row is the new one, and no old token of any rotation.
LEMMA SaveTokenStep ==
    ASSUME TokensInv, NEW r \in Rotations, SaveToken(r)
    PROVE  TokensInv'
<1> DEFINE then == [rotation[r] EXCEPT !.step = "read"]
           row == rotation[r].own
<1>0. rotation \in [Rotations -> RotationRecord] /\ overtakenBy \in BOOLEAN
      /\ tokenCount \in 0 .. MaxDeployTokens
  BY DEF TokensInv, TokensTypeOK
<1>1. Rotating(r, "save") /\ UNCHANGED <<tokenCount, held, byHand, overtakenBy>>
  BY DEF SaveToken
<1>2. CASE Withdraws(r) /\ UNCHANGED credential
  BY <1>1, <1>2, RotationEnds DEF Withdraws, Rotating
<1>3. CASE RowBecomes(r, row, then) /\ UNCHANGED liveTokens
  <2>1. /\ then \in RotationRecord /\ then.step = "read" /\ then.old = rotation[r].old
        /\ then.own = row /\ row \in TokenOrNone
    BY <1>0 DEF RotationRecord
  <2>2. ~overtakenBy' => RotationIsTrue(then, row, held, Usable) /\ Sound(row, Usable)
    BY <1>1, <2>1 DEF RotationIsTrue, TokensInv, TokensAreTrue, NewIsNotOld, Sound, Rotating
  <2>3. row \in Issuable => row \leq tokenCount
    BY DEF TokensInv, TokensAreIssued, Issued
  <2> HIDE DEF then
  <2> QED BY <1>0, <1>1, <1>3, <2>1, <2>2, <2>3, RowBecomesStep
<1> QED BY <1>2, <1>3 DEF SaveToken

\* The row is written back as it was read; pruning begins only after an answer of Jenkins.
LEMMA MarkRowStep ==
    ASSUME TokensInv, NEW r \in Rotations, MarkRow(r)
    PROVE  TokensInv'
<1> DEFINE row == rotation[r].copy
           on == [rotation[r] EXCEPT !.step = "prune", !.copy = NoToken, !.answered = FALSE]
           then == IF rotation[r].answered /\ rotation[r].own \in Issuable THEN on ELSE NoRotation
<1>0. rotation \in [Rotations -> RotationRecord] /\ overtakenBy \in BOOLEAN
      /\ tokenCount \in 0 .. MaxDeployTokens
  BY DEF TokensInv, TokensTypeOK
<1>1. /\ Rotating(r, "mark") /\ UNCHANGED <<liveTokens, tokenCount, held, byHand>>
      /\ overtakenBy' = (overtakenBy \/ rotation[r].outdated)
      /\ RowBecomes(r, row, then)
  BY DEF MarkRow, Prunes, Issuable
<1>2. overtakenBy' \in BOOLEAN /\ (overtakenBy => overtakenBy')
  BY <1>1, Zenon
<1>3. row \in TokenOrNone /\ (row \in Issuable => row \leq tokenCount)
  BY <1>0, <1>1 DEF RotationRecord, TokensInv, TokensAreIssued, Issued, Rotating
<1>4. ~overtakenBy' => row = credential /\ Sound(row, Usable)
  BY <1>1 DEF TokensInv, TokensAreTrue, RotationIsTrue, Rotating
<1>5. CASE rotation[r].answered /\ rotation[r].own \in Issuable
  <2>1. FALSE \in BOOLEAN
    BY Zenon
  <2>2. /\ on \in RotationRecord /\ on.step = "prune" /\ on.old = rotation[r].old
        /\ on.own = rotation[r].own
    BY <1>0, <2>1, NothingRotates DEF RotationRecord
  <2>3. ~overtakenBy' => RotationIsTrue(on, row, held, Usable)
    BY <1>1, <1>4, <1>5, <2>2 DEF RotationIsTrue, TokensInv, TokensAreTrue, Rotating
  <2>4. RowBecomes(r, row, on)
    BY <1>1, <1>5
  <2> HIDE DEF on
  <2> QED BY <1>1, <1>2, <1>3, <1>4, <1>5, <2>2, <2>3, <2>4, RowBecomesStep
<1>6. CASE ~(rotation[r].answered /\ rotation[r].own \in Issuable)
  <2>1. RowBecomes(r, row, NoRotation)
    BY <1>1, <1>6
  <2>2. RotationIsTrue(NoRotation, row, held, Usable)
    BY NothingRotates DEF RotationIsTrue
  <2> QED BY <1>1, <1>2, <1>3, <1>4, <2>1, <2>2, NothingRotates, RowBecomesStep
<1> QED BY <1>5, <1>6

\* Jenkins gets the token of the row, unless the row has changed since it was read.
LEMMA PutTokenStep ==
    ASSUME TokensInv, NEW r \in Rotations, PutToken(r)
    PROVE  TokensInv'
<1>0. /\ rotation \in [Rotations -> RotationRecord] /\ overtakenBy \in BOOLEAN
      /\ held \in TokenOrNone
  BY DEF TokensInv, TokensTypeOK
<1>1. PICK done \in BOOLEAN, answered \in BOOLEAN :
         /\ answered => done
         /\ held' = IF done THEN rotation[r].copy ELSE held
         /\ overtakenBy' = (overtakenBy \/ (done /\ rotation[r].outdated))
         /\ rotation' = [rotation EXCEPT ![r].step = "mark", ![r].answered = answered]
  BY DEF PutToken
<1>2. Rotating(r, "put") /\ UNCHANGED <<liveTokens, tokenCount, credential, byHand>>
  BY DEF PutToken
<1>3. /\ rotation'[r] \in RotationRecord /\ rotation'[r].step = "mark"
      /\ rotation'[r].answered = answered /\ rotation'[r].old = rotation[r].old
      /\ rotation'[r].own = rotation[r].own /\ rotation'[r].copy = rotation[r].copy
      /\ rotation'[r].outdated = rotation[r].outdated
  BY <1>0, <1>1 DEF RotationRecord
<1>4. \A q \in Rotations : q # r => rotation'[q] = rotation[q]
  BY <1>0, <1>1
<1>5. TokensTypeOK'
  <2>1. rotation' \in [Rotations -> RotationRecord]
    BY <1>0, <1>1, <1>3, <1>4
  <2>2. overtakenBy' \in BOOLEAN
    BY <1>1, Zenon
  <2>3. held' \in TokenOrNone
    BY <1>0, <1>1 DEF RotationRecord
  <2> QED BY <1>2, <2>1, <2>2, <2>3 DEF TokensInv, TokensTypeOK
<1>6. TokensAreIssued' /\ OwnersDiffer' /\ PruneIsOwn'
  <2>1. TokensAreIssued'
    BY <1>1, <1>2, <1>3, <1>4, ZenonT(60) DEF TokensInv, TokensAreIssued, Issued, HasCopy, Rotating
  <2>2. OwnersDiffer'
    BY <1>3, <1>4 DEF TokensInv, OwnersDiffer
  <2>3. PruneIsOwn'
    BY <1>3, <1>4 DEF TokensInv, PruneIsOwn
  <2> QED BY <2>1, <2>2, <2>3
<1>7. ASSUME ~overtakenBy' PROVE TokensAreTrue'
  <2>1. TokensAreTrue
    BY <1>1, <1>7 DEF TokensInv
  <2>2. NewIsNotOld'
    BY <1>3, <1>4, <2>1 DEF TokensAreTrue, NewIsNotOld
  <2>3. Usable' = Usable
    BY <1>2 DEF Usable
  <2>4. done => held' = credential
    BY <1>1, <1>2, <1>7, <2>1 DEF TokensAreTrue, RotationIsTrue, Rotating
  <2>5. Sound(credential, Usable)' /\ Sound(held, Usable)'
    BY <1>1, <1>2, <2>1, <2>3, <2>4 DEF TokensAreTrue, Sound
  <2>6. RotationIsTrue(rotation'[r], credential, held', Usable)
    BY <1>1, <1>2, <1>3, <2>1, <2>4 DEF TokensAreTrue, RotationIsTrue, Rotating
  <2>7. ASSUME NEW q \in Rotations, q # r PROVE RotationIsTrue(rotation'[q], credential, held', Usable)
    BY <1>1, <1>4, <2>1, <2>4, <2>7 DEF TokensAreTrue, RotationIsTrue
  <2>8. \A q \in Rotations : RotationIsTrue(rotation[q], credential, held, Usable)'
    BY <1>2, <2>3, <2>6, <2>7
  <2> QED BY <2>2, <2>5, <2>8 DEF TokensAreTrue
<1> QED BY <1>5, <1>6, <1>7 DEF TokensInv

\* A row that is deleted names no old token; the copies of it are outdated.
LEMMA DeleteCredentialStep ==
    ASSUME TokensInv, DeleteCredential
    PROVE  TokensInv'
<1>0. rotation \in [Rotations -> RotationRecord]
  BY DEF TokensInv, TokensTypeOK
<1>1. /\ credential' = NoToken /\ UNCHANGED <<liveTokens, tokenCount, held, byHand, overtakenBy>>
      /\ rotation' = [r \in Rotations |-> [rotation[r] EXCEPT !.outdated = HasCopy(r)]]
  BY DEF DeleteCredential
<1>2. ASSUME NEW q \in Rotations
      PROVE  /\ rotation'[q] \in RotationRecord
             /\ rotation'[q].step = rotation[q].step /\ rotation'[q].old = rotation[q].old
             /\ rotation'[q].own = rotation[q].own /\ rotation'[q].copy = rotation[q].copy
             /\ rotation'[q].answered = rotation[q].answered
             /\ rotation'[q].outdated = HasCopy(q)
  <2>1. HasCopy(q) \in BOOLEAN
    BY DEF HasCopy, Rotating
  <2>2. rotation'[q] = [rotation[q] EXCEPT !.outdated = HasCopy(q)] /\ rotation[q] \in RotationRecord
    BY <1>0, <1>1
  <2> HIDE DEF HasCopy
  <2> QED BY <2>1, <2>2 DEF RotationRecord
<1>3. TokensTypeOK'
  BY <1>1, <1>2, NothingRotates DEF TokensInv, TokensTypeOK
<1>4. TokensAreIssued' /\ OwnersDiffer' /\ PruneIsOwn'
  <2>1. TokensAreIssued'
    BY <1>1, <1>2, NothingRotates DEF TokensInv, TokensAreIssued, Issued, HasCopy
  <2>2. OwnersDiffer'
    BY <1>2 DEF TokensInv, OwnersDiffer
  <2>3. PruneIsOwn'
    BY <1>2 DEF TokensInv, PruneIsOwn
  <2> QED BY <2>1, <2>2, <2>3
<1>5. ASSUME ~overtakenBy PROVE TokensAreTrue'
  <2>1. TokensAreTrue /\ Usable' = Usable
    BY <1>1, <1>5 DEF TokensInv, Usable
  <2>2. NewIsNotOld'
    BY <1>2, <2>1 DEF TokensAreTrue, NewIsNotOld
  <2>3. Sound(credential, Usable)' /\ Sound(held, Usable)'
    BY <1>1, <2>1, NothingRotates DEF TokensAreTrue, Sound
  <2>4. ASSUME NEW q \in Rotations PROVE RotationIsTrue(rotation'[q], NoToken, held, Usable)
    <3>1. NoToken \notin rotation[q].old
      BY <1>0, NothingRotates DEF RotationRecord
    <3> QED BY <1>2, <2>1, <3>1, NothingRotates DEF TokensAreTrue, RotationIsTrue, HasCopy
  <2>5. \A q \in Rotations : RotationIsTrue(rotation[q], credential, held, Usable)'
    BY <1>1, <2>1, <2>4
  <2> QED BY <2>2, <2>3, <2>5 DEF TokensAreTrue
<1> QED BY <1>1, <1>3, <1>4, <1>5 DEF TokensInv

\* A token that people revoke is one of byHand.
LEMMA RevokeByHandStep ==
    ASSUME TokensInv, NEW token \in 1 .. MaxDeployTokens, RevokeByHand(token)
    PROVE  TokensInv'
<1>1. /\ token \in liveTokens /\ liveTokens' = liveTokens \ {token}
      /\ byHand' = byHand \cup {token}
      /\ UNCHANGED <<tokenCount, credential, held, rotation, overtakenBy>>
  BY DEF RevokeByHand
<1>2. Usable' = Usable
  BY <1>1 DEF Usable
<1>3. TokensTypeOK'
  BY <1>1 DEF TokensInv, TokensTypeOK
<1>4. TokensAreIssued' /\ OwnersDiffer' /\ PruneIsOwn'
  BY <1>1 DEF TokensInv, TokensAreIssued, Issued, OwnersDiffer, PruneIsOwn
<1>5. TokensAreTrue => TokensAreTrue'
  BY <1>1, <1>2 DEF TokensAreTrue, NewIsNotOld, RotationIsTrue, Sound
<1> QED BY <1>1, <1>3, <1>4, <1>5 DEF TokensInv

\* TokensInv holds of every behaviour, for any number of rotations and tokens.
THEOREM TokensInvariant == TokensSpec => []TokensInv
<1>1. TokensInit => TokensInv
  <2> SUFFICES ASSUME TokensInit PROVE TokensInv
    OBVIOUS
  <2> USE DEF TokensInit
  <2>1. TokensTypeOK
    <3>1. overtakenBy \in BOOLEAN
      BY Zenon
    <3> QED BY <3>1, NothingRotates DEF TokensTypeOK
  <2>2. TokensAreIssued /\ OwnersDiffer /\ PruneIsOwn
    BY NothingRotates DEF TokensAreIssued, Issued, OwnersDiffer, PruneIsOwn
  <2>3. TokensAreTrue
    BY NothingRotates DEF TokensAreTrue, NewIsNotOld, RotationIsTrue, Sound
  <2> QED BY <2>1, <2>2, <2>3 DEF TokensInv
<1>2. TokensInv /\ [TokensNext]_tokenVars => TokensInv'
  <2> SUFFICES ASSUME TokensInv, [TokensNext]_tokenVars PROVE TokensInv'
    OBVIOUS
  <2>1. CASE TokensNext
    BY <2>1, ValidateStep, ListOldTokensStep, CreateTokenStep, CheckTokenStep, SaveTokenStep,
       ReadTokenStep, PutTokenStep, MarkRowStep, PruneTokensStep, BreakOffStep,
       DeleteCredentialStep, RevokeByHandStep, Zenon DEF TokensNext
  <2>2. CASE UNCHANGED tokenVars
    BY <2>2 DEF tokenVars, TokensInv, TokensTypeOK, TokensAreIssued, Issued, OwnersDiffer,
       PruneIsOwn, TokensAreTrue, NewIsNotOld, RotationIsTrue, Sound, Usable
  <2> QED BY <2>1, <2>2
<1> QED BY <1>1, <1>2, PTL DEF TokensSpec

\* Rotating revokes no token that Jenkins still clones with (SyncDeliveryCredential and
\* SyncSourceCredential of internal/gitlab/source_repository.go), wherever it fails, for any number
\* of rotations and tokens: unless people revoked it, a rotation listed the new token of another,
\* or put one in place that had been replaced.
THEOREM JenkinsCanCloneHolds == TokensSpec => []JenkinsCanClone
<1>1. TokensInv => JenkinsCanClone
  BY DEF TokensInv, TokensTypeOK, TokensAreTrue, JenkinsCanClone, Sound, Usable, Works, Issuable,
         TokenOrNone, NoToken, PlatformToken
<1> QED BY <1>1, TokensInvariant, PTL

-------------------------------------------------------------------------------
(* The delivery repository.                                                *)

USE DeliveryRepositoriesAssumption

Places == Groups \cup {Nowhere}
BindingRecord == [group : Places, id : Nat, ready : BOOLEAN]
RepositoryRecord ==
    [id : Nat, by : {"nobody", "platform", "people"}, marked : BOOLEAN, files : BOOLEAN]
OnTheWay == {"look", "create", "lookAgain", "save", "mark", "fill", "register", "ready"}
ProvisionRecord == [now : OnTheWay \cup {"none", "write"}, copy : BindingRecord, id : Nat]

DeliveryTypeOK ==
    /\ binding \in BindingRecord
    /\ repository \in [Groups -> RepositoryRecord]
    /\ repositoryIds \in 0 .. MaxRepositories /\ bindings \in 0 .. MaxBindings
    /\ registered \in Places
    /\ provisioning \in [Provisioners -> ProvisionRecord]
    /\ lostTrack \in BOOLEAN

\* GitLab gives each repository an id of its own.
RepositoriesAreGiven ==
    /\ \A g \in Groups :
         /\ repository[g].id <= repositoryIds
         /\ repository[g].id = 0 => repository[g] = NoRepository
    /\ \A g, h \in Groups : repository[g].id = repository[h].id => g = h \/ repository[g].id = 0

\* Where it still is, the repository is one that the platform has made, or filled.
Owned(id) == \A g \in Groups : repository[g].id = id => id = 0 \/ repository[g].by = "platform"
Filled(id) == \A g \in Groups : repository[g].id = id => id = 0 \/ repository[g].marked

\* Only an id of the platform gets into the row, and a row that says ready names a
\* repository that is filled.
BindingIsTrue ==
    /\ binding.id <= repositoryIds
    /\ Owned(binding.id)
    /\ binding.ready => Filled(binding.id)

\* The same holds of the copy of a request,
RequestOwns(p) ==
    /\ p.copy.id <= repositoryIds /\ p.id <= repositoryIds
    /\ p.now \in OnTheWay => p.copy.group \in Groups /\ ~p.copy.ready
    /\ Owned(p.copy.id)
    /\ p.now = "fill" => Owned(p.id)
    /\ p.copy.ready \/ p.now \in {"register", "ready"} => Filled(p.copy.id)

\* whose id is in the row as long as it has not been lost, unless the request is about
\* to save it.
RequestIsTracked(p, lost, row) ==
    p.now # "save" => lost \/ Filled(p.copy.id) \/ p.copy.id = row.id

RequestIsTrue(p) == RequestOwns(p) /\ RequestIsTracked(p, lostTrack, binding)

\* A repository that the platform has made and not filled is in the row, or about to be.
RepositoriesAreTracked ==
    \A g \in Groups :
        repository[g].by = "platform" /\ ~repository[g].marked =>
            \/ lostTrack \/ repository[g].id = binding.id
            \/ \E r \in Provisioners : Now(r, "save") /\ provisioning[r].copy.id = repository[g].id

DeliveryInv ==
    /\ DeliveryTypeOK /\ RepositoriesAreGiven /\ NothingIsTakenOver /\ BindingIsTrue
    /\ \A r \in Provisioners : RequestIsTrue(provisioning[r])
    /\ RepositoriesAreTracked

\* What holds of the requests and the row goes on to hold, as long as no repository loses
\* its maker or its mark, and no id its place in the row.
LEMMA DeliveryGoesOn ==
    ASSUME DeliveryInv, DeliveryTypeOK', RepositoriesAreGiven', NothingIsTakenOver',
           BindingIsTrue', RepositoriesAreTracked',
           repositoryIds <= repositoryIds',
           \A id \in 0 .. repositoryIds : (Owned(id) => Owned(id)') /\ (Filled(id) => Filled(id)'),
           lostTrack => lostTrack',
           binding.id \in {0, binding'.id} \/ lostTrack',
           \A q \in Provisioners :
              provisioning'[q] = provisioning[q] \/ RequestIsTrue(provisioning[q])'
    PROVE  DeliveryInv'
<1>1. ASSUME NEW q \in Provisioners PROVE RequestIsTrue(provisioning[q])'
  <2>1. CASE provisioning'[q] = provisioning[q]
    <3>1. RequestIsTrue(provisioning[q]) /\ provisioning[q] \in ProvisionRecord
      BY DEF DeliveryInv, DeliveryTypeOK
    <3>2. provisioning[q].copy.id \in 0 .. repositoryIds /\ provisioning[q].id \in 0 .. repositoryIds
      BY <3>1 DEF RequestIsTrue, RequestOwns, ProvisionRecord, BindingRecord, DeliveryInv, DeliveryTypeOK
    <3>3. repositoryIds \in Nat /\ repositoryIds' \in Nat
      BY DEF DeliveryInv, DeliveryTypeOK
    <3>4. Filled(0)'
      BY DEF Filled
    <3> QED BY <2>1, <3>1, <3>2, <3>3, <3>4 DEF RequestIsTrue, RequestOwns, RequestIsTracked, Owned, Filled
  <2> QED BY <2>1
<1> QED BY <1>1 DEF DeliveryInv

\* A request goes on, and may write the row; no repository changes.
LEMMA RequestWrites ==
    ASSUME DeliveryInv, NEW r \in Provisioners, NEW p \in ProvisionRecord,
           provisioning' = [provisioning EXCEPT ![r] = p],
           UNCHANGED <<repository, repositoryIds>>,
           bindings' \in 0 .. MaxBindings, registered' \in Places,
           binding' \in BindingRecord, lostTrack' \in BOOLEAN,
           lostTrack => lostTrack', binding.id \in {0, binding'.id} \/ lostTrack',
           binding'.id <= repositoryIds, Owned(binding'.id), binding'.ready => Filled(binding'.id),
           RequestOwns(p), RequestIsTracked(p, lostTrack', binding'),
           Now(r, "save") => \/ lostTrack' \/ binding'.id = provisioning[r].copy.id
                             \/ p.now = "save" /\ p.copy.id = provisioning[r].copy.id
    PROVE  DeliveryInv'
<1>0. provisioning \in [Provisioners -> ProvisionRecord]
  BY DEF DeliveryInv, DeliveryTypeOK
<1>1. DeliveryTypeOK'
  BY DEF DeliveryInv, DeliveryTypeOK
<1>2. provisioning'[r] = p /\ \A q \in Provisioners : q # r => provisioning'[q] = provisioning[q]
  BY <1>0
<1>3. RepositoriesAreGiven' /\ NothingIsTakenOver'
  BY DEF DeliveryInv, RepositoriesAreGiven, NothingIsTakenOver
<1>4. \A id : (Owned(id)' <=> Owned(id)) /\ (Filled(id)' <=> Filled(id))
  BY DEF Owned, Filled
<1>5. BindingIsTrue'
  BY DEF BindingIsTrue, Owned, Filled
<1>6. RequestIsTrue(provisioning[r])'
  BY <1>2 DEF RequestIsTrue, RequestOwns, RequestIsTracked, Owned, Filled
<1>7. RepositoriesAreTracked'
  <2>1. ASSUME NEW g \in Groups, repository'[g].by = "platform", ~repository'[g].marked, ~lostTrack',
               repository'[g].id # binding'.id
        PROVE  \E q \in Provisioners : (Now(q, "save") /\ provisioning[q].copy.id = repository[g].id)'
    <3>1. repository[g].id # 0
      BY <2>1 DEF DeliveryInv, RepositoriesAreGiven, NoRepository
    <3>2. PICK q \in Provisioners : Now(q, "save") /\ provisioning[q].copy.id = repository[g].id
      BY <2>1, <3>1 DEF DeliveryInv, RepositoriesAreTracked
    <3>3. (Now(q, "save") /\ provisioning[q].copy.id = repository[g].id)'
      BY <1>2, <2>1, <3>2 DEF Now
    <3> QED BY <3>3
  <2> QED BY <2>1 DEF RepositoriesAreTracked
<1>8. repositoryIds <= repositoryIds'
  BY DEF DeliveryInv, DeliveryTypeOK
<1> QED BY <1>1, <1>2, <1>3, <1>4, <1>5, <1>6, <1>7, <1>8, DeliveryGoesOn

\* The provision that has not begun and the binding that is not there.
LEMMA NothingProvisioned ==
    /\ NoProvision \in ProvisionRecord /\ NoProvision.now = "none"
    /\ NoProvision.copy = Unbound /\ NoProvision.id = 0
    /\ Unbound \in BindingRecord /\ Unbound.id = 0 /\ Unbound.ready = FALSE
<1>1. FALSE \in BOOLEAN
  BY Zenon
<1>2. Unbound \in BindingRecord /\ Unbound.id = 0 /\ Unbound.ready = FALSE
  BY <1>1 DEF Unbound, BindingRecord, Places
<1> HIDE DEF Unbound
<1> QED BY <1>2 DEF NoProvision, ProvisionRecord

\* No id is no repository.
LEMMA NoIdIsTrue ==
    DeliveryInv => Owned(0) /\ Filled(0) /\ RequestOwns(NoProvision)
                    /\ \A lost, row : RequestIsTracked(NoProvision, lost, row)
BY NothingProvisioned DEF DeliveryInv, DeliveryTypeOK, Owned, Filled, RequestOwns, RequestIsTracked, OnTheWay

\* A request ends, and leaves the row as it is, or with its own copy.
LEMMA RequestEnds ==
    ASSUME DeliveryInv, NEW r \in Provisioners, Leaves(r),
           UNCHANGED <<repository, repositoryIds, bindings>>, registered' \in Places,
           \/ Binds(provisioning[r].copy)
           \/ UNCHANGED <<binding, lostTrack>> /\ ~Now(r, "save")
    PROVE  DeliveryInv'
<1>0. /\ provisioning[r] \in ProvisionRecord /\ binding \in BindingRecord /\ lostTrack \in BOOLEAN
      /\ bindings \in 0 .. MaxBindings /\ RequestIsTrue(provisioning[r])
  BY DEF DeliveryInv, DeliveryTypeOK
<1>1. provisioning' = [provisioning EXCEPT ![r] = NoProvision]
  BY DEF Leaves
<1>2. CASE Binds(provisioning[r].copy)
  <2>1. binding' = provisioning[r].copy /\ lostTrack' = (lostTrack \/ binding.id \notin {0, binding'.id})
    BY <1>2 DEF Binds
  <2>2. lostTrack' \in BOOLEAN
    BY <2>1, Zenon
  <2>3. binding' \in BindingRecord
    BY <1>0, <2>1 DEF ProvisionRecord
  <2> QED BY <1>0, <1>1, <2>1, <2>2, <2>3, RequestWrites, NoIdIsTrue, NothingProvisioned
          DEF RequestIsTrue, RequestOwns
<1>3. CASE UNCHANGED <<binding, lostTrack>> /\ ~Now(r, "save")
  BY <1>0, <1>1, <1>3, RequestWrites, NoIdIsTrue, NothingProvisioned
     DEF DeliveryInv, BindingIsTrue
<1> QED BY <1>2, <1>3

\* A request takes its next step and writes nothing.
LEMMA RequestProceeds ==
    ASSUME DeliveryInv, NEW r \in Provisioners, NEW p \in ProvisionRecord,
           provisioning' = [provisioning EXCEPT ![r] = p],
           UNCHANGED <<repository, repositoryIds, bindings, binding, lostTrack>>, registered' \in Places,
           ~Now(r, "save"), p.copy = provisioning[r].copy, p.id <= repositoryIds,
           p.now # "save", p.now \in OnTheWay => provisioning[r].now \in OnTheWay,
           p.now = "fill" => Owned(p.id),
           p.now \in {"register", "ready"} => provisioning[r].now \in {"register", "ready"}
    PROVE  DeliveryInv'
<1>1. RequestIsTrue(provisioning[r])
  BY DEF DeliveryInv
<1>2. RequestOwns(p) /\ RequestIsTracked(p, lostTrack', binding')
  BY <1>1 DEF RequestIsTrue, RequestOwns, RequestIsTracked, Now
<1>3. /\ binding' = binding /\ lostTrack' = lostTrack /\ binding \in BindingRecord
      /\ lostTrack \in BOOLEAN /\ bindings' \in 0 .. MaxBindings
      /\ binding.id <= repositoryIds /\ Owned(binding.id) /\ (binding.ready => Filled(binding.id))
  BY DEF DeliveryInv, DeliveryTypeOK, BindingIsTrue
<1>4. binding' \in BindingRecord
  BY <1>3
<1>10. lostTrack' \in BOOLEAN
  BY <1>3, Zenon
<1>11. lostTrack => lostTrack'
  BY <1>3
<1>9. binding'.id <= repositoryIds /\ Owned(binding'.id) /\ (binding'.ready => Filled(binding'.id))
  BY <1>3
<1>5. binding.id \in {0, binding'.id} \/ lostTrack'
  BY <1>3, Zenon
<1>6. Now(r, "save") => \/ lostTrack' \/ binding'.id = provisioning[r].copy.id
                        \/ p.now = "save" /\ p.copy.id = provisioning[r].copy.id
  BY Zenon
<1>7. bindings' \in 0 .. MaxBindings
  BY <1>3
<1>8. UNCHANGED <<repository, repositoryIds>>
  OBVIOUS
<1> QED BY <1>2, <1>4, <1>9, <1>10, <1>11, <1>5, <1>6, <1>7, <1>8, RequestWrites, Zenon

\* A save works on a copy of the binding with another group.
LEMMA VerifyRebindStep ==
    ASSUME DeliveryInv, NEW r \in Provisioners, NEW g \in Groups, VerifyRebind(r, g)
    PROVE  DeliveryInv'
<1> DEFINE p == [provisioning[r] EXCEPT !.now = "write", !.copy = [binding EXCEPT !.group = g]]
<1>0. /\ provisioning[r] \in ProvisionRecord /\ binding \in BindingRecord /\ lostTrack \in BOOLEAN
      /\ registered \in Places /\ bindings \in 0 .. MaxBindings
  BY DEF DeliveryInv, DeliveryTypeOK
<1>1. /\ Now(r, "none") /\ provisioning' = [provisioning EXCEPT ![r] = p]
      /\ bindings' = bindings + 1 /\ bindings < MaxBindings
      /\ UNCHANGED <<binding, repository, repositoryIds, registered, lostTrack>>
  BY DEF VerifyRebind
<1>2. bindings' \in 0 .. MaxBindings
  BY <1>0, <1>1
<1>3. [binding EXCEPT !.group = g] \in BindingRecord
  BY <1>0 DEF BindingRecord, Places
<1>4. /\ p \in ProvisionRecord /\ p.now = "write" /\ p.id = provisioning[r].id
      /\ p.copy.id = binding.id /\ p.copy.ready = binding.ready
  BY <1>0, <1>3 DEF ProvisionRecord, BindingRecord, OnTheWay
<1> HIDE DEF p
<1>5. BindingIsTrue /\ RequestIsTrue(provisioning[r])
  BY DEF DeliveryInv
<1>6. RequestOwns(p) /\ RequestIsTracked(p, lostTrack, binding)
  BY <1>4, <1>5 DEF BindingIsTrue, RequestIsTrue, RequestOwns, RequestIsTracked, OnTheWay
<1> QED BY <1>0, <1>1, <1>2, <1>4, <1>5, <1>6, RequestWrites DEF BindingIsTrue, Now

\* The copy of a save gets into the row with the id it has been read with.
LEMMA WriteBindingStep ==
    ASSUME DeliveryInv, NEW r \in Provisioners, WriteBinding(r)
    PROVE  DeliveryInv'
BY RequestEnds DEF WriteBinding, DeliveryInv, DeliveryTypeOK

\* The row that a provision marks as running, and its copy, are not ready.
LEMMA StartProvisionStep ==
    ASSUME DeliveryInv, NEW r \in Provisioners, StartProvision(r)
    PROVE  DeliveryInv'
<1> DEFINE row == [binding EXCEPT !.ready = FALSE]
           p == [provisioning[r] EXCEPT !.now = "look", !.copy = row]
<1>0. /\ provisioning[r] \in ProvisionRecord /\ binding \in BindingRecord /\ lostTrack \in BOOLEAN
      /\ registered \in Places /\ bindings \in 0 .. MaxBindings
  BY DEF DeliveryInv, DeliveryTypeOK
<1>1. /\ Now(r, "none") /\ provisioning' = [provisioning EXCEPT ![r] = p]
      /\ binding.group # Nowhere
      /\ Binds(row) \/ UNCHANGED <<binding, lostTrack>>
      /\ UNCHANGED <<repository, repositoryIds, registered, bindings>>
  BY DEF StartProvision
<1>2. FALSE \in BOOLEAN
  BY Zenon
<1>3. row \in BindingRecord /\ row.id = binding.id /\ row.ready = FALSE /\ row.group \in Groups
  BY <1>0, <1>1, <1>2 DEF BindingRecord, Places
<1>4. /\ p \in ProvisionRecord /\ p.now = "look" /\ p.id = provisioning[r].id
      /\ p.copy.id = binding.id /\ p.copy.ready = FALSE /\ p.copy.group \in Groups
  BY <1>0, <1>3 DEF ProvisionRecord, BindingRecord, OnTheWay
<1>5. /\ binding' \in BindingRecord /\ binding'.id = binding.id
      /\ binding'.ready => binding.ready
      /\ lostTrack' = lostTrack
  BY <1>0, <1>1, <1>3, Zenon DEF Binds
<1> HIDE DEF p, row
<1>6. BindingIsTrue /\ RequestIsTrue(provisioning[r])
  BY DEF DeliveryInv
<1>7. RequestOwns(p) /\ RequestIsTracked(p, lostTrack', binding')
  BY <1>4, <1>5, <1>6 DEF BindingIsTrue, RequestIsTrue, RequestOwns, RequestIsTracked, OnTheWay
<1> QED BY <1>0, <1>1, <1>4, <1>5, <1>6, <1>7, RequestWrites DEF BindingIsTrue, Now

\* A call fails, and the failure is written.
LEMMA BreaksStep ==
    ASSUME DeliveryInv, NEW r \in Provisioners, Breaks(r),
           UNCHANGED <<repository, repositoryIds, bindings, registered>>
    PROVE  DeliveryInv'
BY RequestEnds DEF Breaks, DeliveryInv, DeliveryTypeOK

\* Finding a repository under the name decides nothing yet about taking it.
LEMMA FindRepositoryStep ==
    ASSUME DeliveryInv, NEW r \in Provisioners, FindRepository(r)
    PROVE  DeliveryInv'
<1> DEFINE found == repository[provisioning[r].copy.group].id
<1>0. /\ provisioning[r] \in ProvisionRecord /\ registered \in Places
      /\ repository \in [Groups -> RepositoryRecord] /\ RequestIsTrue(provisioning[r])
  BY DEF DeliveryInv, DeliveryTypeOK
<1>1. /\ Now(r, "look") \/ Now(r, "lookAgain")
      /\ UNCHANGED <<repository, repositoryIds, registered, bindings>>
  BY DEF FindRepository
<1>2. provisioning[r].copy.group \in Groups
  BY <1>0, <1>1 DEF RequestIsTrue, RequestOwns, Now, OnTheWay
<1>3. found \in Nat /\ found <= repositoryIds
  BY <1>0, <1>2 DEF RepositoryRecord, DeliveryInv, RepositoriesAreGiven
<1>4. CASE /\ provisioning' = [provisioning EXCEPT ![r].now = "mark", ![r].id = found]
           /\ UNCHANGED <<binding, lostTrack>>
  <2> DEFINE p == [provisioning[r] EXCEPT !.now = "mark", !.id = found]
  <2> HIDE DEF found
  <2>1. p \in ProvisionRecord /\ p.now = "mark" /\ p.id = found /\ p.copy = provisioning[r].copy
    BY <1>0, <1>3 DEF ProvisionRecord, OnTheWay
  <2>2. provisioning' = [provisioning EXCEPT ![r] = p]
    BY <1>4
  <2> HIDE DEF p
  <2> QED BY <1>0, <1>1, <1>3, <1>4, <2>1, <2>2, RequestProceeds DEF Now, OnTheWay
<1>5. CASE Then(r, "create") /\ UNCHANGED <<binding, lostTrack>>
  <2> DEFINE p == [provisioning[r] EXCEPT !.now = "create"]
  <2>1. p \in ProvisionRecord /\ p.now = "create" /\ p.id = provisioning[r].id /\ p.copy = provisioning[r].copy
    BY <1>0 DEF ProvisionRecord, OnTheWay
  <2>2. provisioning' = [provisioning EXCEPT ![r] = p]
    BY <1>5 DEF Then
  <2> HIDE DEF p
  <2> QED BY <1>0, <1>1, <1>5, <2>1, <2>2, RequestProceeds DEF Now, OnTheWay, RequestIsTrue, RequestOwns
<1>6. CASE Breaks(r)
  BY <1>1, <1>6, BreaksStep
<1> QED BY <1>4, <1>5, <1>6 DEF FindRepository

\* The id of a new repository is in the row before the first commit.
LEMMA SaveOwnershipStep ==
    ASSUME DeliveryInv, NEW r \in Provisioners, SaveOwnership(r)
    PROVE  DeliveryInv'
<1>0. /\ provisioning[r] \in ProvisionRecord /\ binding \in BindingRecord /\ lostTrack \in BOOLEAN
      /\ registered \in Places /\ bindings \in 0 .. MaxBindings /\ RequestIsTrue(provisioning[r])
  BY DEF DeliveryInv, DeliveryTypeOK
<1>1. /\ Now(r, "save") /\ Binds(provisioning[r].copy)
      /\ UNCHANGED <<repository, repositoryIds, registered, bindings>>
  BY DEF SaveOwnership
<1>2. CASE Leaves(r)
  BY <1>0, <1>1, <1>2, RequestEnds
<1>3. CASE Then(r, "mark")
  <2> DEFINE p == [provisioning[r] EXCEPT !.now = "mark"]
  <2>1. p \in ProvisionRecord /\ p.now = "mark" /\ p.id = provisioning[r].id /\ p.copy = provisioning[r].copy
    BY <1>0 DEF ProvisionRecord, OnTheWay
  <2>2. provisioning' = [provisioning EXCEPT ![r] = p]
    BY <1>3 DEF Then
  <2> HIDE DEF p
  <2>3. binding' = provisioning[r].copy /\ lostTrack' = (lostTrack \/ binding.id \notin {0, binding'.id})
    BY <1>1 DEF Binds
  <2>4. lostTrack' \in BOOLEAN
    BY <2>3, Zenon
  <2>5. binding' \in BindingRecord
    BY <1>0, <2>3 DEF ProvisionRecord
  <2>6. RequestOwns(p) /\ RequestIsTracked(p, lostTrack', binding')
    BY <1>0, <1>1, <2>1, <2>3 DEF RequestIsTrue, RequestOwns, RequestIsTracked, OnTheWay, Now
  <2> QED BY <1>0, <1>1, <2>1, <2>2, <2>3, <2>4, <2>5, <2>6, RequestWrites
          DEF RequestIsTrue, RequestOwns
<1> QED BY <1>2, <1>3 DEF SaveOwnership

\* The repository of an id is where it is found.
LEMMA WhereIsIt ==
    ASSUME NEW id, Made(id)
    PROVE  Where(id) \in Groups /\ repository[Where(id)].id = id /\ id # 0
BY DEF Made, Where

\* What may be filled is marked, or empty and named by the copy: the platform has made it.
LEMMA CheckRepositoryStep ==
    ASSUME DeliveryInv, NEW r \in Provisioners, CheckRepository(r)
    PROVE  DeliveryInv'
<1> DEFINE id == provisioning[r].id
<1>0. /\ provisioning[r] \in ProvisionRecord /\ registered \in Places /\ RequestIsTrue(provisioning[r])
  BY DEF DeliveryInv, DeliveryTypeOK
<1>1. Now(r, "mark") /\ UNCHANGED <<repository, repositoryIds, registered, bindings>>
  BY DEF CheckRepository
<1>2. CASE /\ Made(id) /\ MayFill(provisioning[r].copy, repository[Where(id)])
           /\ Then(r, "fill") /\ UNCHANGED <<binding, lostTrack>>
  <2>1. repository[Where(id)].by = "platform" /\ Where(id) \in Groups /\ repository[Where(id)].id = id
    BY <1>0, <1>2, WhereIsIt DEF MayFill, DeliveryInv, NothingIsTakenOver, RequestIsTrue, RequestOwns, Owned
  <2>2. Owned(id)
    BY <2>1 DEF Owned, DeliveryInv, RepositoriesAreGiven
  <2> DEFINE p == [provisioning[r] EXCEPT !.now = "fill"]
  <2>3. p \in ProvisionRecord /\ p.now = "fill" /\ p.id = provisioning[r].id /\ p.copy = provisioning[r].copy
    BY <1>0 DEF ProvisionRecord, OnTheWay
  <2>4. provisioning' = [provisioning EXCEPT ![r] = p]
    BY <1>2 DEF Then
  <2> HIDE DEF p
  <2> QED BY <1>0, <1>1, <1>2, <2>2, <2>3, <2>4, RequestProceeds DEF Now, OnTheWay, RequestIsTrue, RequestOwns
<1>3. CASE Breaks(r)
  BY <1>1, <1>3, BreaksStep
<1> QED BY <1>2, <1>3 DEF CheckRepository

\* Registering comes after the repository has been filled.
LEMMA RegisterRepositoryStep ==
    ASSUME DeliveryInv, NEW r \in Provisioners, RegisterRepository(r)
    PROVE  DeliveryInv'
<1> DEFINE url == provisioning[r].copy.group
<1>0. /\ provisioning[r] \in ProvisionRecord /\ registered \in Places /\ RequestIsTrue(provisioning[r])
  BY DEF DeliveryInv, DeliveryTypeOK
<1>1. Now(r, "register") /\ UNCHANGED <<repository, repositoryIds, bindings>>
  BY DEF RegisterRepository
<1>2. CASE registered' = url /\ Then(r, "ready") /\ UNCHANGED <<binding, lostTrack>>
  <2> DEFINE p == [provisioning[r] EXCEPT !.now = "ready"]
  <2>1. p \in ProvisionRecord /\ p.now = "ready" /\ p.id = provisioning[r].id /\ p.copy = provisioning[r].copy
    BY <1>0 DEF ProvisionRecord, OnTheWay
  <2>2. provisioning' = [provisioning EXCEPT ![r] = p]
    BY <1>2 DEF Then
  <2>3. registered' \in Places
    BY <1>0, <1>2 DEF ProvisionRecord, BindingRecord
  <2> HIDE DEF p
  <2> QED BY <1>0, <1>1, <1>2, <2>1, <2>2, <2>3, RequestProceeds DEF Now, OnTheWay, RequestIsTrue, RequestOwns
<1>3. CASE Breaks(r) /\ UNCHANGED registered
  BY <1>1, <1>3, BreaksStep
<1> QED BY <1>2, <1>3 DEF RegisterRepository

\* A row becomes ready after its repository has been filled and registered.
LEMMA EndProvisionStep ==
    ASSUME DeliveryInv, NEW r \in Provisioners, EndProvision(r)
    PROVE  DeliveryInv'
<1> DEFINE row == [provisioning[r].copy EXCEPT !.ready = TRUE]
<1>0. /\ provisioning[r] \in ProvisionRecord /\ binding \in BindingRecord /\ lostTrack \in BOOLEAN
      /\ registered \in Places /\ bindings \in 0 .. MaxBindings /\ RequestIsTrue(provisioning[r])
  BY DEF DeliveryInv, DeliveryTypeOK
<1>1. Now(r, "ready") /\ UNCHANGED <<repository, repositoryIds, registered, bindings>>
  BY DEF EndProvision
<1>2. CASE Binds(row) /\ Leaves(r)
  <2>1. TRUE \in BOOLEAN
    BY Zenon
  <2>2. row \in BindingRecord /\ row.id = provisioning[r].copy.id
    BY <1>0, <2>1 DEF ProvisionRecord, BindingRecord
  <2> HIDE DEF row
  <2>3. binding' = row /\ lostTrack' = (lostTrack \/ binding.id \notin {0, binding'.id})
    BY <1>2 DEF Binds
  <2>4. lostTrack' \in BOOLEAN
    BY <2>3, Zenon
  <2>5. provisioning' = [provisioning EXCEPT ![r] = NoProvision]
    BY <1>2 DEF Leaves
  <2>6. binding'.id <= repositoryIds /\ Owned(binding'.id) /\ Filled(binding'.id)
    BY <1>0, <1>1, <2>2, <2>3 DEF RequestIsTrue, RequestOwns, Now
  <2> QED BY <1>0, <1>1, <2>2, <2>3, <2>4, <2>5, <2>6, RequestWrites, NoIdIsTrue, NothingProvisioned DEF Now
<1>3. CASE Breaks(r)
  BY <1>1, <1>3, BreaksStep
<1> QED BY <1>2, <1>3 DEF EndProvision

\* A provision that dies before its id is saved has lost it.
LEMMA DieInStep ==
    ASSUME DeliveryInv, NEW r \in Provisioners, DieIn(r)
    PROVE  DeliveryInv'
<1>0. /\ binding \in BindingRecord /\ lostTrack \in BOOLEAN /\ BindingIsTrue
      /\ registered \in Places /\ bindings \in 0 .. MaxBindings
  BY DEF DeliveryInv, DeliveryTypeOK
<1>1. /\ provisioning' = [provisioning EXCEPT ![r] = NoProvision]
      /\ lostTrack' = (lostTrack \/ Now(r, "save"))
      /\ UNCHANGED <<binding, repository, repositoryIds, registered, bindings>>
  BY DEF DieIn, Leaves
<1>2. lostTrack' \in BOOLEAN
  BY <1>1, Zenon
<1> QED BY <1>0, <1>1, <1>2, RequestWrites, NoIdIsTrue, NothingProvisioned DEF BindingIsTrue

\* Nothing but the row changes.
LEMMA DetachDeliveryStep ==
    ASSUME DeliveryInv, DetachDelivery
    PROVE  DeliveryInv'
<1>1. /\ binding' = Unbound /\ lostTrack' = (lostTrack \/ binding.id \notin {0, binding'.id})
      /\ UNCHANGED <<repository, repositoryIds, registered, provisioning, bindings>>
  BY NothingProvisioned DEF DetachDelivery, Binds
<1>2. lostTrack' \in BOOLEAN
  BY <1>1, Zenon
<1>3. DeliveryTypeOK'
  BY <1>1, <1>2, NothingProvisioned DEF DeliveryInv, DeliveryTypeOK
<1>4. RepositoriesAreGiven' /\ NothingIsTakenOver'
  BY <1>1 DEF DeliveryInv, RepositoriesAreGiven, NothingIsTakenOver
<1>5. BindingIsTrue'
  BY <1>1, NothingProvisioned DEF BindingIsTrue, Owned, DeliveryInv, DeliveryTypeOK
<1>6. RepositoriesAreTracked'
  <2>1. \A g \in Groups : repository[g].by = "platform" => repository[g].id # 0
    BY DEF DeliveryInv, RepositoriesAreGiven, NoRepository
  <2> QED BY <1>1, <2>1 DEF DeliveryInv, RepositoriesAreTracked, Now
<1>7. \A id : (Owned(id)' <=> Owned(id)) /\ (Filled(id)' <=> Filled(id))
  BY <1>1 DEF Owned, Filled
<1>8. repositoryIds <= repositoryIds'
  BY <1>1 DEF DeliveryInv, DeliveryTypeOK
<1> QED BY <1>1, <1>3, <1>4, <1>5, <1>6, <1>7, <1>8, DeliveryGoesOn

\* A repository is made, which has an id of its own.
LEMMA RepositoryIsMade ==
    ASSUME DeliveryInv, NEW g \in Groups, NEW who \in {"platform", "people"}, MakeRepository(g, who)
    PROVE  LET id == repositoryIds + 1 IN
           /\ repository' \in [Groups -> RepositoryRecord]
           /\ repositoryIds' = id /\ id \in 1 .. MaxRepositories
           /\ repository'[g].id = id /\ repository'[g].by = who
           /\ \A h \in Groups : h # g => repository'[h] = repository[h]
           /\ RepositoriesAreGiven' /\ NothingIsTakenOver'
           /\ \A i \in 0 .. repositoryIds : (Owned(i) => Owned(i)') /\ (Filled(i) => Filled(i)')
<1> DEFINE id == repositoryIds + 1
           made == [NoRepository EXCEPT !.id = id, !.by = who]
<1>0. /\ repository \in [Groups -> RepositoryRecord] /\ repositoryIds \in 0 .. MaxRepositories
      /\ RepositoriesAreGiven /\ NothingIsTakenOver
  BY DEF DeliveryInv, DeliveryTypeOK
<1>1. repositoryIds' = id /\ repository' = [repository EXCEPT ![g] = made] /\ id \in 1 .. MaxRepositories
  BY <1>0 DEF MakeRepository
<1>2. FALSE \in BOOLEAN
  BY Zenon
<1>3. made \in RepositoryRecord /\ made.id = id /\ made.by = who /\ made.marked = FALSE
  <2>1. NoRepository \in RepositoryRecord /\ NoRepository.marked = FALSE
    BY <1>2 DEF RepositoryRecord, NoRepository
  <2>2. id \in Nat /\ who \in {"nobody", "platform", "people"}
    BY <1>0
  <2> QED BY <2>1, <2>2 DEF RepositoryRecord
<1> HIDE DEF made
<1>4. /\ repository' \in [Groups -> RepositoryRecord] /\ repository'[g] = made
      /\ \A h \in Groups : h # g => repository'[h] = repository[h]
  BY <1>0, <1>1, <1>3
<1>5. \A h \in Groups : repository[h].id \in Nat /\ repository[h].id <= repositoryIds
  BY <1>0 DEF RepositoriesAreGiven, RepositoryRecord
<1>6. RepositoriesAreGiven'
  <2>1. ASSUME NEW h \in Groups
        PROVE  repository'[h].id <= repositoryIds' /\ (repository'[h].id = 0 => repository'[h] = NoRepository)
    BY <1>0, <1>1, <1>3, <1>4, <1>5 DEF RepositoriesAreGiven
  <2>2. ASSUME NEW h \in Groups, NEW k \in Groups, repository'[h].id = repository'[k].id
        PROVE  h = k \/ repository'[h].id = 0
    BY <1>0, <1>1, <1>3, <1>4, <1>5, <2>2 DEF RepositoriesAreGiven
  <2> QED BY <2>1, <2>2 DEF RepositoriesAreGiven
<1>7. NothingIsTakenOver'
  BY <1>0, <1>3, <1>4 DEF NothingIsTakenOver
<1>8. \A i \in 0 .. repositoryIds : (Owned(i) => Owned(i)') /\ (Filled(i) => Filled(i)')
  BY <1>0, <1>1, <1>3, <1>4, <1>5 DEF Owned, Filled
<1> QED BY <1>1, <1>3, <1>4, <1>6, <1>7, <1>8

\* What people make under the name carries no mark.
LEMMA PeopleMakeStep ==
    ASSUME DeliveryInv, NEW g \in Groups, PeopleMake(g)
    PROVE  DeliveryInv'
<1>1. /\ MakeRepository(g, "people")
      /\ UNCHANGED <<binding, registered, provisioning, bindings, lostTrack>>
  BY DEF PeopleMake
<1>2. /\ repository' \in [Groups -> RepositoryRecord]
      /\ repositoryIds' = repositoryIds + 1 /\ repositoryIds + 1 \in 1 .. MaxRepositories
      /\ repository'[g].by = "people"
      /\ \A h \in Groups : h # g => repository'[h] = repository[h]
      /\ RepositoriesAreGiven' /\ NothingIsTakenOver'
      /\ \A i \in 0 .. repositoryIds : (Owned(i) => Owned(i)') /\ (Filled(i) => Filled(i)')
  BY <1>1, RepositoryIsMade
<1>3. DeliveryTypeOK'
  BY <1>1, <1>2 DEF DeliveryInv, DeliveryTypeOK
<1>4. BindingIsTrue'
  <2>1. binding.id \in 0 .. repositoryIds /\ repositoryIds \in Nat
    BY DEF DeliveryInv, BindingIsTrue, DeliveryTypeOK, BindingRecord
  <2>2. (Owned(binding.id) => Owned(binding.id)') /\ (Filled(binding.id) => Filled(binding.id)')
    BY <1>1, <1>2, <2>1 DEF Owned, Filled
  <2> QED BY <1>1, <1>2, <2>1, <2>2 DEF DeliveryInv, BindingIsTrue
<1>5. RepositoriesAreTracked'
  BY <1>1, <1>2 DEF DeliveryInv, RepositoriesAreTracked, Now
<1>6. repositoryIds <= repositoryIds'
  BY <1>2 DEF DeliveryInv, DeliveryTypeOK
<1> QED BY <1>1, <1>2, <1>3, <1>4, <1>5, <1>6, DeliveryGoesOn DEF DeliveryInv, DeliveryTypeOK

\* Repositories change without a new one.
LEMMA RepositoriesChange ==
    ASSUME DeliveryInv, repository' \in [Groups -> RepositoryRecord],
           UNCHANGED <<binding, repositoryIds, registered, provisioning, bindings, lostTrack>>,
           RepositoriesAreGiven', NothingIsTakenOver',
           \A g \in Groups : repository'[g].id # 0 =>
              \E h \in Groups : /\ repository[h].id = repository'[g].id
                                /\ repository[h].by = repository'[g].by
                                /\ repository[h].marked => repository'[g].marked
    PROVE  DeliveryInv'
<1>1. \A id : (Owned(id) => Owned(id)') /\ (Filled(id) => Filled(id)')
  BY DEF Owned, Filled
<1>2. DeliveryTypeOK'
  BY DEF DeliveryInv, DeliveryTypeOK
<1>3. BindingIsTrue'
  BY DEF DeliveryInv, BindingIsTrue, Owned, Filled
<1>4. RepositoriesAreTracked'
  <2>1. ASSUME NEW g \in Groups, repository'[g].by = "platform", ~repository'[g].marked, ~lostTrack',
               repository'[g].id # binding'.id
        PROVE  \E q \in Provisioners : (Now(q, "save") /\ provisioning[q].copy.id = repository[g].id)'
    <3>1. repository'[g].id # 0
      BY <2>1 DEF RepositoriesAreGiven, NoRepository
    <3>2. PICK h \in Groups : /\ repository[h].id = repository'[g].id
                              /\ repository[h].by = "platform" /\ ~repository[h].marked
      BY <2>1, <3>1
    <3> QED BY <2>1, <3>2 DEF DeliveryInv, RepositoriesAreTracked, Now
  <2> QED BY <2>1 DEF RepositoriesAreTracked
<1>5. repositoryIds <= repositoryIds'
  BY DEF DeliveryInv, DeliveryTypeOK
<1> QED BY <1>1, <1>2, <1>3, <1>4, <1>5, DeliveryGoesOn DEF DeliveryInv, DeliveryTypeOK

\* What people push makes a repository neither marked nor theirs.
LEMMA PeoplePushStep ==
    ASSUME DeliveryInv, NEW g \in Groups, PeoplePush(g)
    PROVE  DeliveryInv'
<1>0. /\ repository \in [Groups -> RepositoryRecord] /\ RepositoriesAreGiven /\ NothingIsTakenOver
  BY DEF DeliveryInv, DeliveryTypeOK
<1>1. /\ repository[g].id # 0 /\ repository' = [repository EXCEPT ![g].files = TRUE]
      /\ UNCHANGED <<binding, repositoryIds, registered, provisioning, bindings, lostTrack>>
  BY DEF PeoplePush
<1>2. TRUE \in BOOLEAN
  BY Zenon
<1>3. /\ repository'[g] \in RepositoryRecord /\ repository'[g].id = repository[g].id
      /\ repository'[g].by = repository[g].by /\ repository'[g].marked = repository[g].marked
  BY <1>0, <1>1, <1>2 DEF RepositoryRecord
<1>4. \A h \in Groups : h # g => repository'[h] = repository[h]
  BY <1>0, <1>1
<1>5. repository' \in [Groups -> RepositoryRecord]
  BY <1>0, <1>1, <1>3, <1>4
<1>6. RepositoriesAreGiven' /\ NothingIsTakenOver'
  BY <1>0, <1>1, <1>3, <1>4 DEF RepositoriesAreGiven, NothingIsTakenOver
<1> QED BY <1>1, <1>3, <1>4, <1>5, <1>6, RepositoriesChange

\* A repository that people move keeps its id, its maker and its mark.
LEMMA PeopleMoveStep ==
    ASSUME DeliveryInv, NEW g \in Groups, NEW h \in Groups, PeopleMove(g, h)
    PROVE  DeliveryInv'
<1>0. /\ repository \in [Groups -> RepositoryRecord] /\ RepositoriesAreGiven /\ NothingIsTakenOver
      /\ repositoryIds \in Nat
  BY DEF DeliveryInv, DeliveryTypeOK
<1>1. UNCHANGED <<binding, repositoryIds, registered, provisioning, bindings, lostTrack>>
  BY DEF PeopleMove
<1>2. FALSE \in BOOLEAN
  BY Zenon
<1>3. NoRepository \in RepositoryRecord /\ NoRepository.id = 0 /\ NoRepository.marked = FALSE
  BY <1>2 DEF RepositoryRecord, NoRepository
<1>4. CASE /\ g # h /\ repository[h].id = 0 /\ repository[g].id # 0
           /\ repository' = [repository EXCEPT ![g] = NoRepository, ![h] = repository[g]]
  <2>1. /\ repository' \in [Groups -> RepositoryRecord]
        /\ repository'[g] = NoRepository /\ repository'[h] = repository[g]
        /\ \A k \in Groups : k \notin {g, h} => repository'[k] = repository[k]
    BY <1>0, <1>3, <1>4
  <2>2. RepositoriesAreGiven' /\ NothingIsTakenOver'
    BY <1>0, <1>1, <1>3, <1>4, <2>1 DEF RepositoriesAreGiven, NothingIsTakenOver
  <2> QED BY <1>1, <1>3, <2>1, <2>2, RepositoriesChange
<1>5. CASE g = h /\ repository' = [repository EXCEPT ![g] = NoRepository]
  <2>1. /\ repository' \in [Groups -> RepositoryRecord] /\ repository'[g] = NoRepository
        /\ \A k \in Groups : k # g => repository'[k] = repository[k]
    BY <1>0, <1>3, <1>5
  <2>2. RepositoriesAreGiven' /\ NothingIsTakenOver'
    BY <1>0, <1>1, <1>3, <2>1 DEF RepositoriesAreGiven, NothingIsTakenOver
  <2> QED BY <1>1, <1>3, <2>1, <2>2, RepositoriesChange
<1> QED BY <1>4, <1>5 DEF PeopleMove

\* A repository is made and its id goes into the request's copy, or gets lost.
LEMMA CreateRepositoryStep ==
    ASSUME DeliveryInv, NEW r \in Provisioners, CreateRepository(r)
    PROVE  DeliveryInv'
<1> DEFINE g == provisioning[r].copy.group
           id == repositoryIds + 1
<1>0. /\ provisioning[r] \in ProvisionRecord /\ registered \in Places /\ RequestIsTrue(provisioning[r])
      /\ provisioning \in [Provisioners -> ProvisionRecord] /\ repositoryIds \in Nat
  BY DEF DeliveryInv, DeliveryTypeOK
<1>1. Now(r, "create") /\ UNCHANGED <<binding, registered, bindings>>
  BY DEF CreateRepository
<1>2. g \in Groups /\ ~provisioning[r].copy.ready
  BY <1>0, <1>1 DEF RequestIsTrue, RequestOwns, Now, OnTheWay
<1>3. TRUE \in BOOLEAN
  BY Zenon
<1>4. ASSUME MakeRepository(g, "platform"), NEW p \in ProvisionRecord,
             provisioning' = [provisioning EXCEPT ![r] = p], RequestIsTrue(provisioning[r])',
             (lostTrack' = lostTrack /\ p.now = "save" /\ p.copy.id = id) \/ lostTrack' = TRUE
      PROVE  DeliveryInv'
  <2>1. /\ repository' \in [Groups -> RepositoryRecord]
        /\ repositoryIds' = id /\ id \in 1 .. MaxRepositories
        /\ repository'[g].id = id
        /\ \A h \in Groups : h # g => repository'[h] = repository[h]
        /\ RepositoriesAreGiven' /\ NothingIsTakenOver'
        /\ \A i \in 0 .. repositoryIds : (Owned(i) => Owned(i)') /\ (Filled(i) => Filled(i)')
    <3> HIDE DEF g
    <3> QED BY <1>2, <1>4, RepositoryIsMade
  <2>2. lostTrack' \in BOOLEAN
    BY <1>3, <1>4 DEF DeliveryInv, DeliveryTypeOK
  <2>3. provisioning'[r] = p /\ \A q \in Provisioners : q # r => provisioning'[q] = provisioning[q]
    BY <1>0, <1>4
  <2>4. DeliveryTypeOK'
    BY <1>0, <1>1, <1>4, <2>1, <2>2 DEF DeliveryInv, DeliveryTypeOK
  <2>5. BindingIsTrue'
    <3>1. binding.id \in 0 .. repositoryIds
      BY DEF DeliveryInv, BindingIsTrue, DeliveryTypeOK, BindingRecord
    <3>2. (Owned(binding.id) => Owned(binding.id)') /\ (Filled(binding.id) => Filled(binding.id)')
      BY <1>1, <2>1, <3>1 DEF Owned, Filled
    <3> QED BY <1>0, <1>1, <2>1, <3>1, <3>2 DEF DeliveryInv, BindingIsTrue
  <2>6. RepositoriesAreTracked'
    BY <1>1, <1>4, <2>1, <2>3 DEF DeliveryInv, RepositoriesAreTracked, Now
  <2>7. repositoryIds <= repositoryIds'
    BY <1>0, <2>1
  <2>8. lostTrack => lostTrack'
    BY <1>4
  <2>9. binding.id \in {0, binding'.id} \/ lostTrack'
    BY <1>1
  <2>10. \A q \in Provisioners : provisioning'[q] = provisioning[q] \/ RequestIsTrue(provisioning[q])'
    BY <1>4, <2>3
  <2> QED BY <2>1, <2>4, <2>5, <2>6, <2>7, <2>8, <2>9, <2>10, DeliveryGoesOn
<1>5. CASE /\ MakeRepository(g, "platform") /\ UNCHANGED lostTrack
           /\ provisioning' = [provisioning EXCEPT ![r].now = "save", ![r].id = id, ![r].copy.id = id]
  <2> DEFINE copy == [provisioning[r].copy EXCEPT !.id = id]
             p == [provisioning[r] EXCEPT !.now = "save", !.id = id, !.copy = copy]
  <2>1. /\ copy \in BindingRecord /\ copy.id = id /\ copy.ready = provisioning[r].copy.ready
        /\ copy.group = g
    BY <1>0 DEF ProvisionRecord, BindingRecord
  <2> HIDE DEF copy
  <2>8. id \in Nat
    BY <1>0
  <2>2. p \in ProvisionRecord /\ p.now = "save" /\ p.id = id /\ p.copy = copy
    <3> HIDE DEF id
    <3> QED BY <1>0, <2>1, <2>8 DEF ProvisionRecord, OnTheWay
  <2>3. provisioning' = [provisioning EXCEPT ![r] = p]
    BY <1>5 DEF copy
  <2> HIDE DEF p
  <2>7. provisioning'[r] = p
    BY <1>0, <2>3
  <2>4. /\ repositoryIds' = id /\ repository'[g].by = "platform"
        /\ \A h \in Groups : h # g => repository'[h] = repository[h]
        /\ \A h \in Groups : repository[h].id <= repositoryIds /\ repository[h].id \in Nat
    <3>1. \A h \in Groups : repository[h].id <= repositoryIds /\ repository[h].id \in Nat
      BY DEF DeliveryInv, DeliveryTypeOK, RepositoriesAreGiven, RepositoryRecord
    <3> HIDE DEF g
    <3> QED BY <1>2, <1>5, <3>1, RepositoryIsMade
  <2>5. \A h \in Groups : repository'[h].id = id => repository'[h].by = "platform"
    BY <1>0, <2>4
  <2>6. RequestIsTrue(provisioning[r])'
    BY <1>0, <1>2, <2>1, <2>2, <2>4, <2>5, <2>7 DEF RequestIsTrue, RequestOwns, RequestIsTracked, Owned
  <2> QED BY <1>4, <1>5, <2>1, <2>2, <2>3, <2>6
<1> DEFINE p == [provisioning[r] EXCEPT !.now = "lookAgain"]
<1>6. p \in ProvisionRecord /\ p.now = "lookAgain" /\ p.id = provisioning[r].id /\ p.copy = provisioning[r].copy
  BY <1>0 DEF ProvisionRecord, OnTheWay
<1>7. ASSUME Then(r, "lookAgain") PROVE provisioning' = [provisioning EXCEPT ![r] = p]
  BY <1>7 DEF Then
<1> HIDE DEF p
<1>8. CASE MakeRepository(g, "platform") /\ Then(r, "lookAgain") /\ lostTrack' = TRUE
  <2>1. /\ repositoryIds' = id
        /\ \A i \in 0 .. repositoryIds : (Owned(i) => Owned(i)') /\ (Filled(i) => Filled(i)')
    <3> HIDE DEF g
    <3> QED BY <1>2, <1>8, RepositoryIsMade
  <2>2. p.copy.id \in 0 .. repositoryIds /\ p.id \in 0 .. repositoryIds /\ Owned(p.copy.id)
    BY <1>0, <1>6 DEF ProvisionRecord, BindingRecord, RequestIsTrue, RequestOwns
  <2>3. provisioning'[r] = p
    BY <1>0, <1>7, <1>8
  <2>5. RequestIsTrue(provisioning[r])'
    BY <1>0, <1>2, <1>6, <1>8, <2>1, <2>2, <2>3 DEF RequestIsTrue, RequestOwns, RequestIsTracked, Owned
  <2> QED BY <1>4, <1>6, <1>7, <1>8, <2>5
<1>9. CASE Then(r, "lookAgain") /\ UNCHANGED <<repository, repositoryIds, lostTrack>>
  BY <1>0, <1>1, <1>6, <1>7, <1>9, RequestProceeds DEF Now, OnTheWay, RequestIsTrue, RequestOwns
<1> QED BY <1>5, <1>8, <1>9 DEF CreateRepository

\* The repository of a request gets its files and its mark.
LEMMA FillRepositoryStep ==
    ASSUME DeliveryInv, NEW r \in Provisioners, FillRepository(r)
    PROVE  DeliveryInv'
<1> DEFINE id == provisioning[r].id
<1>0. /\ provisioning[r] \in ProvisionRecord /\ registered \in Places /\ RequestIsTrue(provisioning[r])
      /\ provisioning \in [Provisioners -> ProvisionRecord] /\ repositoryIds \in Nat
      /\ binding \in BindingRecord /\ lostTrack \in BOOLEAN
      /\ repository \in [Groups -> RepositoryRecord]
  BY DEF DeliveryInv, DeliveryTypeOK
<1>1. Now(r, "fill") /\ UNCHANGED <<repositoryIds, registered, bindings>>
  BY DEF FillRepository
<1>2. Owned(id) /\ ~provisioning[r].copy.ready /\ id <= repositoryIds /\ provisioning[r].copy.group \in Groups
  BY <1>0, <1>1 DEF RequestIsTrue, RequestOwns, Now, OnTheWay
<1>3. ASSUME Made(id),
             repository' = [repository EXCEPT ![Where(id)].marked = TRUE, ![Where(id)].files = TRUE]
      PROVE  /\ repository' \in [Groups -> RepositoryRecord]
             /\ RepositoriesAreGiven' /\ NothingIsTakenOver'
             /\ \A i : (Owned(i) => Owned(i)') /\ (Filled(i) => Filled(i)')
             /\ \A h \in Groups : repository'[h].id = id => repository'[h].marked
             /\ \A h \in Groups : /\ repository'[h].id = repository[h].id
                                  /\ repository'[h].by = repository[h].by
                                  /\ repository[h].marked => repository'[h].marked
  <2> DEFINE at == Where(id)
  <2>1. at \in Groups /\ repository[at].id = id /\ id # 0
    BY <1>3, WhereIsIt
  <2>2. TRUE \in BOOLEAN
    BY Zenon
  <2>3. repository' = [repository EXCEPT ![at] = [repository[at] EXCEPT !.marked = TRUE, !.files = TRUE]]
    BY <1>0, <1>3, <2>1
  <2> HIDE DEF at
  <2>4. /\ repository'[at] \in RepositoryRecord /\ repository'[at].id = id
        /\ repository'[at].by = repository[at].by /\ repository'[at].marked = TRUE
    BY <1>0, <2>1, <2>2, <2>3 DEF RepositoryRecord
  <2>5. \A h \in Groups : h # at => repository'[h] = repository[h]
    BY <1>0, <2>3
  <2>6. repository' \in [Groups -> RepositoryRecord]
    BY <1>0, <2>1, <2>3, <2>4, <2>5
  <2>7. RepositoriesAreGiven'
    BY <1>1, <2>1, <2>4, <2>5 DEF DeliveryInv, RepositoriesAreGiven
  <2>8. NothingIsTakenOver'
    BY <1>2, <2>1, <2>4, <2>5 DEF DeliveryInv, NothingIsTakenOver, Owned
  <2>9. \A i : (Owned(i) => Owned(i)') /\ (Filled(i) => Filled(i)')
    BY <2>1, <2>4, <2>5 DEF Owned, Filled
  <2>10. \A h \in Groups : repository'[h].id = id => repository'[h].marked
    BY <2>1, <2>4, <2>5 DEF DeliveryInv, RepositoriesAreGiven
  <2>11. \A h \in Groups : /\ repository'[h].id = repository[h].id
                           /\ repository'[h].by = repository[h].by
                           /\ repository[h].marked => repository'[h].marked
    BY <2>1, <2>4, <2>5
  <2> QED BY <2>6, <2>7, <2>8, <2>9, <2>10, <2>11
<1>4. ASSUME Made(id),
             repository' = [repository EXCEPT ![Where(id)].marked = TRUE, ![Where(id)].files = TRUE],
             NEW p \in ProvisionRecord, provisioning' = [provisioning EXCEPT ![r] = p],
             RequestIsTrue(provisioning[r])',
             binding' \in BindingRecord, lostTrack' \in BOOLEAN, lostTrack => lostTrack',
             binding.id \in {0, binding'.id} \/ lostTrack',
             binding'.id <= repositoryIds, Owned(binding'.id), binding'.ready => Filled(binding'.id)
      PROVE  DeliveryInv'
  <2>1. provisioning'[r] = p /\ \A q \in Provisioners : q # r => provisioning'[q] = provisioning[q]
    BY <1>0, <1>4
  <2>2. DeliveryTypeOK'
    BY <1>0, <1>1, <1>3, <1>4 DEF DeliveryInv, DeliveryTypeOK
  <2>3. BindingIsTrue'
    <3>1. \A h \in Groups : /\ repository'[h].id = repository[h].id
                            /\ repository'[h].by = repository[h].by
                            /\ repository[h].marked => repository'[h].marked
      BY <1>3, <1>4
    <3> QED BY <1>1, <1>4, <3>1 DEF BindingIsTrue, Owned, Filled
  <2>4. RepositoriesAreTracked'
    <3>1. ASSUME NEW g \in Groups, repository'[g].by = "platform", ~repository'[g].marked, ~lostTrack',
                 repository'[g].id # binding'.id
          PROVE  \E q \in Provisioners : (Now(q, "save") /\ provisioning[q].copy.id = repository[g].id)'
      <4>1. /\ repository'[g].id = repository[g].id /\ repository[g].by = "platform"
            /\ ~repository[g].marked
        BY <1>3, <1>4, <3>1
      <4>2. repository[g].id # 0
        BY <4>1 DEF DeliveryInv, RepositoriesAreGiven, NoRepository
      <4>3. PICK q \in Provisioners : Now(q, "save") /\ provisioning[q].copy.id = repository[g].id
        BY <1>4, <3>1, <4>1, <4>2 DEF DeliveryInv, RepositoriesAreTracked
      <4> QED BY <1>1, <2>1, <4>1, <4>3 DEF Now
    <3> QED BY <3>1 DEF RepositoriesAreTracked
  <2>5. repositoryIds <= repositoryIds'
    BY <1>0, <1>1
  <2>6. \A q \in Provisioners : provisioning'[q] = provisioning[q] \/ RequestIsTrue(provisioning[q])'
    BY <1>4, <2>1
  <2> QED BY <1>3, <1>4, <2>2, <2>3, <2>4, <2>5, <2>6, DeliveryGoesOn
<1>5. ASSUME Made(id),
             repository' = [repository EXCEPT ![Where(id)].marked = TRUE, ![Where(id)].files = TRUE],
             provisioning' = [provisioning EXCEPT ![r].now = "register", ![r].copy.id = id],
             UNCHANGED <<binding, lostTrack>>
      PROVE  DeliveryInv'
  <2> DEFINE copy == [provisioning[r].copy EXCEPT !.id = id]
             p == [provisioning[r] EXCEPT !.now = "register", !.copy = copy]
  <2>1. /\ copy \in BindingRecord /\ copy.id = id /\ copy.ready = provisioning[r].copy.ready
        /\ copy.group = provisioning[r].copy.group
    BY <1>0 DEF ProvisionRecord, BindingRecord
  <2>2. provisioning' = [provisioning EXCEPT ![r] = p]
    BY <1>5
  <2> HIDE DEF copy
  <2>3. p \in ProvisionRecord /\ p.now = "register" /\ p.copy = copy /\ p.id = id
    BY <1>0, <2>1 DEF ProvisionRecord, OnTheWay
  <2> HIDE DEF p
  <2>4. provisioning'[r] = p
    BY <1>0, <2>2
  <2>5. /\ \A h \in Groups : repository'[h].id = id => repository'[h].marked
        /\ \A h \in Groups : /\ repository'[h].id = repository[h].id
                             /\ repository'[h].by = repository[h].by
    BY <1>3, <1>5
  <2>6. RequestIsTrue(provisioning[r])'
    BY <1>1, <1>2, <2>1, <2>3, <2>4, <2>5 DEF RequestIsTrue, RequestOwns, RequestIsTracked, Owned, Filled
  <2>7. lostTrack' \in BOOLEAN
    BY <1>0, <1>5
  <2> QED BY <1>0, <1>4, <1>5, <2>2, <2>3, <2>6, <2>7 DEF DeliveryInv, BindingIsTrue
<1>6. ASSUME Made(id),
             repository' = [repository EXCEPT ![Where(id)].marked = TRUE, ![Where(id)].files = TRUE],
             Breaks(r)
      PROVE  DeliveryInv'
  <2>1. /\ provisioning' = [provisioning EXCEPT ![r] = NoProvision]
        /\ binding' = provisioning[r].copy
        /\ lostTrack' = (lostTrack \/ binding.id \notin {0, binding'.id})
    BY <1>6 DEF Breaks, Leaves, Binds
  <2>2. lostTrack' \in BOOLEAN
    BY <2>1, Zenon
  <2>3. binding' \in BindingRecord
    BY <1>0, <2>1 DEF ProvisionRecord
  <2>4. provisioning'[r] = NoProvision
    BY <1>0, <2>1
  <2>5. RequestIsTrue(provisioning[r])'
    BY <1>0, <1>1, <2>4, NothingProvisioned
       DEF RequestIsTrue, RequestOwns, RequestIsTracked, Owned, Filled, OnTheWay
  <2> QED BY <1>0, <1>2, <1>4, <1>6, <2>1, <2>2, <2>3, <2>5, NothingProvisioned
          DEF RequestIsTrue, RequestOwns
<1>7. CASE Breaks(r) /\ UNCHANGED repository
  BY <1>1, <1>7, BreaksStep
<1> QED BY <1>5, <1>6, <1>7 DEF FillRepository

\* A binding that has not been provisioned yet, and no repository.
LEMMA DeliveryInitInv == DeliveryInit => DeliveryInv
<1> SUFFICES ASSUME DeliveryInit PROVE DeliveryInv
  OBVIOUS
<1>1. FALSE \in BOOLEAN
  BY Zenon
<1>2. NoRepository \in RepositoryRecord /\ NoRepository.id = 0 /\ NoRepository.marked = FALSE
      /\ NoRepository.by = "nobody"
  BY <1>1 DEF RepositoryRecord, NoRepository
<1>3. binding \in BindingRecord /\ binding.id = 0 /\ binding.ready = FALSE
  <2>1. PICK g \in Groups : binding = [Unbound EXCEPT !.group = g]
    BY DEF DeliveryInit
  <2>2. g \in Places
    BY DEF Places
  <2> QED BY <2>1, <2>2, NothingProvisioned DEF BindingRecord
<1>4. DeliveryTypeOK
  <2>1. repository \in [Groups -> RepositoryRecord] /\ registered \in Places
    BY <1>2 DEF DeliveryInit, Places
  <2>2. provisioning \in [Provisioners -> ProvisionRecord]
    BY NothingProvisioned DEF DeliveryInit
  <2>3. repositoryIds \in 0 .. MaxRepositories /\ bindings \in 0 .. MaxBindings
    BY DEF DeliveryInit
  <2>4. lostTrack \in BOOLEAN
    BY <1>1 DEF DeliveryInit
  <2> QED BY <1>3, <2>1, <2>2, <2>3, <2>4 DEF DeliveryTypeOK
<1>5. RepositoriesAreGiven /\ NothingIsTakenOver /\ RepositoriesAreTracked
  BY <1>2 DEF DeliveryInit, RepositoriesAreGiven, NothingIsTakenOver, RepositoriesAreTracked
<1>6. BindingIsTrue
  BY <1>3 DEF DeliveryInit, BindingIsTrue, Owned, Filled
<1>7. ASSUME NEW r \in Provisioners PROVE RequestIsTrue(provisioning[r])
  BY NothingProvisioned DEF DeliveryInit, RequestIsTrue, RequestOwns, RequestIsTracked, Owned, Filled, OnTheWay
<1> QED BY <1>4, <1>5, <1>6, <1>7 DEF DeliveryInv

\* Every step keeps DeliveryInv.
LEMMA DeliveryStepInv == DeliveryInv /\ [DeliveryNext]_deliveryVars => DeliveryInv'
<1> SUFFICES ASSUME DeliveryInv, [DeliveryNext]_deliveryVars PROVE DeliveryInv'
  OBVIOUS
<1>1. CASE \E r \in Provisioners : \/ \E g \in Groups : VerifyRebind(r, g)
                                   \/ WriteBinding(r) \/ StartProvision(r) \/ FindRepository(r)
  BY <1>1, VerifyRebindStep, WriteBindingStep, StartProvisionStep, FindRepositoryStep
<1>2. CASE \E r \in Provisioners : CreateRepository(r) \/ SaveOwnership(r) \/ CheckRepository(r)
  BY <1>2, CreateRepositoryStep, SaveOwnershipStep, CheckRepositoryStep
<1>3. CASE \E r \in Provisioners : \/ FillRepository(r) \/ RegisterRepository(r)
                                   \/ EndProvision(r) \/ DieIn(r)
  BY <1>3, FillRepositoryStep, RegisterRepositoryStep, EndProvisionStep, DieInStep
<1>4. CASE DetachDelivery
  BY <1>4, DetachDeliveryStep
<1>5. CASE \E g \in Groups : PeopleMake(g) \/ PeoplePush(g) \/ \E h \in Groups : PeopleMove(g, h)
  BY <1>5, PeopleMakeStep, PeoplePushStep, PeopleMoveStep
<1>6. CASE UNCHANGED deliveryVars
  BY <1>6 DEF deliveryVars, DeliveryInv, DeliveryTypeOK, RepositoriesAreGiven, NothingIsTakenOver,
              BindingIsTrue, RequestIsTrue, RequestOwns, RequestIsTracked, RepositoriesAreTracked,
              Owned, Filled, Now
<1> QED BY <1>1, <1>2, <1>3, <1>4, <1>5, <1>6 DEF DeliveryNext

\* DeliveryInv holds of every behaviour, for any number of groups, requests and repositories.
THEOREM DeliveryInvariant == DeliverySpec => []DeliveryInv
BY DeliveryInitInv, DeliveryStepInv, PTL DEF DeliverySpec

\* Provision writes into no repository that it has not made, a row that says ready names one that
\* is filled, and an empty repository of the platform is the one the row names or a running request
\* will name (internal/gitlab/service.go, Provision), for any number of groups and requests,
\* whatever people do in GitLab.
THEOREM DeliveriesAreOwnHolds == DeliverySpec => []DeliveriesAreOwn
<1>1. ASSUME DeliveryInv PROVE DeliveriesAreOwn
  <2>1. ASSUME binding.ready, Made(binding.id) PROVE repository[Where(binding.id)].marked
    BY <1>1, <2>1, WhereIsIt DEF DeliveryInv, BindingIsTrue, Filled
  <2>2. RetryFindsRepository
    BY <1>1 DEF DeliveryInv, RepositoriesAreTracked, RetryFindsRepository
  <2> QED BY <1>1, <2>1, <2>2 DEF DeliveriesAreOwn, ReadyIsFilled, DeliveryInv
<1> QED BY <1>1, DeliveryInvariant, PTL
===============================================================================
