---------------------------- MODULE HandlerProofs -----------------------------
(***************************************************************************)
(* Two rows that requests rewrite as a whole, with what lives beside them: *)
(* an account with its sessions in memory, and a static site with its      *)
(* bucket, access control and distribution in AWS; for any number of       *)
(* requests.                                                               *)
(***************************************************************************)
EXTENDS Sessions, StaticCDN, TLAPS

-------------------------------------------------------------------------------
(* Sessions.                                                               *)

USE SessionsAssumption

Tokens == 1 .. MaxTokens
AccountRow == [active : BOOLEAN, password : Nat, updated : Nat]
SessionRecord == [updated : Nat, password : Nat, late : BOOLEAN, crossed : BOOLEAN]
VisitStage == {"start", "open", "lookup", "store", "read", "verify", "logout", "save", "reread", "refresh"}
VisitRecord == [does : {"nothing", "login"} \cup Does, at : VisitStage, token : Tokens \cup {0},
                session : SessionRecord, user : AccountRow, crossed : BOOLEAN]

SessionsTypeOK ==
    /\ account \in AccountRow /\ changes \in Nat
    /\ open \in [Tokens -> SessionRecord] /\ tokens \in 0 .. MaxTokens
    /\ visit \in [Visits -> VisitRecord]
    /\ administrator \in [saves : BOOLEAN, user : AccountRow]
    /\ keptIn \subseteq Tokens

\* The row that exists was written by the last change.
AccountIsTrue == changes >= 1 /\ (account = NoAccount \/ account.updated = changes)

\* A copy of the row, and a session, that is not older than the row has its password.
RowFits(u, last, rowNow) ==
    u.updated <= last /\ (u.updated = last /\ rowNow # NoAccount => u.password = rowNow.password)
SessionFits(s, last, rowNow) ==
    /\ s.updated <= last /\ s.updated >= 1
    /\ s.updated = last /\ rowNow # NoAccount /\ ~s.crossed => s.password = rowNow.password

OpenIsTrue ==
    \A t \in Tokens : open[t] # NoSession => t <= tokens /\ SessionFits(open[t], changes, account)

VisitIsTrue(q, sessions, last, rowNow, given) ==
    /\ q.token \in 0 .. given /\ (q.at = "start" <=> q.token = 0)
    /\ q.at = "open" => /\ sessions[q.token] = NoSession
                        /\ RowFits(q.user, last, rowNow) /\ q.user.updated >= 1
    /\ q.at \in {"lookup", "store"} =>
          /\ SessionFits(q.session, last, rowNow)
          /\ sessions[q.token] # NoSession =>
                /\ q.session.password = sessions[q.token].password
                /\ q.session.crossed => sessions[q.token].crossed
    /\ q.at = "store" => /\ RowFits(q.user, last, rowNow)
                         /\ ~q.session.crossed => q.session.password = q.user.password
                         /\ q.does \in Does
    /\ q.does = "profile" /\ q.at \in {"read", "save", "reread", "refresh"} =>
          /\ RowFits(q.user, last, rowNow)
          /\ ~q.crossed /\ sessions[q.token] # NoSession /\ ~sessions[q.token].crossed =>
                q.user.password = sessions[q.token].password
    /\ q.at \in {"reread", "refresh"} => q.does = "profile" /\ q.user.updated >= 1
    /\ q.at = "lookup" => q.does \in Does
    /\ q.at = "verify" => q.does # "profile"

OpenersAreAlone ==
    \A v, w \in Visits : v # w /\ visit[v].at = "open" => visit[w].token # visit[v].token

\* A session that an update promised to keep is refreshed by it, or has been, and those who
\* ask with it have what the refresh left.
AsksWith(q, t) == q.token = t /\ q.at \in {"lookup", "store"}
UpdatesWith(q, t) == q.token = t /\ q.at \in {"reread", "refresh"}
KeptIsTrue(t, visits, sessions, rowNow) ==
    /\ sessions[t] # NoSession /\ ~sessions[t].late /\ rowNow.active
    /\ \/ \E v \in Visits :
            /\ UpdatesWith(visits[v], t)
            /\ visits[v].at = "refresh" => visits[v].user.updated = rowNow.updated
            /\ \A w \in Visits \ {v} : ~AsksWith(visits[w], t) /\ ~UpdatesWith(visits[w], t)
       \/ /\ sessions[t].updated = rowNow.updated
          /\ \A w \in Visits :
                /\ ~UpdatesWith(visits[w], t)
                /\ AsksWith(visits[w], t) => visits[w].session.updated = rowNow.updated

SessionsInv ==
    /\ SessionsTypeOK /\ AccountIsTrue /\ OpenIsTrue /\ OpenersAreAlone
    /\ \A v \in Visits : VisitIsTrue(visit[v], open, changes, account, tokens)
    /\ \A t \in keptIn : KeptIsTrue(t, visit, open, account)
\* The account, session and visit that are not there.
LEMMA NobodyIsOne ==
    /\ FALSE \in BOOLEAN /\ TRUE \in BOOLEAN
    /\ NoAccount \in AccountRow /\ ~NoAccount.active /\ NoAccount.updated = 0
    /\ NoSession \in SessionRecord /\ NoSession.updated = 0 /\ ~NoSession.late /\ ~NoSession.crossed
    /\ NoVisit \in VisitRecord /\ NoVisit.at = "start" /\ NoVisit.token = 0 /\ NoVisit.does = "nothing"
    /\ ~NoVisit.crossed
<1>1. FALSE \in BOOLEAN /\ TRUE \in BOOLEAN
  BY Zenon
<1>2. NoAccount \in AccountRow /\ ~NoAccount.active /\ NoAccount.updated = 0
  BY <1>1 DEF NoAccount, AccountRow
<1>3. NoSession \in SessionRecord /\ NoSession.updated = 0 /\ ~NoSession.late /\ ~NoSession.crossed
  BY <1>1 DEF NoSession, SessionRecord
<1> HIDE DEF NoAccount, NoSession
<1>4. /\ NoVisit \in VisitRecord /\ NoVisit.at = "start" /\ NoVisit.token = 0 /\ NoVisit.does = "nothing"
      /\ ~NoVisit.crossed
  BY <1>1, <1>2, <1>3 DEF NoVisit, VisitRecord, VisitStage
<1> QED BY <1>1, <1>2, <1>3, <1>4

\* Nothing is claimed of a visitor who is not there.
LEMMA NothingIsTrue ==
    ASSUME NEW sessions, NEW last \in Nat, NEW rowNow \in AccountRow, NEW given \in Nat
    PROVE  VisitIsTrue(NoVisit, sessions, last, rowNow, given)
BY NobodyIsOne DEF VisitIsTrue

\* A visit that ends leaves the others alone.
LEMMA VisitEnds ==
    ASSUME SessionsTypeOK, NEW v \in Visits, EndsVisit(v)
    PROVE  /\ visit' \in [Visits -> VisitRecord] /\ visit'[v] = NoVisit
           /\ \A w \in Visits \ {v} : visit'[w] = visit[w]
BY NobodyIsOne DEF SessionsTypeOK, EndsVisit

\* What SessionsInv says of one visit.
LEMMA Knows ==
    ASSUME SessionsInv, NEW v \in Visits
    PROVE  /\ SessionsTypeOK /\ visit[v] \in VisitRecord
           /\ VisitIsTrue(visit[v], open, changes, account, tokens)
           /\ visit[v].session \in SessionRecord /\ visit[v].user \in AccountRow
           /\ visit[v].at # "start" => visit[v].token \in Tokens
<1>1. SessionsTypeOK /\ visit[v] \in VisitRecord
  BY DEF SessionsInv, SessionsTypeOK
<1>2. VisitIsTrue(visit[v], open, changes, account, tokens)
  BY DEF SessionsInv
<1>3. visit[v].session \in SessionRecord /\ visit[v].user \in AccountRow /\ visit[v].token \in Tokens \cup {0}
  BY <1>1 DEF VisitRecord
<1> QED BY <1>1, <1>2, <1>3 DEF VisitIsTrue

\* The row is as it was, gone, or written by a later change.
RowGoesOn ==
    \/ changes' = changes /\ account' \in {account, NoAccount}
    \/ changes' = changes + 1 /\ account'.updated = changes'

\* What was a copy of the past is one after the row has gone on.
LEMMA FitStays ==
    ASSUME SessionsTypeOK, RowGoesOn
    PROVE  /\ \A s \in SessionRecord : SessionFits(s, changes, account) => SessionFits(s, changes', account')
           /\ \A u \in AccountRow : RowFits(u, changes, account) => RowFits(u, changes', account')
BY DEF SessionsTypeOK, RowGoesOn, SessionFits, RowFits, SessionRecord, AccountRow

\* What a visit knows stays true while others change its session and the row.
LEMMA VisitStays ==
    ASSUME SessionsInv, NEW w \in Visits, SessionsTypeOK', RowGoesOn, tokens' >= tokens,
           visit'[w] = visit[w],
           visit[w].at # "start" =>
              \/ open'[visit[w].token] = NoSession
              \/ /\ open[visit[w].token] # NoSession
                 /\ open'[visit[w].token].password = open[visit[w].token].password
                 /\ open[visit[w].token].crossed => open'[visit[w].token].crossed
    PROVE  VisitIsTrue(visit'[w], open', changes', account', tokens')
<1> DEFINE q == visit[w]
<1>1. VisitIsTrue(q, open, changes, account, tokens) /\ visit'[w] = q
  BY Knows
<1>2. q.session \in SessionRecord /\ q.user \in AccountRow
  BY Knows
<1>3. /\ SessionFits(q.session, changes, account) => SessionFits(q.session, changes', account')
      /\ RowFits(q.user, changes, account) => RowFits(q.user, changes', account')
  BY <1>2, FitStays DEF SessionsInv
<1>4. q.at # "start" => \/ open'[q.token] = NoSession
                        \/ /\ open[q.token] # NoSession /\ open'[q.token].password = open[q.token].password
                           /\ open[q.token].crossed => open'[q.token].crossed
  OBVIOUS
<1>5. q.token \in 0 .. tokens'
  BY <1>1 DEF VisitIsTrue, SessionsInv, SessionsTypeOK
<1> HIDE DEF q
<1> QED BY <1>1, <1>3, <1>4, <1>5 DEF VisitIsTrue

\* Nobody's visit moves.
LEMMA VisitsRest ==
    ASSUME SessionsInv, UNCHANGED <<visit, tokens>>, SessionsTypeOK', RowGoesOn,
           \A t \in Tokens : \/ open'[t] = NoSession
                             \/ /\ open[t] # NoSession /\ open'[t].password = open[t].password
                                /\ open[t].crossed => open'[t].crossed
                                /\ open'[t].updated = open[t].updated,
           \A t \in keptIn' : KeptIsTrue(t, visit', open', account')
    PROVE  SessionsInv'
<1>1. AccountIsTrue'
  BY DEF SessionsInv, AccountIsTrue, RowGoesOn, SessionsTypeOK
<1>2. \A t \in Tokens : open'[t] # NoSession => t <= tokens' /\ SessionFits(open'[t], changes', account')
  <2> SUFFICES ASSUME NEW t \in Tokens, open'[t] # NoSession
               PROVE  t <= tokens' /\ SessionFits(open'[t], changes', account')
    OBVIOUS
  <2>1. t <= tokens /\ SessionFits(open[t], changes, account) /\ open[t] \in SessionRecord
    BY DEF SessionsInv, OpenIsTrue, SessionsTypeOK
  <2>2. SessionFits(open[t], changes', account')
    BY <2>1, FitStays DEF SessionsInv
  <2> QED BY <2>1, <2>2 DEF SessionFits
<1>3. OpenersAreAlone'
  BY DEF SessionsInv, OpenersAreAlone
<1>4. ASSUME NEW w \in Visits
      PROVE  VisitIsTrue(visit'[w], open', changes', account', tokens')
  <2>1. tokens' >= tokens
    BY DEF SessionsInv, SessionsTypeOK
  <2>2. visit[w].at # "start" => visit[w].token \in Tokens
    BY Knows
  <2> QED BY <2>1, <2>2, VisitStays
<1> QED BY <1>1, <1>2, <1>3, <1>4 DEF SessionsInv, OpenIsTrue, VisitIsTrue, KeptIsTrue, SessionFits

\* What a visit does beside the others.
LEMMA VisitGoesOn ==
    ASSUME SessionsInv, NEW v \in Visits, SessionsTypeOK', RowGoesOn, tokens' >= tokens,
           \A w \in Visits \ {v} : visit'[w] = visit[w],
           \A t \in Tokens :
              \/ open'[t] = NoSession
              \/ /\ open[t] # NoSession /\ open'[t].password = open[t].password
                 /\ open[t].crossed => open'[t].crossed
                 /\ SessionFits(open'[t], changes', account')
              \/ /\ t <= tokens' /\ SessionFits(open'[t], changes', account')
                 /\ \A w \in Visits \ {v} : visit[w].token # t,
           VisitIsTrue(visit'[v], open', changes', account', tokens'),
           visit'[v].at = "open" => \A w \in Visits \ {v} : visit[w].token # visit'[v].token,
           visit'[v].token \in {visit[v].token, 0} \/ open[visit'[v].token] # NoSession \/ visit'[v].token > tokens,
           \A t \in keptIn' : KeptIsTrue(t, visit', open', account')
    PROVE  SessionsInv'
<1>1. AccountIsTrue'
  BY DEF SessionsInv, AccountIsTrue, RowGoesOn, SessionsTypeOK
<1>2. \A t \in Tokens : open'[t] # NoSession => t <= tokens' /\ SessionFits(open'[t], changes', account')
  BY DEF SessionsInv, OpenIsTrue, SessionsTypeOK, Tokens
<1>3. OpenersAreAlone'
  <2>1. ASSUME NEW a \in Visits, NEW b \in Visits, a # b, visit'[a].at = "open"
        PROVE  visit'[b].token # visit'[a].token
    <3>1. CASE a = v
      BY <2>1, <3>1
    <3>2. CASE a # v /\ b # v
      BY <2>1, <3>2 DEF SessionsInv, OpenersAreAlone
    <3>3. CASE a # v /\ b = v
      <4>1. visit[a].at = "open" /\ visit'[a] = visit[a] /\ visit[b].token # visit[a].token
        BY <2>1, <3>3 DEF SessionsInv, OpenersAreAlone
      <4>2. /\ open[visit[a].token] = NoSession /\ visit[a].token # 0 /\ visit[a].token <= tokens
            /\ visit[a].token \in Nat /\ tokens \in Nat
        BY <4>1, Knows DEF VisitIsTrue, SessionsTypeOK
      <4> QED BY <3>3, <4>1, <4>2
    <3> QED BY <3>1, <3>2, <3>3
  <2> QED BY <2>1 DEF OpenersAreAlone
<1>4. ASSUME NEW w \in Visits
      PROVE  VisitIsTrue(visit'[w], open', changes', account', tokens')
  <2>1. CASE w = v
    BY <2>1
  <2>2. CASE w # v
    <3>1. visit[w].at # "start" => \/ open'[visit[w].token] = NoSession
                                   \/ /\ open[visit[w].token] # NoSession
                                      /\ open'[visit[w].token].password = open[visit[w].token].password
                                      /\ open[visit[w].token].crossed => open'[visit[w].token].crossed
      BY <2>2, Knows
    <3> QED BY <2>2, <3>1, VisitStays
  <2> QED BY <2>1, <2>2
<1> QED BY <1>1, <1>2, <1>3, <1>4 DEF SessionsInv, OpenIsTrue, VisitIsTrue, KeptIsTrue, SessionFits

\* A session that is kept stays so beside a visit that does not write the row.
LEMMA KeptStays ==
    ASSUME NEW t \in Tokens, KeptIsTrue(t, visit, open, account), NEW v \in Visits, UNCHANGED account,
           \A w \in Visits \ {v} : visit'[w] = visit[w],
           open'[t] # NoSession, open'[t].late = open[t].late, open'[t].updated = open[t].updated,
           UpdatesWith(visit[v], t) =>
              /\ UpdatesWith(visit'[v], t)
              /\ visit'[v].at = "refresh" => visit'[v].user.updated = account.updated,
           UpdatesWith(visit'[v], t) => UpdatesWith(visit[v], t),
           AsksWith(visit'[v], t) =>
              \/ AsksWith(visit[v], t) /\ visit'[v].session = visit[v].session
              \/ /\ visit'[v].session.updated = open[t].updated
                 /\ \A w \in Visits : ~UpdatesWith(visit[w], t)
    PROVE  KeptIsTrue(t, visit', open', account')
<1>1. open'[t] # NoSession /\ ~open'[t].late /\ account'.active
  BY DEF KeptIsTrue
<1>2. CASE /\ open[t].updated = account.updated
           /\ \A w \in Visits : /\ ~UpdatesWith(visit[w], t)
                                /\ AsksWith(visit[w], t) => visit[w].session.updated = account.updated
  <2>1. \A w \in Visits : /\ ~UpdatesWith(visit'[w], t)
                          /\ AsksWith(visit'[w], t) => visit'[w].session.updated = account.updated
    BY <1>2
  <2> QED BY <1>1, <1>2, <2>1 DEF KeptIsTrue
<1>3. ASSUME NEW u \in Visits, UpdatesWith(visit[u], t),
             visit[u].at = "refresh" => visit[u].user.updated = account.updated,
             \A w \in Visits \ {u} : ~AsksWith(visit[w], t) /\ ~UpdatesWith(visit[w], t)
      PROVE  KeptIsTrue(t, visit', open', account')
  <2>1. UpdatesWith(visit'[u], t) /\ (visit'[u].at = "refresh" => visit'[u].user.updated = account'.updated)
    BY <1>3
  <2>2. \A w \in Visits \ {u} : ~AsksWith(visit'[w], t) /\ ~UpdatesWith(visit'[w], t)
    BY <1>3
  <2> QED BY <1>1, <2>1, <2>2 DEF KeptIsTrue
<1> QED BY <1>2, <1>3 DEF KeptIsTrue

\* How a visit's record changes.
LEMMA AtChanges ==
    ASSUME NEW q \in VisitRecord, NEW at \in VisitStage
    PROVE  LET d == [q EXCEPT !.at = at] IN
           /\ d \in VisitRecord /\ d.at = at /\ d.does = q.does /\ d.token = q.token
           /\ d.session = q.session /\ d.user = q.user /\ d.crossed = q.crossed
BY DEF VisitRecord

\* The record of a visit with another copy of the account.
LEMMA UserChanges ==
    ASSUME NEW q \in VisitRecord, NEW user \in AccountRow
    PROVE  LET d == [q EXCEPT !.user = user] IN
           /\ d \in VisitRecord /\ d.at = q.at /\ d.does = q.does /\ d.token = q.token
           /\ d.session = q.session /\ d.user = user /\ d.crossed = q.crossed
BY DEF VisitRecord

\* The record of a visit with another copy of the session.
LEMMA SessionChanges ==
    ASSUME NEW q \in VisitRecord, NEW session \in SessionRecord
    PROVE  LET d == [q EXCEPT !.session = session] IN
           /\ d \in VisitRecord /\ d.at = q.at /\ d.does = q.does /\ d.token = q.token
           /\ d.session = session /\ d.user = q.user /\ d.crossed = q.crossed
BY DEF VisitRecord

\* The record of a visit with another mark.
LEMMA CrossedChanges ==
    ASSUME NEW q \in VisitRecord, NEW crossed \in BOOLEAN
    PROVE  LET d == [q EXCEPT !.crossed = crossed] IN
           /\ d \in VisitRecord /\ d.at = q.at /\ d.does = q.does /\ d.token = q.token
           /\ d.session = q.session /\ d.user = q.user /\ d.crossed = crossed
BY DEF VisitRecord

\* The record of a visit that begins.
LEMMA ComesAs ==
    ASSUME NEW does \in {"login"} \cup Does, NEW token \in Tokens
    PROVE  LET d == [NoVisit EXCEPT !.does = does, !.token = token] IN
           /\ d \in VisitRecord /\ d.at = "start" /\ d.does = does /\ d.token = token
           /\ d.session = NoVisit.session /\ d.user = NoVisit.user /\ ~d.crossed
<1>1. NoVisit \in VisitRecord /\ NoVisit.at = "start" /\ ~NoVisit.crossed
  BY NobodyIsOne
<1> HIDE DEF NoVisit
<1> DEFINE d == [NoVisit EXCEPT !.does = does]
<1>2. /\ d \in VisitRecord /\ d.at = "start" /\ d.does = does
      /\ d.session = NoVisit.session /\ d.user = NoVisit.user /\ ~d.crossed
  BY <1>1 DEF VisitRecord
<1> HIDE DEF d
<1>3. LET e == [d EXCEPT !.token = token] IN
      /\ e \in VisitRecord /\ e.at = d.at /\ e.does = d.does /\ e.token = token
      /\ e.session = d.session /\ e.user = d.user /\ e.crossed = d.crossed
  BY <1>2 DEF VisitRecord
<1> QED BY <1>2, <1>3 DEF d

\* A visit takes its next step.
LEMMA VisitWalks ==
    ASSUME SessionsTypeOK, NEW v \in Visits, NEW where \in VisitStage, Walks(v, where)
    PROVE  /\ visit' \in [Visits -> VisitRecord] /\ \A w \in Visits \ {v} : visit'[w] = visit[w]
           /\ visit'[v].at = where /\ visit'[v].does = visit[v].does /\ visit'[v].token = visit[v].token
           /\ visit'[v].session = visit[v].session /\ visit'[v].user = visit[v].user
           /\ visit'[v].crossed = visit[v].crossed
<1>1. visit \in [Visits -> VisitRecord] /\ visit[v] \in VisitRecord
  BY DEF SessionsTypeOK
<1>2. visit' = [visit EXCEPT ![v] = [visit[v] EXCEPT !.at = where]]
  BY <1>1 DEF Walks
<1> DEFINE d == [visit[v] EXCEPT !.at = where]
<1>3. /\ d \in VisitRecord /\ d.at = where /\ d.does = visit[v].does /\ d.token = visit[v].token
      /\ d.session = visit[v].session /\ d.user = visit[v].user /\ d.crossed = visit[v].crossed
  BY <1>1, AtChanges
<1> HIDE DEF d
<1> QED BY <1>1, <1>2, <1>3 DEF d

\* A visit that goes to its next stage with the account it has read.
LEMMA VisitGoesWith ==
    ASSUME SessionsTypeOK, NEW v \in Visits, NEW where \in VisitStage, NEW user \in AccountRow,
           GoesWith(v, where, user)
    PROVE  /\ visit' \in [Visits -> VisitRecord] /\ \A w \in Visits \ {v} : visit'[w] = visit[w]
           /\ visit'[v].at = where /\ visit'[v].does = visit[v].does /\ visit'[v].token = visit[v].token
           /\ visit'[v].session = visit[v].session /\ visit'[v].user = user
           /\ visit'[v].crossed = visit[v].crossed
<1>1. visit \in [Visits -> VisitRecord] /\ visit[v] \in VisitRecord
  BY DEF SessionsTypeOK
<1> DEFINE d == [visit[v] EXCEPT !.at = where]
           e == [d EXCEPT !.user = user]
<1>2. visit' = [visit EXCEPT ![v] = e]
  BY <1>1 DEF GoesWith
<1>3. /\ d \in VisitRecord /\ d.at = where /\ d.does = visit[v].does /\ d.token = visit[v].token
      /\ d.session = visit[v].session /\ d.user = visit[v].user /\ d.crossed = visit[v].crossed
  BY <1>1, AtChanges
<1> HIDE DEF d
<1>4. /\ e \in VisitRecord /\ e.at = d.at /\ e.does = d.does /\ e.token = d.token
      /\ e.session = d.session /\ e.user = user /\ e.crossed = d.crossed
  BY <1>3, UserChanges
<1> HIDE DEF e
<1> QED BY <1>1, <1>2, <1>3, <1>4

\* A login copies the row; nobody else has the token it will give out.
LEMMA StartLoginStep ==
    ASSUME SessionsInv, NEW v \in Visits, StartLogin(v)
    PROVE  SessionsInv'
<1>0. SessionsTypeOK /\ visit \in [Visits -> VisitRecord] /\ account \in AccountRow
  BY DEF SessionsInv, SessionsTypeOK
<1>1. /\ visit[v] = NoVisit /\ tokens < MaxTokens /\ account.active /\ tokens' = tokens + 1
      /\ UNCHANGED <<account, changes, open, administrator, keptIn>>
  BY DEF StartLogin, Comes
<1>2. tokens' \in Tokens /\ tokens' \in 0 .. MaxTokens /\ tokens' > tokens /\ tokens \in Nat /\ tokens' # 0
  BY <1>0, <1>1 DEF SessionsTypeOK, Tokens
<1> DEFINE d == [NoVisit EXCEPT !.does = "login", !.token = tokens']
           m == [NoVisit EXCEPT !.does = "login", !.at = "open", !.token = tokens', !.user = account]
<1>3. m \in VisitRecord /\ m.at = "open" /\ m.does = "login" /\ m.token = tokens' /\ m.user = account
  <2>1. NoVisit \in VisitRecord
    BY NobodyIsOne
  <2> HIDE DEF NoVisit
  <2> QED BY <1>0, <1>2, <2>1 DEF VisitRecord, VisitStage
<1> HIDE DEF m
<1>4. /\ visit' \in [Visits -> VisitRecord] /\ visit'[v] = m
      /\ \A w \in Visits \ {v} : visit'[w] = visit[w]
  BY <1>0, <1>1, <1>3 DEF StartLogin, m
<1>5. SessionsTypeOK'
  BY <1>0, <1>1, <1>2, <1>4 DEF SessionsTypeOK
<1>6. account # NoAccount /\ account.updated = changes /\ changes >= 1
  BY <1>1, NobodyIsOne DEF SessionsInv, AccountIsTrue
<1>7. open'[tokens'] = NoSession
  BY <1>0, <1>1, <1>2 DEF SessionsInv, OpenIsTrue
<1>8. VisitIsTrue(visit'[v], open', changes', account', tokens')
  BY <1>0, <1>1, <1>2, <1>3, <1>4, <1>6, <1>7 DEF VisitIsTrue, RowFits, SessionsTypeOK
<1>9. \A w \in Visits : visit[w].token <= tokens /\ visit[w].token \in Nat
  BY <1>0, Knows DEF VisitIsTrue, SessionsTypeOK
<1>10. \A w \in Visits \ {v} : visit[w].token # visit'[v].token
  <2>1. visit'[v].token = tokens'
    BY <1>3, <1>4
  <2>2. ASSUME NEW w \in Visits PROVE visit[w].token # tokens'
    <3>1. visit[w].token <= tokens /\ visit[w].token \in Nat
      BY <1>9
    <3> HIDE DEF d, m
    <3> QED BY <3>1, <1>2
  <2> QED BY <2>1, <2>2
<1>11. \A t \in Tokens : open[t] # NoSession => SessionFits(open[t], changes, account)
  BY DEF SessionsInv, OpenIsTrue
<1>12. ASSUME NEW t \in keptIn' PROVE KeptIsTrue(t, visit', open', account')
  <2>1. t \in Tokens /\ KeptIsTrue(t, visit, open, account)
    BY <1>0, <1>1, <1>12 DEF SessionsInv, SessionsTypeOK
  <2>2. /\ ~UpdatesWith(visit[v], t) /\ ~UpdatesWith(visit'[v], t) /\ ~AsksWith(visit'[v], t)
    BY <1>1, <1>3, <1>4, NobodyIsOne DEF UpdatesWith, AsksWith
  <2> QED BY <1>1, <1>4, <2>1, <2>2, KeptStays DEF KeptIsTrue
<1>13. \A t \in Tokens : \/ open'[t] = NoSession
                         \/ /\ open[t] # NoSession /\ open'[t].password = open[t].password
                            /\ open[t].crossed => open'[t].crossed
                            /\ SessionFits(open'[t], changes', account')
  BY <1>1, <1>11
<1>14. RowGoesOn /\ tokens' >= tokens /\ visit'[v].token > tokens
  BY <1>1, <1>2, <1>3, <1>4 DEF RowGoesOn
<1> QED BY <1>4, <1>5, <1>8, <1>10, <1>12, <1>13, <1>14, VisitGoesOn

\* What SessionsInv says of the account and of the sessions.
LEMMA SessionsKnow ==
    ASSUME SessionsInv
    PROVE  /\ SessionsTypeOK /\ AccountIsTrue /\ account \in AccountRow /\ changes \in Nat /\ tokens \in Nat
           /\ \A t \in Tokens : /\ open[t] \in SessionRecord
                                /\ open[t] # NoSession => t <= tokens /\ SessionFits(open[t], changes, account)
           /\ \A t \in keptIn : t \in Tokens /\ KeptIsTrue(t, visit, open, account)
BY DEF SessionsInv, SessionsTypeOK, OpenIsTrue

\* A visit that ends leaves the promises to the others.
LEMMA VisitLeaves ==
    ASSUME SessionsInv, NEW v \in Visits, EndsVisit(v), SessionsTypeOK', RowGoesOn, UNCHANGED tokens,
           \A t \in Tokens :
              \/ open'[t] = NoSession
              \/ /\ open[t] # NoSession /\ open'[t].password = open[t].password
                 /\ open[t].crossed => open'[t].crossed
                 /\ SessionFits(open'[t], changes', account')
              \/ /\ t <= tokens' /\ SessionFits(open'[t], changes', account')
                 /\ \A w \in Visits \ {v} : visit[w].token # t,
           \A t \in keptIn' : KeptIsTrue(t, visit', open', account')
    PROVE  SessionsInv'
<1>1. /\ visit'[v] = NoVisit /\ \A w \in Visits \ {v} : visit'[w] = visit[w]
  BY VisitEnds DEF SessionsInv
<1>2. VisitIsTrue(visit'[v], open', changes', account', tokens')
  BY <1>1, NothingIsTrue DEF SessionsTypeOK
<1>3. visit'[v].token = 0 /\ visit'[v].at = "start"
  BY <1>1, NobodyIsOne
<1>4. tokens' >= tokens
  BY SessionsKnow
<1> QED BY <1>1, <1>2, <1>3, <1>4, VisitGoesOn

\* The session of a login is its alone.
LEMMA OpenSessionStep ==
    ASSUME SessionsInv, NEW v \in Visits, OpenSession(v)
    PROVE  SessionsInv'
<1> DEFINE new == [NoSession EXCEPT !.updated = visit[v].user.updated, !.password = visit[v].user.password]
           t0 == visit[v].token
<1>0. SessionsTypeOK /\ visit[v].user \in AccountRow /\ t0 \in Tokens /\ visit[v].at = "open"
  BY Knows DEF OpenSession, Stands
<1>1. /\ t0 <= tokens /\ open[t0] = NoSession /\ RowFits(visit[v].user, changes, account)
      /\ visit[v].user.updated >= 1
  <2>1. VisitIsTrue(visit[v], open, changes, account, tokens) /\ tokens \in Nat
    BY Knows, SessionsKnow
  <2>2. visit[v].token \in 0 .. tokens
    BY <2>1 DEF VisitIsTrue
  <2>3. t0 <= tokens
    BY <2>1, <2>2
  <2> QED BY <1>0, <2>1, <2>3 DEF VisitIsTrue
<1>2. new \in SessionRecord /\ new.updated = visit[v].user.updated /\ new.password = visit[v].user.password
  <2>1. NoSession \in SessionRecord
    BY NobodyIsOne
  <2> DEFINE u == visit[v].user.updated
             p == visit[v].user.password
  <2>2. u \in Nat /\ p \in Nat
    BY <1>0 DEF AccountRow
  <2> HIDE DEF NoSession, u, p
  <2>3. LET d == [NoSession EXCEPT !.updated = u, !.password = p] IN
        d \in SessionRecord /\ d.updated = u /\ d.password = p
    BY <2>1, <2>2 DEF SessionRecord
  <2> QED BY <2>3 DEF u, p
<1>3. PICK stays \in SUBSET Pruned :
         /\ open' = [t \in Tokens |-> IF t = t0 THEN new ELSE IF t \in stays THEN open[t] ELSE NoSession]
         /\ keptIn' = keptIn \cap stays
  BY DEF OpenSession, Tokens
<1>4. EndsVisit(v) /\ UNCHANGED <<account, changes, tokens, administrator>>
  BY DEF OpenSession
<1> HIDE DEF new, t0
<1>5. /\ open' \in [Tokens -> SessionRecord] /\ open'[t0] = new
      /\ \A t \in Tokens \ {t0} : open'[t] \in {open[t], NoSession}
      /\ \A t \in stays \cap Tokens : t # t0 => open'[t] = open[t]
  BY <1>0, <1>2, <1>3, NobodyIsOne DEF SessionsTypeOK
<1>6. visit' \in [Visits -> VisitRecord] /\ visit'[v] = NoVisit
      /\ \A w \in Visits \ {v} : visit'[w] = visit[w]
  BY <1>0, <1>4, VisitEnds
<1>7. SessionsTypeOK'
  BY <1>0, <1>3, <1>4, <1>5, <1>6 DEF SessionsTypeOK
<1>8. SessionFits(new, changes, account)
  BY <1>1, <1>2 DEF SessionFits, RowFits
<1>9. \A w \in Visits \ {v} : visit[w].token # t0
  BY <1>0 DEF SessionsInv, OpenersAreAlone, t0
<1>10. \A t \in Tokens :
          \/ open'[t] = NoSession
          \/ /\ open[t] # NoSession /\ open'[t].password = open[t].password
             /\ open[t].crossed => open'[t].crossed
             /\ SessionFits(open'[t], changes', account')
          \/ /\ t <= tokens' /\ SessionFits(open'[t], changes', account')
             /\ \A w \in Visits \ {v} : visit[w].token # t
  <2> SUFFICES ASSUME NEW t \in Tokens, open'[t] # NoSession
               PROVE  \/ /\ open[t] # NoSession /\ open'[t].password = open[t].password
                         /\ open[t].crossed => open'[t].crossed
                         /\ SessionFits(open'[t], changes', account')
                      \/ /\ t <= tokens' /\ SessionFits(open'[t], changes', account')
                         /\ \A w \in Visits \ {v} : visit[w].token # t
    OBVIOUS
  <2>1. CASE t = t0
    BY <1>1, <1>4, <1>5, <1>8, <1>9, <2>1 DEF t0
  <2>2. CASE t # t0
    <3>1. open'[t] = open[t] /\ open[t] # NoSession
      BY <1>5, <2>2
    <3> QED BY <1>4, <3>1, SessionsKnow
  <2> QED BY <2>1, <2>2
<1>11. ASSUME NEW t \in keptIn' PROVE KeptIsTrue(t, visit', open', account')
  <2>1. t \in Tokens /\ KeptIsTrue(t, visit, open, account) /\ t \in stays
    BY <1>3, <1>11, SessionsKnow
  <2>2. t # t0 /\ open'[t] = open[t] /\ open[t] # NoSession
    BY <1>1, <1>5, <2>1 DEF KeptIsTrue, t0
  <2>3. /\ ~UpdatesWith(visit[v], t) /\ ~UpdatesWith(visit'[v], t) /\ ~AsksWith(visit'[v], t)
    BY <1>0, <1>6, NobodyIsOne DEF UpdatesWith, AsksWith
  <2> QED BY <1>4, <1>6, <2>1, <2>2, <2>3, KeptStays
<1> QED BY <1>4, <1>7, <1>10, <1>11, VisitLeaves DEF RowGoesOn

\* A session is dropped, by age, a logout or an authentication that found it outdated.
LEMMA SessionGoes ==
    ASSUME SessionsInv, NEW t \in Tokens, open' = [open EXCEPT ![t] = NoSession],
           UNCHANGED <<account, changes, tokens>>
    PROVE  /\ open' \in [Tokens -> SessionRecord] /\ RowGoesOn
           /\ \A u \in Tokens : u # t => open'[u] = open[u]
           /\ \A u \in Tokens : \/ open'[u] = NoSession
                                \/ /\ open[u] # NoSession /\ open'[u].password = open[u].password
                                   /\ open[u].crossed => open'[u].crossed
                                   /\ open'[u].updated = open[u].updated
                                   /\ SessionFits(open'[u], changes', account')
<1>1. open \in [Tokens -> SessionRecord]
  BY DEF SessionsInv, SessionsTypeOK
<1>2. /\ open' \in [Tokens -> SessionRecord] /\ open'[t] = NoSession
      /\ \A u \in Tokens : u # t => open'[u] = open[u]
  BY <1>1, NobodyIsOne
<1>3. \A u \in Tokens : open[u] # NoSession => SessionFits(open[u], changes, account)
  BY SessionsKnow
<1> QED BY <1>2, <1>3 DEF RowGoesOn

\* Authentication takes a copy of the session.
LEMMA AskStep ==
    ASSUME SessionsInv, NEW v \in Visits, NEW t \in Tokens, NEW what \in Does, Ask(v, t, what)
    PROVE  SessionsInv'
<1>0. SessionsTypeOK /\ visit \in [Visits -> VisitRecord]
  BY DEF SessionsInv, SessionsTypeOK
<1>1. /\ visit[v] = NoVisit /\ open[t] # NoSession
      /\ UNCHANGED <<account, changes, tokens, administrator>>
  BY DEF Ask, Comes
<1>2. CASE WithoutSession(t) /\ UNCHANGED visit
  <2>1. open' = [open EXCEPT ![t] = NoSession] /\ keptIn' = keptIn \ {t}
    BY <1>2 DEF WithoutSession
  <2>2. SessionsTypeOK'
    BY <1>0, <1>1, <1>2, <2>1, SessionGoes DEF SessionsTypeOK
  <2>3. ASSUME NEW u \in keptIn' PROVE KeptIsTrue(u, visit', open', account')
    <3>1. u \in Tokens /\ u # t /\ KeptIsTrue(u, visit, open, account)
      BY <2>1, <2>3, SessionsKnow
    <3>2. open'[u] = open[u]
      BY <1>1, <2>1, <3>1, SessionGoes
    <3> QED BY <1>1, <1>2, <3>1, <3>2 DEF KeptIsTrue
  <2> QED BY <1>1, <1>2, <2>1, <2>2, <2>3, SessionGoes, VisitsRest
<1>3. CASE /\ visit' = [visit EXCEPT ![v] = [NoVisit EXCEPT !.does = what, !.at = "lookup",
                                                           !.token = t, !.session = open[t]]]
           /\ keptIn' = IF \E w \in Visits : Updates(w, t) THEN keptIn \ {t} ELSE keptIn
           /\ UNCHANGED open
  <2> DEFINE m == [NoVisit EXCEPT !.does = what, !.at = "lookup", !.token = t, !.session = open[t]]
  <2>1. open[t] \in SessionRecord /\ t <= tokens /\ SessionFits(open[t], changes, account)
    BY <1>1, SessionsKnow
  <2>2. m \in VisitRecord /\ m.at = "lookup" /\ m.does = what /\ m.token = t /\ m.session = open[t]
    <3>1. NoVisit \in VisitRecord
      BY NobodyIsOne
    <3> HIDE DEF NoVisit
    <3> QED BY <2>1, <3>1 DEF VisitRecord, VisitStage
  <2> HIDE DEF m
  <2>3. /\ visit' \in [Visits -> VisitRecord] /\ visit'[v] = m
        /\ \A w \in Visits \ {v} : visit'[w] = visit[w]
    BY <1>0, <1>3, <2>2 DEF m
  <2>4. SessionsTypeOK'
    BY <1>0, <1>1, <1>3, <2>3 DEF SessionsTypeOK
  <2>5. VisitIsTrue(visit'[v], open', changes', account', tokens')
    <3>1. t \in 0 .. tokens /\ t # 0 /\ t \in 0 .. tokens'
      BY <1>1, <2>1, SessionsKnow DEF Tokens
    <3> QED BY <1>1, <1>3, <2>1, <2>2, <2>3, <3>1 DEF VisitIsTrue
  <2>6. ASSUME NEW u \in keptIn' PROVE KeptIsTrue(u, visit', open', account')
    <3>1. u \in Tokens /\ KeptIsTrue(u, visit, open, account)
      BY <1>3, <2>6, SessionsKnow
    <3>2. ~UpdatesWith(visit[v], u) /\ ~UpdatesWith(visit'[v], u)
      BY <1>1, <2>2, <2>3, NobodyIsOne DEF UpdatesWith
    <3>3. AsksWith(visit'[v], u) => u = t /\ visit'[v].session.updated = open[u].updated
      BY <2>2, <2>3 DEF AsksWith
    <3>4. u = t => \A w \in Visits : ~UpdatesWith(visit[w], u)
      BY <1>3, <2>6 DEF Updates, UpdatesWith
    <3>5. open'[u] = open[u] /\ open[u] # NoSession
      BY <1>3, <3>1 DEF KeptIsTrue
    <3> QED BY <1>1, <2>3, <3>1, <3>2, <3>3, <3>4, <3>5, KeptStays
  <2>7. \A u \in Tokens : \/ open'[u] = NoSession
                          \/ /\ open[u] # NoSession /\ open'[u].password = open[u].password
                             /\ open[u].crossed => open'[u].crossed
                             /\ SessionFits(open'[u], changes', account')
    BY <1>1, <1>3, SessionsKnow
  <2>8. RowGoesOn /\ tokens' >= tokens /\ visit'[v].at # "open" /\ open[visit'[v].token] # NoSession
    BY <1>1, <2>2, <2>3, SessionsKnow DEF RowGoesOn
  <2> QED BY <2>3, <2>4, <2>5, <2>6, <2>7, <2>8, VisitGoesOn
<1> QED BY <1>2, <1>3 DEF Ask

\* The row is younger than the session, or the session's password is the row's.
LEMMA LookUpStep ==
    ASSUME SessionsInv, NEW v \in Visits, LookUp(v)
    PROVE  SessionsInv'
<1> DEFINE t == visit[v].token
           s == visit[v].session
<1>0. /\ SessionsTypeOK /\ visit \in [Visits -> VisitRecord] /\ t \in Tokens /\ s \in SessionRecord
      /\ VisitIsTrue(visit[v], open, changes, account, tokens) /\ visit[v].at = "lookup"
  BY Knows DEF SessionsTypeOK, LookUp, Stands
<1>1. UNCHANGED <<account, changes, tokens, administrator, keptIn>>
  BY DEF LookUp
<1>2. SessionFits(s, changes, account) /\ visit[v].does \in Does
  BY <1>0 DEF VisitIsTrue
<1>3. CASE Outdated(account, s) /\ open' = [open EXCEPT ![t] = NoSession] /\ EndsVisit(v)
  <2> HIDE DEF t, s
  <2>1. visit' \in [Visits -> VisitRecord] /\ visit'[v] = NoVisit
        /\ \A w \in Visits \ {v} : visit'[w] = visit[w]
    BY <1>0, <1>3, VisitEnds
  <2>2. SessionsTypeOK'
    BY <1>0, <1>1, <1>3, <2>1, SessionGoes DEF SessionsTypeOK
  <2>3. ASSUME NEW u \in keptIn' PROVE KeptIsTrue(u, visit', open', account')
    <3>1. u \in Tokens /\ KeptIsTrue(u, visit, open, account)
      BY <1>1, <2>3, SessionsKnow
    <3>2. u # t
      <4>1. u = t => AsksWith(visit[v], u)
        BY <1>0 DEF AsksWith, t
      <4>2. AsksWith(visit[v], u) => account.active /\ s.updated = account.updated
        BY <3>1 DEF KeptIsTrue, s, AsksWith, UpdatesWith
      <4>3. account.updated \in Nat
        BY <1>0 DEF SessionsTypeOK, AccountRow
      <4> QED BY <1>3, <4>1, <4>2, <4>3 DEF Outdated
    <3>3. open'[u] = open[u] /\ open[u] # NoSession
      BY <1>0, <1>1, <1>3, <3>1, <3>2, SessionGoes DEF KeptIsTrue
    <3>4. /\ ~UpdatesWith(visit[v], u) /\ ~UpdatesWith(visit'[v], u) /\ ~AsksWith(visit'[v], u)
      BY <1>0, <2>1, NobodyIsOne DEF UpdatesWith, AsksWith
    <3> QED BY <1>1, <2>1, <3>1, <3>3, <3>4, KeptStays
  <2> QED BY <1>0, <1>1, <1>3, <2>2, <2>3, SessionGoes, VisitLeaves
<1>4. CASE ~Outdated(account, s) /\ GoesWith(v, "store", account) /\ UNCHANGED open
  <2> HIDE DEF t, s
  <2>1. account \in AccountRow
    BY SessionsKnow
  <2>2. /\ visit' \in [Visits -> VisitRecord] /\ \A w \in Visits \ {v} : visit'[w] = visit[w]
        /\ visit'[v].at = "store" /\ visit'[v].does = visit[v].does /\ visit'[v].token = visit[v].token
        /\ visit'[v].session = visit[v].session /\ visit'[v].user = account
        /\ visit'[v].crossed = visit[v].crossed
    BY <1>0, <1>4, <2>1, VisitGoesWith DEF VisitStage
  <2>3. SessionsTypeOK'
    BY <1>0, <1>1, <1>4, <2>2 DEF SessionsTypeOK
  <2>4. account # NoAccount /\ account.updated = changes /\ s.updated = changes
    <3>1. account.active /\ ~(account.updated > s.updated)
      BY <1>4 DEF Outdated
    <3>2. account # NoAccount /\ account.updated = changes /\ changes \in Nat
      BY <3>1, NobodyIsOne, SessionsKnow DEF AccountIsTrue
    <3>3. s.updated <= changes /\ s.updated \in Nat
      BY <1>0, <1>2 DEF SessionFits, SessionRecord
    <3> QED BY <3>1, <3>2, <3>3
  <2>5. RowFits(account, changes, account)
    BY <2>4, SessionsKnow DEF RowFits
  <2>6. ~s.crossed => s.password = account.password
    BY <1>2, <2>4 DEF SessionFits
  <2>7. VisitIsTrue(visit'[v], open', changes', account', tokens')
    BY <1>0, <1>1, <1>2, <1>4, <2>2, <2>5, <2>6 DEF VisitIsTrue, s
  <2>8. ASSUME NEW u \in keptIn' PROVE KeptIsTrue(u, visit', open', account')
    <3>1. u \in Tokens /\ KeptIsTrue(u, visit, open, account)
      BY <1>1, <2>8, SessionsKnow
    <3>2. /\ ~UpdatesWith(visit[v], u) /\ ~UpdatesWith(visit'[v], u)
          /\ AsksWith(visit'[v], u) => AsksWith(visit[v], u)
      BY <1>0, <2>2 DEF UpdatesWith, AsksWith
    <3>3. open'[u] = open[u] /\ open[u] # NoSession
      BY <1>4, <3>1 DEF KeptIsTrue
    <3> QED BY <1>1, <2>2, <3>1, <3>2, <3>3, KeptStays
  <2>9. \A u \in Tokens : \/ open'[u] = NoSession
                          \/ /\ open[u] # NoSession /\ open'[u].password = open[u].password
                             /\ open[u].crossed => open'[u].crossed
                             /\ SessionFits(open'[u], changes', account')
    BY <1>1, <1>4, SessionsKnow
  <2>10. RowGoesOn /\ tokens' >= tokens /\ visit'[v].at # "open" /\ visit'[v].token = visit[v].token
    BY <1>1, <2>2, SessionsKnow DEF RowGoesOn
  <2> QED BY <2>2, <2>3, <2>7, <2>8, <2>9, <2>10, VisitGoesOn
<1> QED BY <1>3, <1>4 DEF LookUp

\* What comes after the authentication.
LEMMA HandledAs ==
    ASSUME SessionsTypeOK, NEW v \in Visits, visit[v].does \in Does, Handled(v)
    PROVE  /\ visit' \in [Visits -> VisitRecord] /\ \A w \in Visits \ {v} : visit'[w] = visit[w]
           /\ \/ visit'[v] = NoVisit
              \/ /\ visit'[v].at \in {"read", "verify", "logout"}
                 /\ visit'[v].at = "verify" => visit[v].does # "profile"
                 /\ visit'[v].does = visit[v].does /\ visit'[v].token = visit[v].token
                 /\ visit'[v].crossed = visit[v].crossed
                 /\ visit[v].does = "profile" => visit'[v].user = visit[v].user
<1>1. CASE EndsVisit(v)
  BY <1>1, VisitEnds
<1>2. CASE ~EndsVisit(v)
  <2> DEFINE q == visit[v]
             at == [profile |-> "read", password |-> "verify", logout |-> "logout"][q.does]
             user == IF q.does = "profile" THEN q.user ELSE NoAccount
             d1 == [q EXCEPT !.at = at]
             d2 == [d1 EXCEPT !.session = NoSession]
             d3 == [d2 EXCEPT !.user = user]
  <2>1. visit \in [Visits -> VisitRecord] /\ q \in VisitRecord /\ q.user \in AccountRow
    BY DEF SessionsTypeOK, VisitRecord
  <2>2. q.does \in {"profile", "password", "logout"}
    BY <1>2 DEF Handled, Does
  <2>3. at \in {"read", "verify", "logout"} /\ (at = "verify" => q.does # "profile") /\ at \in VisitStage
    BY <2>2 DEF VisitStage
  <2>4. user \in AccountRow /\ (q.does = "profile" => user = q.user)
    BY <2>1, NobodyIsOne
  <2>5. visit' = [visit EXCEPT ![v] = d3]
    BY <1>2, <2>1 DEF Handled
  <2> HIDE DEF q, at, user
  <2>6. /\ d1 \in VisitRecord /\ d1.at = at /\ d1.does = q.does /\ d1.token = q.token
        /\ d1.user = q.user /\ d1.crossed = q.crossed
    BY <2>1, <2>3, AtChanges
  <2> HIDE DEF d1
  <2>7. /\ d2 \in VisitRecord /\ d2.at = at /\ d2.does = q.does /\ d2.token = q.token
        /\ d2.user = q.user /\ d2.crossed = q.crossed
    BY <2>6, NobodyIsOne, SessionChanges
  <2> HIDE DEF d2
  <2>8. /\ d3 \in VisitRecord /\ d3.at = at /\ d3.does = q.does /\ d3.token = q.token
        /\ d3.user = user /\ d3.crossed = q.crossed
    BY <2>4, <2>7, UserChanges
  <2> HIDE DEF d3
  <2> QED BY <2>1, <2>3, <2>4, <2>5, <2>8 DEF q
<1> QED BY <1>1, <1>2

\* The copy goes back into the map, unless the session has ended.
LEMMA StoreSessionStep ==
    ASSUME SessionsInv, NEW v \in Visits, StoreSession(v)
    PROVE  SessionsInv'
<1> DEFINE q == visit[v]
           t == q.token
           s == q.session
           n == [s EXCEPT !.late = open[t].late, !.crossed = open[t].crossed]
<1>0. /\ SessionsTypeOK /\ q \in VisitRecord /\ t \in Tokens /\ s \in SessionRecord /\ q.at = "store"
      /\ VisitIsTrue(q, open, changes, account, tokens) /\ open[t] \in SessionRecord
      /\ open \in [Tokens -> SessionRecord]
  BY Knows DEF StoreSession, Stands, SessionsTypeOK
<1>1. /\ SessionFits(s, changes, account) /\ RowFits(q.user, changes, account) /\ q.does \in Does
      /\ ~s.crossed => s.password = q.user.password
      /\ open[t] # NoSession => s.password = open[t].password /\ (s.crossed => open[t].crossed)
      /\ t \in 0 .. tokens /\ t # 0
  BY <1>0 DEF VisitIsTrue
<1>2. /\ UNCHANGED <<account, changes, tokens, administrator, keptIn>> /\ Handled(v)
      /\ open' = IF open[t] = NoSession THEN open ELSE [open EXCEPT ![t] = n]
  BY DEF StoreSession
<1>3. n \in SessionRecord /\ n.late = open[t].late /\ n.crossed = open[t].crossed
      /\ n.updated = s.updated /\ n.password = s.password
  <2> DEFINE l == open[t].late
             c == open[t].crossed
             d == [s EXCEPT !.late = l]
  <2>1. l \in BOOLEAN /\ c \in BOOLEAN
    BY <1>0 DEF SessionRecord
  <2> HIDE DEF l, c, t, s
  <2>2. d \in SessionRecord /\ d.late = l /\ d.crossed = s.crossed /\ d.updated = s.updated /\ d.password = s.password
    BY <1>0, <2>1 DEF SessionRecord
  <2> HIDE DEF d
  <2>3. LET e == [d EXCEPT !.crossed = c] IN
        e \in SessionRecord /\ e.late = d.late /\ e.crossed = c /\ e.updated = d.updated /\ e.password = d.password
    BY <2>1, <2>2 DEF SessionRecord
  <2> QED BY <2>2, <2>3 DEF l, c, d
<1>4. /\ visit' \in [Visits -> VisitRecord] /\ \A w \in Visits \ {v} : visit'[w] = visit[w]
      /\ \/ visit'[v] = NoVisit
         \/ /\ visit'[v].at \in {"read", "verify", "logout"}
            /\ visit'[v].at = "verify" => q.does # "profile"
            /\ visit'[v].does = q.does /\ visit'[v].token = t /\ visit'[v].crossed = q.crossed
            /\ q.does = "profile" => visit'[v].user = q.user
  BY <1>0, <1>1, <1>2, HandledAs
<1> HIDE DEF n, s, t
<1>5. /\ open' \in [Tokens -> SessionRecord]
      /\ \A u \in Tokens : u # t => open'[u] = open[u]
      /\ open[t] = NoSession => open'[t] = NoSession
      /\ open[t] # NoSession => open'[t] = n
  BY <1>0, <1>2, <1>3
<1>6. SessionsTypeOK'
  BY <1>0, <1>2, <1>4, <1>5 DEF SessionsTypeOK
<1>7. SessionFits(n, changes, account) \/ open[t] = NoSession
  BY <1>1, <1>3 DEF SessionFits
<1>8. \A u \in Tokens : \/ open'[u] = NoSession
                        \/ /\ open[u] # NoSession /\ open'[u].password = open[u].password
                           /\ open[u].crossed => open'[u].crossed
                           /\ SessionFits(open'[u], changes', account')
  BY <1>1, <1>2, <1>3, <1>5, <1>7, SessionsKnow
<1>9. VisitIsTrue(visit'[v], open', changes', account', tokens')
  <2>1. CASE visit'[v] = NoVisit
    BY <2>1, <1>6, NothingIsTrue DEF SessionsTypeOK
  <2>2. CASE visit'[v] # NoVisit
    <3>1. visit'[v].does = "profile" /\ ~open'[t].crossed /\ open'[t] # NoSession =>
             visit'[v].user.password = open'[t].password
      BY <1>1, <1>3, <1>4, <1>5, <2>2
    <3> QED BY <1>1, <1>2, <1>4, <2>2, <3>1 DEF VisitIsTrue
  <2> QED BY <2>1, <2>2
<1>10. ASSUME NEW u \in keptIn' PROVE KeptIsTrue(u, visit', open', account')
  <2>1. u \in Tokens /\ KeptIsTrue(u, visit, open, account)
    BY <1>2, <1>10, SessionsKnow
  <2>2. /\ ~UpdatesWith(visit[v], u) /\ ~UpdatesWith(visit'[v], u) /\ ~AsksWith(visit'[v], u)
    BY <1>0, <1>4, NobodyIsOne DEF UpdatesWith, AsksWith
  <2>3. open'[u] # NoSession /\ open'[u].late = open[u].late /\ open'[u].updated = open[u].updated
    <3>1. CASE u # t
      BY <1>5, <2>1, <3>1 DEF KeptIsTrue
    <3>2. CASE u = t
      <4>1. AsksWith(visit[v], u)
        BY <1>0, <3>2 DEF AsksWith, t
      <4>2. s.updated = account.updated /\ open[u].updated = account.updated /\ open[u] # NoSession
        BY <2>1, <4>1 DEF KeptIsTrue, s, AsksWith, UpdatesWith
      <4>3. n.updated >= 1 /\ n # NoSession
        BY <1>1, <1>3, NobodyIsOne DEF SessionFits
      <4> QED BY <1>3, <1>5, <3>2, <4>2, <4>3
    <3> QED BY <3>1, <3>2
  <2> QED BY <1>2, <1>4, <2>1, <2>2, <2>3, KeptStays
<1>11. RowGoesOn /\ tokens' >= tokens /\ visit'[v].at # "open" /\ visit'[v].token \in {visit[v].token, 0}
  BY <1>2, <1>4, SessionsKnow, NobodyIsOne DEF RowGoesOn, t
<1> QED BY <1>4, <1>6, <1>8, <1>9, <1>10, <1>11, VisitGoesOn

\* A logout ends one session, and keeps nobody in by it.
LEMMA LogoutStep ==
    ASSUME SessionsInv, NEW v \in Visits, Logout(v)
    PROVE  SessionsInv'
<1> DEFINE t == visit[v].token
<1>0. SessionsTypeOK /\ visit[v].at = "logout" /\ t \in Tokens
  BY Knows DEF Logout, Stands
<1>1. /\ open' = [open EXCEPT ![t] = NoSession] /\ keptIn' = keptIn \ {t} /\ EndsVisit(v)
      /\ UNCHANGED <<account, changes, tokens, administrator>>
  BY DEF Logout, WithoutSession
<1> HIDE DEF t
<1>2. visit' \in [Visits -> VisitRecord] /\ visit'[v] = NoVisit
      /\ \A w \in Visits \ {v} : visit'[w] = visit[w]
  BY <1>0, <1>1, VisitEnds
<1>3. SessionsTypeOK'
  BY <1>0, <1>1, <1>2, SessionGoes DEF SessionsTypeOK
<1>4. ASSUME NEW u \in keptIn' PROVE KeptIsTrue(u, visit', open', account')
  <2>1. u \in Tokens /\ u # t /\ KeptIsTrue(u, visit, open, account)
    BY <1>1, <1>4, SessionsKnow
  <2>2. open'[u] = open[u] /\ open[u] # NoSession
    BY <1>0, <1>1, <2>1, SessionGoes DEF KeptIsTrue
  <2>3. /\ ~UpdatesWith(visit[v], u) /\ ~UpdatesWith(visit'[v], u) /\ ~AsksWith(visit'[v], u)
    BY <1>0, <1>2, NobodyIsOne DEF UpdatesWith, AsksWith
  <2> QED BY <1>1, <1>2, <2>1, <2>2, <2>3, KeptStays
<1> QED BY <1>0, <1>1, <1>3, <1>4, SessionGoes, VisitLeaves

\* A visit that goes on, or ends, and changes nothing else.
LEMMA OnlyVisitMoves ==
    ASSUME SessionsInv, NEW v \in Visits,
           UNCHANGED <<account, changes, open, tokens, administrator>>, keptIn' \subseteq keptIn,
           visit' \in [Visits -> VisitRecord], \A w \in Visits \ {v} : visit'[w] = visit[w],
           visit'[v].token \in {visit[v].token, 0}, visit'[v].at \notin {"open", "lookup", "store"},
           VisitIsTrue(visit'[v], open, changes, account, tokens),
           visit'[v].at \in {"reread", "refresh"} => visit[v].at \in {"reread", "refresh"},
           visit[v].at \in {"reread", "refresh"} /\ visit[v].token \in keptIn' =>
              /\ visit'[v].at \in {"reread", "refresh"} /\ visit'[v].token = visit[v].token
              /\ visit'[v].at = "refresh" => visit'[v].user.updated = account.updated
    PROVE  SessionsInv'
<1>1. SessionsTypeOK'
  BY DEF SessionsInv, SessionsTypeOK
<1>2. ASSUME NEW u \in keptIn' PROVE KeptIsTrue(u, visit', open', account')
  <2>1. u \in Tokens /\ KeptIsTrue(u, visit, open, account) /\ u # 0
    BY <1>2, SessionsKnow DEF Tokens
  <2>2. /\ UpdatesWith(visit[v], u) =>
              /\ UpdatesWith(visit'[v], u)
              /\ visit'[v].at = "refresh" => visit'[v].user.updated = account.updated
        /\ UpdatesWith(visit'[v], u) => UpdatesWith(visit[v], u)
        /\ ~AsksWith(visit'[v], u)
    BY <1>2, <2>1 DEF UpdatesWith, AsksWith
  <2> QED BY <2>1, <2>2, KeptStays DEF KeptIsTrue
<1>3. \A u \in Tokens : \/ open'[u] = NoSession
                        \/ /\ open[u] # NoSession /\ open'[u].password = open[u].password
                           /\ open[u].crossed => open'[u].crossed
                           /\ SessionFits(open'[u], changes', account')
  BY SessionsKnow
<1>4. RowGoesOn /\ tokens' >= tokens
  BY SessionsKnow DEF RowGoesOn
<1> QED BY <1>1, <1>2, <1>3, <1>4, VisitGoesOn

\* A visit that ends without touching a session or the account.
LEMMA VisitEndsAlone ==
    ASSUME SessionsInv, NEW v \in Visits, EndsVisit(v),
           UNCHANGED <<account, changes, open, tokens, administrator>>, keptIn' \subseteq keptIn,
           visit[v].at \in {"reread", "refresh"} => visit[v].token \notin keptIn'
    PROVE  SessionsInv'
<1>1. visit' \in [Visits -> VisitRecord] /\ visit'[v] = NoVisit
      /\ \A w \in Visits \ {v} : visit'[w] = visit[w]
  BY VisitEnds DEF SessionsInv
<1>2. VisitIsTrue(visit'[v], open, changes, account, tokens)
  BY <1>1, NothingIsTrue, SessionsKnow
<1> QED BY <1>1, <1>2, NobodyIsOne, OnlyVisitMoves

\* The password is verified against the row of now; the visit goes on or ends.
LEMMA VerifyStep ==
    ASSUME SessionsInv, NEW v \in Visits, Verify(v)
    PROVE  SessionsInv'
<1>0. /\ SessionsTypeOK /\ visit[v].at = "verify" /\ VisitIsTrue(visit[v], open, changes, account, tokens)
      /\ UNCHANGED <<account, changes, open, tokens, administrator, keptIn>>
  BY Knows DEF Verify, Stands
<1>1. CASE EndsVisit(v)
  BY <1>0, <1>1, VisitEndsAlone
<1>2. CASE Walks(v, "read")
  <2>1. /\ visit' \in [Visits -> VisitRecord] /\ \A w \in Visits \ {v} : visit'[w] = visit[w]
        /\ visit'[v].at = "read" /\ visit'[v].does = visit[v].does /\ visit'[v].token = visit[v].token
    BY <1>0, <1>2, VisitWalks DEF VisitStage
  <2>2. VisitIsTrue(visit'[v], open, changes, account, tokens)
    BY <1>0, <2>1 DEF VisitIsTrue
  <2> QED BY <1>0, <2>1, <2>2, OnlyVisitMoves
<1> QED BY <1>1, <1>2 DEF Verify

\* A request reads the row, and remembers whether a profile update met another change.
LEMMA ReadsStep ==
    ASSUME SessionsInv, NEW v \in Visits, NEW next \in {"save", "refresh"}, Reads(v, next),
           UNCHANGED <<account, changes, open, tokens, administrator, keptIn>>,
           \/ visit[v].at = "read" /\ next = "save"
           \/ visit[v].at = "reread" /\ next = "refresh"
    PROVE  SessionsInv'
<1> DEFINE q == visit[v]
           c == q.does = "profile" /\ (q.crossed \/ account.updated # q.user.updated)
           d1 == [q EXCEPT !.at = next]
           d2 == [d1 EXCEPT !.user = account]
           d3 == [d2 EXCEPT !.crossed = c]
<1>0. /\ SessionsTypeOK /\ q \in VisitRecord /\ VisitIsTrue(q, open, changes, account, tokens)
      /\ account \in AccountRow /\ AccountIsTrue /\ visit \in [Visits -> VisitRecord]
  BY Knows, SessionsKnow DEF SessionsTypeOK
<1>1. CASE account = NoAccount
  <2>1. EndsVisit(v)
    BY <1>1 DEF Reads
  <2>2. q.at \in {"reread", "refresh"} => q.token \notin keptIn
    BY <1>1, NobodyIsOne, SessionsKnow DEF KeptIsTrue
  <2> QED BY <2>1, <2>2, VisitEndsAlone
<1>2. CASE account # NoAccount
  <2>1. visit' = [visit EXCEPT ![v] = d3]
    BY <1>0, <1>2 DEF Reads
  <2>2. c \in BOOLEAN
    BY Zenon
  <2>e. next \in VisitStage
    BY DEF VisitStage
  <2> HIDE DEF q, c
  <2>3. /\ d1 \in VisitRecord /\ d1.at = next /\ d1.does = q.does /\ d1.token = q.token
        /\ d1.user = q.user /\ d1.crossed = q.crossed
    BY <1>0, <2>e, AtChanges
  <2> HIDE DEF d1
  <2>4. /\ d2 \in VisitRecord /\ d2.at = next /\ d2.does = q.does /\ d2.token = q.token
        /\ d2.user = account /\ d2.crossed = q.crossed
    BY <1>0, <2>3, UserChanges
  <2> HIDE DEF d2
  <2>5. /\ d3 \in VisitRecord /\ d3.at = next /\ d3.does = q.does /\ d3.token = q.token
        /\ d3.user = account /\ d3.crossed = c
    BY <2>2, <2>4, CrossedChanges
  <2> HIDE DEF d3
  <2>6. /\ visit' \in [Visits -> VisitRecord] /\ \A w \in Visits \ {v} : visit'[w] = visit[w]
        /\ visit'[v] = d3
    BY <1>0, <2>1, <2>5
  <2>7. account.updated = changes /\ changes >= 1
    BY <1>0, <1>2 DEF AccountIsTrue
  <2>8. RowFits(account, changes, account)
    BY <2>7, SessionsKnow DEF RowFits
  <2>9. q.does = "profile" /\ ~c => q.user.password = account.password /\ ~q.crossed
    <3>1. q.at \in {"read", "reread"}
      BY DEF q
    <3>2. q.does = "profile" => RowFits(q.user, changes, account)
      BY <1>0, <3>1 DEF VisitIsTrue
    <3> QED BY <1>2, <2>7, <3>2 DEF RowFits, c
  <2>10. VisitIsTrue(d3, open, changes, account, tokens)
    <3>1. q.at \in {"read", "reread"} /\ (q.at = "reread" <=> next = "refresh")
      BY DEF q
    <3>2. /\ q.token \in 0 .. tokens /\ q.token # 0 /\ (next = "refresh" => q.does = "profile")
          /\ q.does = "profile" /\ ~q.crossed /\ open[q.token] # NoSession /\ ~open[q.token].crossed =>
                q.user.password = open[q.token].password
      BY <1>0, <3>1 DEF VisitIsTrue
    <3> QED BY <2>5, <2>7, <2>8, <2>9, <3>2 DEF VisitIsTrue
  <2> QED BY <2>5, <2>6, <2>10, OnlyVisitMoves DEF q
<1> QED BY <1>1, <1>2

\* Reading the account, before or after a profile is saved, copies the row of now.
LEMMA ReadUserStep ==
    ASSUME SessionsInv, NEW v \in Visits, ReadUser(v) \/ ReadSaved(v)
    PROVE  SessionsInv'
BY ReadsStep DEF ReadUser, ReadSaved, Stands

\* A row that is saved is the user's with the next updated_at.
LEMMA RowWritten ==
    ASSUME NEW user \in AccountRow, NEW keeps, changes \in Nat, SaveUser(user, keeps)
    PROVE  /\ account' \in AccountRow /\ account'.active = user.active
           /\ account'.password = user.password /\ account'.updated = changes'
           /\ changes' = changes + 1 /\ changes' \in Nat /\ RowGoesOn /\ keptIn' = keeps
<1>1. changes' = changes + 1 /\ changes' \in Nat /\ keptIn' = keeps
      /\ account' = [user EXCEPT !.updated = changes']
  BY DEF SaveUser
<1> DEFINE last == changes'
<1>2. last \in Nat /\ account' = [user EXCEPT !.updated = last]
  BY <1>1
<1> HIDE DEF last
<1>3. /\ account' \in AccountRow /\ account'.active = user.active
      /\ account'.password = user.password /\ account'.updated = last
  BY <1>2 DEF AccountRow
<1> QED BY <1>1, <1>3 DEF RowGoesOn, last

\* The row of an account with another password.
LEMMA PasswordChanges ==
    ASSUME NEW user \in AccountRow, NEW password \in Nat
    PROVE  LET d == [user EXCEPT !.password = password] IN
           d \in AccountRow /\ d.password = password /\ d.active = user.active
BY DEF AccountRow

\* The row of an account that is made active or not.
LEMMA ActiveChanges ==
    ASSUME NEW user \in AccountRow, NEW active \in BOOLEAN
    PROVE  LET d == [user EXCEPT !.active = active] IN
           d \in AccountRow /\ d.password = user.password /\ d.active = active
BY DEF AccountRow

\* The sessions are as they were while the row is written or goes.
LEMMA SessionsAsBefore ==
    ASSUME SessionsInv, RowGoesOn, UNCHANGED open
    PROVE  \A t \in Tokens : \/ open'[t] = NoSession
                             \/ /\ open[t] # NoSession /\ open'[t].password = open[t].password
                                /\ open[t].crossed => open'[t].crossed
                                /\ SessionFits(open'[t], changes', account')
BY SessionsKnow, FitStays

\* A profile that is saved keeps its session, unless the session is asked for meanwhile.
LEMMA SaveOwnStep ==
    ASSUME SessionsInv, NEW v \in Visits, SaveOwn(v)
    PROVE  SessionsInv'
<1> DEFINE q == visit[v]
           t == q.token
           profile == q.does = "profile"
           alone == \A w \in Visits \ {v} : ~Authenticates(w, t) /\ ~Updates(w, t)
           user == IF profile THEN q.user ELSE [q.user EXCEPT !.password = changes + 1]
           keeps == IF profile /\ user.active /\ alone THEN {t} \cap Pruned ELSE {}
<1>0. /\ SessionsTypeOK /\ q.at = "save" /\ t \in Tokens /\ q.user \in AccountRow /\ q \in VisitRecord
      /\ VisitIsTrue(q, open, changes, account, tokens) /\ changes \in Nat
  BY Knows, SessionsKnow DEF SaveOwn, Stands
<1>1. /\ SaveUser(user, keeps)
      /\ IF profile THEN GoesWith(v, "reread", account') ELSE GoesWith(v, "logout", NoAccount)
      /\ UNCHANGED <<open, tokens, administrator>>
  BY DEF SaveOwn
<1>2. user \in AccountRow /\ (profile => user = q.user)
  <2>1. changes + 1 \in Nat
    BY <1>0
  <2> DEFINE n == changes + 1
  <2> HIDE DEF n, q, profile
  <2>2. [q.user EXCEPT !.password = n] \in AccountRow
    BY <1>0, <2>1, PasswordChanges DEF n
  <2> QED BY <1>0, <2>2 DEF n
<1> HIDE DEF user, keeps
<1>3. /\ account' \in AccountRow /\ account'.active = user.active
      /\ account'.password = user.password /\ account'.updated = changes'
      /\ changes' = changes + 1 /\ changes' \in Nat /\ RowGoesOn /\ keptIn' = keeps
  BY <1>0, <1>1, <1>2, RowWritten
<1>4. CASE profile
  <2>0. GoesWith(v, "reread", account')
    BY <1>1, <1>4
  <2>1. /\ visit' \in [Visits -> VisitRecord] /\ \A w \in Visits \ {v} : visit'[w] = visit[w]
        /\ visit'[v].at = "reread" /\ visit'[v].does = q.does /\ visit'[v].token = t
        /\ visit'[v].user = account' /\ visit'[v].crossed = q.crossed
    <3>1. "reread" \in VisitStage
      BY DEF VisitStage
    <3> QED BY <1>0, <1>3, <2>0, <3>1, VisitGoesWith
  <2>2. SessionsTypeOK'
    <3>1. keeps \subseteq Tokens
      BY <1>0 DEF keeps
    <3> QED BY <1>0, <1>1, <1>3, <2>1, <3>1 DEF SessionsTypeOK
  <2>3. VisitIsTrue(visit'[v], open', changes', account', tokens')
    <3>1. /\ t \in 0 .. tokens /\ t # 0
          /\ ~q.crossed /\ open[t] # NoSession /\ ~open[t].crossed => q.user.password = open[t].password
      BY <1>0, <1>4 DEF VisitIsTrue
    <3>2. account'.updated >= 1 /\ RowFits(account', changes', account')
      BY <1>0, <1>3 DEF RowFits
    <3>3. account'.password = q.user.password
      BY <1>2, <1>3, <1>4
    <3> QED BY <1>1, <1>4, <2>1, <3>1, <3>2, <3>3 DEF VisitIsTrue
  <2>4. ASSUME NEW u \in keptIn' PROVE KeptIsTrue(u, visit', open', account')
    <3>1. u = t /\ t \in Pruned /\ user.active /\ alone
      BY <1>3, <2>4 DEF keeps
    <3>2. open'[t] # NoSession /\ ~open'[t].late /\ account'.active
      BY <1>1, <1>3, <3>1 DEF Pruned, Opened
    <3>3. \A w \in Visits \ {v} : ~AsksWith(visit'[w], t) /\ ~UpdatesWith(visit'[w], t)
      BY <2>1, <3>1 DEF Authenticates, Updates, AsksWith, UpdatesWith
    <3>4. UpdatesWith(visit'[v], t) /\ visit'[v].at # "refresh"
      BY <2>1 DEF UpdatesWith
    <3> QED BY <3>1, <3>2, <3>3, <3>4 DEF KeptIsTrue
  <2>5. tokens' >= tokens /\ visit'[v].at # "open" /\ visit'[v].token = visit[v].token
    BY <1>1, <2>1, SessionsKnow
  <2> QED BY <1>1, <1>3, <2>1, <2>2, <2>3, <2>4, <2>5, SessionsAsBefore, VisitGoesOn
<1>5. CASE ~profile
  <2>0. GoesWith(v, "logout", NoAccount)
    BY <1>1, <1>5
  <2>1. /\ visit' \in [Visits -> VisitRecord] /\ \A w \in Visits \ {v} : visit'[w] = visit[w]
        /\ visit'[v].at = "logout" /\ visit'[v].does = q.does /\ visit'[v].token = t
    <3>1. "logout" \in VisitStage /\ NoAccount \in AccountRow
      BY NobodyIsOne DEF VisitStage
    <3> QED BY <1>0, <1>3, <2>0, <3>1, VisitGoesWith
  <2>2. keptIn' = {} /\ SessionsTypeOK'
    <3>1. keeps = {}
      BY <1>5 DEF keeps
    <3> QED BY <1>0, <1>1, <1>3, <2>1, <3>1 DEF SessionsTypeOK
  <2>3. VisitIsTrue(visit'[v], open', changes', account', tokens')
    <3>1. t \in 0 .. tokens /\ t # 0
      BY <1>0 DEF VisitIsTrue
    <3> QED BY <1>1, <1>5, <2>1, <3>1 DEF VisitIsTrue
  <2>5. tokens' >= tokens /\ visit'[v].at # "open" /\ visit'[v].token = visit[v].token
    BY <1>1, <2>1, SessionsKnow
  <2> QED BY <1>1, <1>3, <2>1, <2>2, <2>3, <2>5, SessionsAsBefore, VisitGoesOn
<1> QED BY <1>4, <1>5

\* The refresh takes over the updated_at of the row that was read again.
LEMMA RefreshSessionStep ==
    ASSUME SessionsInv, NEW v \in Visits, RefreshSession(v)
    PROVE  SessionsInv'
<1> DEFINE q == visit[v]
           t == q.token
<1>0. /\ SessionsTypeOK /\ q.at = "refresh" /\ t \in Tokens /\ q.user \in AccountRow /\ q \in VisitRecord
      /\ VisitIsTrue(q, open, changes, account, tokens)
  BY Knows DEF RefreshSession, Stands
<1>1. /\ open' = IF t \in Pruned THEN [open EXCEPT ![t].updated = q.user.updated, ![t].crossed = @ \/ q.crossed]
                 ELSE open
      /\ EndsVisit(v) /\ UNCHANGED <<account, changes, tokens, administrator, keptIn>>
  BY DEF RefreshSession
<1>2. /\ q.does = "profile" /\ q.user.updated >= 1 /\ RowFits(q.user, changes, account)
      /\ ~q.crossed /\ open[t] # NoSession /\ ~open[t].crossed => q.user.password = open[t].password
  BY <1>0 DEF VisitIsTrue
<1>3. UpdatesWith(q, t)
  BY <1>0 DEF UpdatesWith
<1>4. CASE t \notin Pruned
  <2>1. t \notin keptIn
    BY <1>0, <1>4, SessionsKnow DEF KeptIsTrue, Pruned, Opened, Tokens
  <2> QED BY <1>1, <1>4, <2>1, VisitEndsAlone
<1>5. CASE t \in Pruned
  <2> DEFINE s == open[t]
             n == q.user.updated
             c == s.crossed \/ q.crossed
             d1 == [s EXCEPT !.updated = n]
             d2 == [d1 EXCEPT !.crossed = c]
  <2>1. s \in SessionRecord /\ s # NoSession /\ t <= tokens /\ n \in Nat
    BY <1>0, <1>5, SessionsKnow DEF Pruned, Opened, AccountRow
  <2>2. c \in BOOLEAN
    BY Zenon
  <2>3. open' = [open EXCEPT ![t] = d2] /\ open \in [Tokens -> SessionRecord]
    BY <1>0, <1>1, <1>5 DEF SessionsTypeOK
  <2> HIDE DEF s, n, c
  <2>4. d1 \in SessionRecord /\ d1.updated = n /\ d1.password = s.password /\ d1.late = s.late
    BY <2>1 DEF SessionRecord
  <2> HIDE DEF d1
  <2>5. /\ d2 \in SessionRecord /\ d2.updated = n /\ d2.password = s.password /\ d2.late = s.late
        /\ d2.crossed = c
    BY <2>2, <2>4 DEF SessionRecord
  <2> HIDE DEF d2
  <2>6. /\ open' \in [Tokens -> SessionRecord] /\ open'[t] = d2
        /\ \A u \in Tokens : u # t => open'[u] = open[u]
    BY <1>0, <2>3, <2>5
  <2>7. SessionFits(d2, changes', account')
    BY <1>1, <1>2, <2>1, <2>5 DEF SessionFits, RowFits, s, c, n
  <2>8. /\ visit' \in [Visits -> VisitRecord] /\ visit'[v] = NoVisit
        /\ \A w \in Visits \ {v} : visit'[w] = visit[w]
    BY <1>0, <1>1, VisitEnds
  <2>9. SessionsTypeOK' /\ RowGoesOn
    BY <1>0, <1>1, <2>6, <2>8 DEF SessionsTypeOK, RowGoesOn
  <2>10. \A u \in Tokens : \/ open'[u] = NoSession
                           \/ /\ open[u] # NoSession /\ open'[u].password = open[u].password
                              /\ open[u].crossed => open'[u].crossed
                              /\ SessionFits(open'[u], changes', account')
    <3> SUFFICES ASSUME NEW u \in Tokens, open'[u] # NoSession
                 PROVE  /\ open[u] # NoSession /\ open'[u].password = open[u].password
                        /\ open[u].crossed => open'[u].crossed
                        /\ SessionFits(open'[u], changes', account')
      OBVIOUS
    <3>1. CASE u = t
      BY <2>1, <2>5, <2>6, <2>7, <3>1 DEF s, c
    <3>2. CASE u # t
      BY <1>1, <2>6, <3>2, SessionsKnow
    <3> QED BY <3>1, <3>2
  <2>11. ASSUME NEW u \in keptIn' PROVE KeptIsTrue(u, visit', open', account')
    <3>1. u \in Tokens /\ KeptIsTrue(u, visit, open, account)
      BY <1>1, <2>11, SessionsKnow
    <3>2. ~AsksWith(visit'[v], u) /\ ~UpdatesWith(visit'[v], u)
      BY <2>8, NobodyIsOne DEF AsksWith, UpdatesWith
    <3>3. CASE u = t
      <4>1. n = account.updated /\ \A w \in Visits \ {v} : ~AsksWith(visit[w], t) /\ ~UpdatesWith(visit[w], t)
        BY <1>0, <1>3, <3>1, <3>3 DEF KeptIsTrue, n
      <4>2. \A w \in Visits : ~AsksWith(visit'[w], t) /\ ~UpdatesWith(visit'[w], t)
        BY <2>8, <3>2, <3>3, <4>1
      <4>3. open'[t] # NoSession
        BY <1>2, <2>5, <2>6, NobodyIsOne DEF n
      <4>4. ~open'[t].late /\ account'.active /\ open'[t].updated = account'.updated
        BY <1>1, <2>5, <2>6, <3>1, <3>3, <4>1 DEF KeptIsTrue, s
      <4> QED BY <3>3, <4>2, <4>3, <4>4 DEF KeptIsTrue
    <3>4. CASE u # t
      <4>1. ~UpdatesWith(visit[v], u)
        BY <3>4 DEF UpdatesWith
      <4>2. open'[u] = open[u] /\ open[u] # NoSession
        BY <2>6, <3>1, <3>4 DEF KeptIsTrue
      <4> QED BY <1>1, <2>8, <3>1, <3>2, <4>1, <4>2, KeptStays
    <3> QED BY <3>3, <3>4
  <2> QED BY <1>1, <2>9, <2>10, <2>11, VisitLeaves
<1> QED BY <1>4, <1>5

\* A failed statement ends the visit, a save of its own having taken effect or not.
LEMMA StatementFailsStep ==
    ASSUME SessionsInv, NEW v \in Visits, StatementFails(v)
    PROVE  SessionsInv'
<1>0. /\ SessionsTypeOK /\ visit[v].user \in AccountRow /\ changes \in Nat
      /\ EndsVisit(v) /\ UNCHANGED <<open, tokens, administrator>>
      /\ visit[v].at \in {"lookup", "verify", "read", "save", "reread"}
  BY Knows, SessionsKnow DEF StatementFails
<1>1. CASE visit[v].at = "save" /\ SaveUser(visit[v].user, {})
  <2>1. /\ account' \in AccountRow /\ changes' \in Nat /\ RowGoesOn /\ keptIn' = {}
    BY <1>0, <1>1, RowWritten
  <2>2. SessionsTypeOK'
    BY <1>0, <2>1, VisitEnds DEF SessionsTypeOK
  <2> QED BY <1>0, <2>1, <2>2, SessionsAsBefore, VisitLeaves
<1>2. CASE visit[v].at = "save" /\ UNCHANGED <<account, changes, keptIn>>
  BY <1>0, <1>2, VisitEndsAlone
<1>3. CASE visit[v].at # "save"
  <2>1. UNCHANGED <<account, changes>> /\ keptIn' = keptIn \ {visit[v].token}
    BY <1>3 DEF StatementFails, Stands
  <2> QED BY <1>0, <2>1, VisitEndsAlone
<1> QED BY <1>1, <1>2, <1>3 DEF StatementFails, Stands

\* What the administrator has read is a row of the past from then on.
LEMMA AdminReadsStep ==
    ASSUME SessionsInv, AdminReads
    PROVE  SessionsInv'
<1>1. administrator' = [saves |-> TRUE, user |-> account]
      /\ UNCHANGED <<account, changes, open, tokens, visit, keptIn>>
  BY DEF AdminReads
<1>2. SessionsTypeOK' /\ RowGoesOn
  BY <1>1, NobodyIsOne, SessionsKnow DEF SessionsTypeOK, RowGoesOn
<1>3. \A t \in keptIn' : KeptIsTrue(t, visit', open', account')
  BY <1>1, SessionsKnow
<1> QED BY <1>1, <1>2, <1>3, VisitsRest

\* A row that an administrator writes is the youngest, and its password fits it.
LEMMA AdminSavesStep ==
    ASSUME SessionsInv, NEW active \in BOOLEAN, NEW password \in BOOLEAN, AdminSaves(active, password)
    PROVE  SessionsInv'
<1> DEFINE u == administrator.user
           n == IF password THEN changes + 1 ELSE u.password
           e == [u EXCEPT !.active = active]
           d == [e EXCEPT !.password = n]
<1>0. SessionsTypeOK /\ changes \in Nat /\ u \in AccountRow
  BY SessionsKnow DEF SessionsTypeOK
<1>1. /\ SaveUser(d, {})
      /\ administrator' = [saves |-> FALSE, user |-> NoAccount]
      /\ UNCHANGED <<open, tokens, visit>>
  BY <1>0 DEF AdminSaves, AccountRow
<1>2. n \in Nat
  BY <1>0 DEF AccountRow
<1> HIDE DEF n, u
<1>3. e \in AccountRow
  BY <1>0, ActiveChanges
<1> HIDE DEF e
<1>4. d \in AccountRow
  BY <1>2, <1>3, PasswordChanges
<1> HIDE DEF d
<1>5. account' \in AccountRow /\ changes' \in Nat /\ RowGoesOn /\ keptIn' = {}
  BY <1>0, <1>1, <1>4, RowWritten
<1>6. SessionsTypeOK'
  BY <1>0, <1>1, <1>5, NobodyIsOne DEF SessionsTypeOK
<1> QED BY <1>1, <1>5, <1>6, VisitsRest

\* Without an account no session is claimed to be kept.
LEMMA AdminDeletesStep ==
    ASSUME SessionsInv, AdminDeletes
    PROVE  SessionsInv'
<1>1. account' = NoAccount /\ keptIn' = {} /\ UNCHANGED <<changes, open, tokens, visit, administrator>>
  BY DEF AdminDeletes
<1>2. SessionsTypeOK' /\ RowGoesOn
  BY <1>1, NobodyIsOne, SessionsKnow DEF SessionsTypeOK, RowGoesOn
<1> QED BY <1>1, <1>2, VisitsRest

\* A session that is late is kept no longer.
LEMMA RunsOutStep ==
    ASSUME SessionsInv, NEW t \in Tokens, RunsOut(t)
    PROVE  SessionsInv'
<1> DEFINE s == open[t]
           d == [s EXCEPT !.late = TRUE]
<1>1. /\ t \in Pruned /\ open' = [open EXCEPT ![t] = d] /\ keptIn' = keptIn \ {t}
      /\ UNCHANGED <<account, changes, tokens, visit, administrator>>
      /\ SessionsTypeOK /\ open \in [Tokens -> SessionRecord]
  BY SessionsKnow DEF RunsOut, SessionsTypeOK
<1>2. s \in SessionRecord /\ s # NoSession
  BY <1>1 DEF Pruned, Opened
<1> HIDE DEF s
<1>3. /\ d \in SessionRecord /\ d.updated = s.updated /\ d.password = s.password /\ d.crossed = s.crossed
  BY <1>2, NobodyIsOne DEF SessionRecord
<1> HIDE DEF d
<1>4. /\ open' \in [Tokens -> SessionRecord] /\ open'[t] = d /\ \A u \in Tokens : u # t => open'[u] = open[u]
  BY <1>1, <1>3
<1>5. SessionsTypeOK' /\ RowGoesOn
  BY <1>1, <1>4 DEF SessionsTypeOK, RowGoesOn
<1>6. \A u \in Tokens : \/ open'[u] = NoSession
                        \/ /\ open[u] # NoSession /\ open'[u].password = open[u].password
                           /\ open[u].crossed => open'[u].crossed
                           /\ open'[u].updated = open[u].updated
  BY <1>2, <1>3, <1>4 DEF s
<1>7. ASSUME NEW u \in keptIn' PROVE KeptIsTrue(u, visit', open', account')
  <2>1. u # t /\ u \in Tokens /\ KeptIsTrue(u, visit, open, account)
    BY <1>1, <1>7, SessionsKnow
  <2>2. open'[u] = open[u]
    BY <1>4, <2>1
  <2> QED BY <1>1, <2>1, <2>2 DEF KeptIsTrue
<1> QED BY <1>1, <1>5, <1>6, <1>7, VisitsRest

\* One account and no session at the start.
LEMMA SessionsInitially ==
    ASSUME SessionsInit
    PROVE  SessionsInv
<1>1. [active |-> TRUE, password |-> 1, updated |-> 1] \in AccountRow
      /\ [saves |-> FALSE, user |-> NoAccount] \in [saves : BOOLEAN, user : AccountRow]
  BY NobodyIsOne DEF AccountRow
<1>2. SessionsTypeOK
  BY <1>1, NobodyIsOne DEF SessionsInit, SessionsTypeOK, Tokens
<1>3. AccountIsTrue
  BY DEF SessionsInit, AccountIsTrue
<1>4. \A t \in Tokens : open[t] = NoSession
  BY DEF SessionsInit, Tokens
<1>5. \A v \in Visits : visit[v] = NoVisit
  BY DEF SessionsInit
<1>6. OpenersAreAlone
  BY <1>5, NobodyIsOne DEF OpenersAreAlone
<1>7. \A v \in Visits : VisitIsTrue(visit[v], open, changes, account, tokens)
  BY <1>2, <1>5, NothingIsTrue DEF SessionsTypeOK
<1>8. keptIn = {}
  BY DEF SessionsInit
<1> QED BY <1>2, <1>3, <1>4, <1>6, <1>7, <1>8 DEF SessionsInv, OpenIsTrue

\* Every step keeps SessionsInv.
LEMMA SessionsStep ==
    ASSUME SessionsInv, [SessionsNext]_sessionVars
    PROVE  SessionsInv'
<1>1. ASSUME NEW v \in Visits, Visit(v) PROVE SessionsInv'
  <2>1. ASSUME NEW t \in 1 .. MaxTokens, NEW what \in Does, Ask(v, t, what) PROVE SessionsInv'
    BY <2>1, AskStep DEF Tokens
  <2> QED BY <1>1, <2>1, StartLoginStep, OpenSessionStep, LookUpStep, StoreSessionStep, LogoutStep,
             VerifyStep, ReadUserStep, SaveOwnStep, RefreshSessionStep, StatementFailsStep DEF Visit
<1>2. ASSUME NEW t \in 1 .. MaxTokens, RunsOut(t) PROVE SessionsInv'
  BY <1>2, RunsOutStep DEF Tokens
<1>3. CASE UNCHANGED sessionVars
  BY <1>3 DEF sessionVars, SessionsInv, SessionsTypeOK, AccountIsTrue, OpenIsTrue, OpenersAreAlone
<1> QED BY <1>1, <1>2, <1>3, AdminReadsStep, AdminSavesStep, AdminDeletesStep DEF SessionsNext

\* SessionsInv holds of every behaviour, for any number of visitors, tokens and changes.
THEOREM SessionsInvariant == SessionsSpec => []SessionsInv
<1>1. SessionsInit => SessionsInv
  BY SessionsInitially
<1>2. SessionsInv /\ [SessionsNext]_sessionVars => SessionsInv'
  BY SessionsStep
<1> QED BY <1>1, <1>2, PTL DEF SessionsSpec

\* SessionsInv implies the property.
LEMMA SessionsAreGood ==
    ASSUME SessionsInv
    PROVE  SessionsFollowAccount
<1>1. ASSUME NEW t \in keptIn
      PROVE  open[t].updated = account.updated \/ \E v \in Visits : Updates(v, t)
  BY SessionsKnow DEF KeptIsTrue, UpdatesWith, Updates
<1>2. ASSUME NEW v \in Visits, visit[v].at = "store", ~visit[v].session.crossed
      PROVE  visit[v].session.password = visit[v].user.password
  BY <1>2, Knows DEF VisitIsTrue
<1> QED BY <1>1, <1>2 DEF SessionsFollowAccount, ProfileUpdateKeepsSession, PasswordChangeEndsSessions, Stands

\* A profile update keeps its caller signed in and a new password ends the sessions of the old one
\* (internal/auth/service.go, Authenticate and RefreshCurrentSession), for any number of requests,
\* tokens and changes; a session that another request authenticated during the update, or whose
\* profile update met another change, is left out.
THEOREM SessionsFollowAccountHolds == SessionsSpec => []SessionsFollowAccount
BY SessionsInvariant, SessionsAreGood, PTL

\* A token without a session gets one only from the login that issued it.
LEMMA EndedStay ==
    ASSUME SessionsInv, [SessionsNext]_sessionVars
    PROVE  [\A t \in 1 .. tokens : open[t] = NoSession /\ open'[t] # NoSession
              => \E v \in Visits : Stands(v, "open") /\ visit[v].token = t]_sessionVars
<1> SUFFICES ASSUME NEW t \in Tokens, open[t] = NoSession, open'[t] # NoSession
             PROVE  \E v \in Visits : Stands(v, "open") /\ visit[v].token = t
  BY SessionsKnow DEF Tokens, SessionsTypeOK
<1>0. open \in [Tokens -> SessionRecord]
  BY SessionsKnow DEF SessionsTypeOK
<1>1. ASSUME NEW v \in Visits, OpenSession(v) PROVE Stands(v, "open") /\ visit[v].token = t
  BY <1>1 DEF OpenSession, Pruned, Opened, Tokens
<1>2. ASSUME NEW v \in Visits, Visit(v), ~OpenSession(v) PROVE FALSE
  <2>1. ASSUME NEW u \in 1 .. MaxTokens, NEW what \in Does, Ask(v, u, what) PROVE FALSE
    BY <1>0, <2>1 DEF Ask, WithoutSession
  <2>2. ASSUME UNCHANGED open PROVE FALSE
    BY <2>2
  <2>3. CASE LookUp(v)
    BY <1>0, <2>3 DEF LookUp
  <2>4. CASE StoreSession(v)
    BY <1>0, <2>4 DEF StoreSession
  <2>5. CASE Logout(v)
    BY <1>0, <2>5 DEF Logout, WithoutSession
  <2>6. CASE RefreshSession(v)
    BY <1>0, <2>6 DEF RefreshSession, Pruned, Opened
  <2>7. CASE StartLogin(v) \/ Verify(v) \/ ReadUser(v) \/ SaveOwn(v) \/ ReadSaved(v) \/ StatementFails(v)
    BY <2>2, <2>7 DEF StartLogin, Verify, ReadUser, SaveOwn, ReadSaved, StatementFails
  <2> QED BY <1>2, <2>1, <2>3, <2>4, <2>5, <2>6, <2>7 DEF Visit
<1>3. ASSUME NEW u \in 1 .. MaxTokens, RunsOut(u) PROVE FALSE
  BY <1>0, <1>3 DEF RunsOut, Pruned, Opened
<1>4. ASSUME AdminReads \/ AdminDeletes \/ UNCHANGED sessionVars PROVE FALSE
  BY <1>4 DEF AdminReads, AdminDeletes, sessionVars
<1>5. ASSUME NEW active \in BOOLEAN, NEW password \in BOOLEAN, AdminSaves(active, password) PROVE FALSE
  BY <1>5 DEF AdminSaves
<1> QED BY <1>1, <1>2, <1>3, <1>4, <1>5 DEF SessionsNext

\* A session that has ended never comes back, whatever the requests that still hold a copy of it do:
\* the map gets a token only from the login that issued it.
THEOREM EndedSessionsStayEndedHolds == SessionsSpec => EndedSessionsStayEnded
<1>1. SessionsInv /\ [SessionsNext]_sessionVars
      => [\A t \in 1 .. tokens : open[t] = NoSession /\ open'[t] # NoSession
             => \E v \in Visits : Stands(v, "open") /\ visit[v].token = t]_sessionVars
  BY EndedStay
<1> QED BY <1>1, SessionsInvariant, PTL DEF SessionsSpec, EndedSessionsStayEnded

-------------------------------------------------------------------------------
(* The static site.                                                        *)

USE StaticCDNAssumption

RowRecord ==
    [status : {"none", "creating", "failed", "inprogress", "deployed", "deleted", "disabling"},
     taken : BOOLEAN, access : BOOLEAN, site : Sites \cup {NoSite}]
CreatingStage == {"bucket", "configure", "access", "site", "policy"}
DeletingStage == {"objects", "unsite", "unaccess", "unbucket", "unrow"}
RequestRecord ==
    [at : {"served", "ask", "write"} \cup CreatingStage \cup DeletingStage, copy : RowRecord]
SiteState == {"none", "deploying", "live", "disabling", "disabled", "gone"}

CDNTypeOK ==
    /\ bucket \in {"none", "empty", "full"} /\ access \in BOOLEAN
    /\ site \in [Sites -> SiteState]
    /\ row \in RowRecord
    /\ request \in [Requests -> RequestRecord]
    /\ upset \in BOOLEAN

\* A row is one from its status on, its name is not another's, and a distribution has a
\* control.
RowIsTrue(r) ==
    /\ r.status = "none" => r = NoRow
    /\ ~r.taken
    /\ r.site # NoSite => r.access

Lives(state) == state \notin {"none", "gone"}

\* A request that creates has the row's names in its copy; one that refreshes has a
\* distribution; one that deletes names all there is, and has removed what it has passed.
RequestIsTrue(q, r, buckets, control, sites) ==
    /\ q.at # "served" => RowIsTrue(q.copy) /\ q.copy.status # "none"
    /\ q.at \in CreatingStage => /\ r # NoRow
                                 /\ q.copy.access = r.access /\ q.copy.site = r.site
    /\ q.at \in {"site", "policy"} => q.copy.access
    /\ q.at \in {"ask", "write"} => q.copy.site # NoSite
    /\ q.at \in DeletingStage => /\ \A s \in Sites : Lives(sites[s]) => q.copy.site = s
                                 /\ control => q.copy.access
    /\ q.at \in {"unaccess", "unbucket", "unrow"} => \A s \in Sites : ~Lives(sites[s])
    /\ q.at \in {"unbucket", "unrow"} => ~control
    /\ q.at = "unrow" => buckets = "none"

\* A request that creates is beside none that creates or deletes.
OneCreates ==
    \A q, r \in Requests : Creating(q) => ~Deleting(r) /\ (Creating(r) => q = r)

NamesAll(r, buckets, control, sites) ==
    /\ buckets # "none" => r # NoRow
    /\ control => r.access
    /\ \A s \in Sites : Lives(sites[s]) => r.site = s

CDNIsTrue ==
    /\ RowIsTrue(row) /\ OneCreates
    /\ \A q \in Requests : RequestIsTrue(request[q], row, bucket, access, site)
    /\ NamesAll(row, bucket, access, site)

CDNInv == CDNTypeOK /\ (upset \/ CDNIsTrue)

Statuses == {"none", "creating", "failed", "inprogress", "deployed", "deleted", "disabling"}

\* The row and the request that are not there.
LEMMA NoRowIsOne ==
    /\ NoRow \in RowRecord /\ NoRow.status = "none" /\ NoRow.taken = FALSE
    /\ NoRow.access = FALSE /\ NoRow.site = NoSite
    /\ Served \in RequestRecord /\ Served.at = "served" /\ Served.copy = NoRow
<1>1. FALSE \in BOOLEAN
  BY Zenon
<1>2. /\ NoRow \in RowRecord /\ NoRow.status = "none" /\ NoRow.taken = FALSE
      /\ NoRow.access = FALSE /\ NoRow.site = NoSite
  BY <1>1 DEF NoRow, RowRecord
<1> HIDE DEF NoRow
<1> QED BY <1>2 DEF Served, RequestRecord

\* How a row changes.
LEMMA StatusChanges ==
    ASSUME NEW c \in RowRecord, NEW status \in Statuses
    PROVE  LET d == [c EXCEPT !.status = status] IN
           /\ d \in RowRecord /\ d.status = status /\ d.taken = c.taken
           /\ d.access = c.access /\ d.site = c.site
BY DEF RowRecord, Statuses

\* The copy of a row, once it names the access control.
LEMMA ControlIsNamed ==
    ASSUME NEW c \in RowRecord
    PROVE  LET d == [c EXCEPT !.access = TRUE] IN
           /\ d \in RowRecord /\ d.status = c.status /\ d.taken = c.taken
           /\ d.access = TRUE /\ d.site = c.site
<1>1. TRUE \in BOOLEAN
  BY Zenon
<1> QED BY <1>1 DEF RowRecord

\* The copy of a row, once it names its distribution.
LEMMA SiteIsNamed ==
    ASSUME NEW c \in RowRecord, NEW s \in Sites
    PROVE  LET d == [c EXCEPT !.site = s, !.status = "inprogress"] IN
           /\ d \in RowRecord /\ d.status = "inprogress" /\ d.taken = c.taken
           /\ d.access = c.access /\ d.site = s
BY DEF RowRecord

\* The copy of a row, once its bucket name has been found taken or not.
LEMMA NameIsTaken ==
    ASSUME NEW c \in RowRecord, NEW taken \in BOOLEAN
    PROVE  LET d == [c EXCEPT !.taken = taken] IN
           /\ d \in RowRecord /\ d.status = c.status /\ d.taken = taken
           /\ d.access = c.access /\ d.site = c.site
BY DEF RowRecord

\* A request takes its next step, or has done.
LEMMA StepIsTaken ==
    ASSUME CDNTypeOK, NEW r \in Requests, NEW copy \in RowRecord,
           NEW stage \in {"ask", "write"} \cup CreatingStage \cup DeletingStage,
           Step(r, stage, copy)
    PROVE  /\ request' \in [Requests -> RequestRecord]
           /\ request'[r].at = stage /\ request'[r].copy = copy
           /\ \A q \in Requests : q # r => request'[q] = request[q]
<1>1. [at |-> stage, copy |-> copy] \in RequestRecord
  BY DEF RequestRecord, CreatingStage, DeletingStage
<1> QED BY <1>1 DEF CDNTypeOK, Step

\* A request that has been served handles no row.
LEMMA RequestIsDone ==
    ASSUME CDNTypeOK, NEW r \in Requests, Done(r)
    PROVE  /\ request' \in [Requests -> RequestRecord]
           /\ request'[r].at = "served"
           /\ \A q \in Requests : q # r => request'[q] = request[q]
BY NoRowIsOne DEF CDNTypeOK, Done

\* What a request handles is the copy of a row.
LEMMA Handles ==
    ASSUME CDNTypeOK, NEW r \in Requests
    PROVE  request[r].copy \in RowRecord /\ request[r] \in RequestRecord
BY DEF CDNTypeOK, RequestRecord

\* What a request that creates does, beside none that creates or deletes.
LEMMA GoesOnAlone ==
    ASSUME CDNIsTrue, NEW r \in Requests,
           \A q \in Requests : q # r => /\ request'[q] = request[q]
                                        /\ ~Creating(q) /\ ~Deleting(q),
           RequestIsTrue(request'[r], row', bucket', access', site'),
           RowIsTrue(row'), NamesAll(row', bucket', access', site')
    PROVE  CDNIsTrue'
<1>1. OneCreates'
  BY DEF OneCreates, Creating, Deleting
<1>2. \A q \in Requests : RequestIsTrue(request'[q], row', bucket', access', site')
  <2>1. ASSUME NEW q \in Requests, q # r
        PROVE  RequestIsTrue(request'[q], row', bucket', access', site')
    BY <2>1 DEF CDNIsTrue, RequestIsTrue, Creating, Deleting, CreatingStage, DeletingStage
  <2> QED BY <2>1
<1> QED BY <1>1, <1>2 DEF CDNIsTrue, RequestIsTrue, NamesAll, RowIsTrue

\* What another request does: it leaves the row to the one that creates, and makes
\* nothing in AWS.
LEMMA GoesOnBeside ==
    ASSUME CDNIsTrue, NEW r \in Requests,
           \A q \in Requests : q # r => request'[q] = request[q],
           request'[r].at \notin CreatingStage,
           request'[r].at \in DeletingStage => \A q \in Requests : q # r => ~Creating(q),
           \A q \in Requests : q # r /\ Creating(q) =>
              row' # NoRow /\ row'.access = row.access /\ row'.site = row.site,
           \A s \in Sites : Lives(site'[s]) => Lives(site[s]),
           access' => access, bucket = "none" => bucket' = "none",
           RequestIsTrue(request'[r], row', bucket', access', site'),
           RowIsTrue(row'), NamesAll(row', bucket', access', site')
    PROVE  CDNIsTrue'
<1>1. OneCreates'
  BY DEF CDNIsTrue, OneCreates, Creating, Deleting, CreatingStage, DeletingStage
<1>2. \A q \in Requests : RequestIsTrue(request'[q], row', bucket', access', site')
  <2>1. ASSUME NEW q \in Requests, q # r
        PROVE  RequestIsTrue(request'[q], row', bucket', access', site')
    <3>1. RequestIsTrue(request[q], row, bucket, access, site) /\ request'[q] = request[q]
      BY <2>1 DEF CDNIsTrue
    <3> QED BY <2>1, <3>1 DEF RequestIsTrue, Creating, CreatingStage, DeletingStage
  <2> QED BY <2>1
<1> QED BY <1>1, <1>2 DEF CDNIsTrue, RequestIsTrue, NamesAll, RowIsTrue

\* Nobody else creates or deletes while a request creates.
LEMMA CreatorIsAlone ==
    ASSUME CDNIsTrue, NEW r \in Requests, Creating(r)
    PROVE  \A q \in Requests : q # r => ~Creating(q) /\ ~Deleting(q)
BY DEF CDNIsTrue, OneCreates

\* Nothing is claimed of a site that is upset.
LEMMA UpsetStays == CDNTypeOK' /\ upset' => CDNInv'
BY DEF CDNInv

\* A request that creates fails, and saves its copy.
LEMMA CreateFails ==
    ASSUME CDNInv, NEW r \in Requests, Creating(r), NEW copy \in RowRecord,
           Fails(r, copy), bucket' \in {"none", "empty", "full"}, access' \in BOOLEAN,
           site' \in [Sites -> SiteState], upset' \in BOOLEAN, upset => upset',
           ~upset' => /\ ~copy.taken
                      /\ copy.site # NoSite => copy.access
                      /\ access' => copy.access
                      /\ \A s \in Sites : Lives(site'[s]) => copy.site = s
    PROVE  CDNInv'
<1> DEFINE d == [copy EXCEPT !.status = "failed"]
<1>1. /\ d \in RowRecord /\ d.status = "failed" /\ d.taken = copy.taken
      /\ d.access = copy.access /\ d.site = copy.site
  BY StatusChanges DEF Statuses
<1>2. Done(r) /\ row' = d
  BY DEF Fails
<1> HIDE DEF d
<1>3. /\ request' \in [Requests -> RequestRecord] /\ request'[r].at = "served"
      /\ \A q \in Requests : q # r => request'[q] = request[q]
  BY <1>2, RequestIsDone DEF CDNInv
<1>4. CDNTypeOK'
  BY <1>1, <1>2, <1>3 DEF CDNTypeOK
<1> SUFFICES ASSUME ~upset' PROVE CDNIsTrue'
  BY <1>4 DEF CDNInv
<1>10. CDNIsTrue
  BY DEF CDNInv
<1>5. RowIsTrue(row')
  BY <1>1, <1>2 DEF RowIsTrue
<1>6. NamesAll(row', bucket', access', site')
  BY <1>1, <1>2, NoRowIsOne DEF NamesAll
<1>7. RequestIsTrue(request'[r], row', bucket', access', site')
  BY <1>3 DEF RequestIsTrue, CreatingStage, DeletingStage
<1>8. \A q \in Requests : q # r => ~Creating(q) /\ ~Deleting(q)
  BY <1>10, CreatorIsAlone
<1> QED BY <1>3, <1>5, <1>6, <1>7, <1>8, <1>10, GoesOnAlone

\* It proceeds with a row that names all there is.
LEMMA CreateProceeds ==
    ASSUME CDNInv, NEW r \in Requests, Creating(r), NEW copy \in RowRecord,
           NEW stage \in CreatingStage, Step(r, stage, copy),
           bucket' \in {"none", "empty", "full"}, access' \in BOOLEAN,
           site' \in [Sites -> SiteState], upset' \in BOOLEAN, upset => upset', row' \in {row, copy},
           ~upset' => /\ RowIsTrue(copy) /\ copy.status # "none"
                      /\ row' = row => copy.access = row.access /\ copy.site = row.site
                      /\ stage \in {"site", "policy"} => copy.access
                      /\ access' => copy.access
                      /\ \A s \in Sites : Lives(site'[s]) => copy.site = s
    PROVE  CDNInv'
<1>0. CDNTypeOK
  BY DEF CDNInv
<1>1. /\ request' \in [Requests -> RequestRecord]
      /\ request'[r].at = stage /\ request'[r].copy = copy
      /\ \A q \in Requests : q # r => request'[q] = request[q]
  BY <1>0, StepIsTaken
<1>2. CDNTypeOK'
  BY <1>0, <1>1 DEF CDNTypeOK
<1> SUFFICES ASSUME ~upset' PROVE CDNIsTrue'
  BY <1>2 DEF CDNInv
<1>3. CDNIsTrue
  BY DEF CDNInv
<1>4. RowIsTrue(row) /\ row # NoRow
  BY <1>3 DEF CDNIsTrue, RequestIsTrue, Creating, CreatingStage
<1>5. RowIsTrue(row') /\ row' # NoRow /\ row'.access = copy.access /\ row'.site = copy.site
  BY <1>4, NoRowIsOne
<1>6. NamesAll(row', bucket', access', site')
  BY <1>5 DEF NamesAll
<1>7. RequestIsTrue(request'[r], row', bucket', access', site')
  BY <1>1, <1>5 DEF RequestIsTrue, CreatingStage, DeletingStage
<1>8. \A q \in Requests : q # r => ~Creating(q) /\ ~Deleting(q)
  BY <1>3, CreatorIsAlone
<1> QED BY <1>1, <1>3, <1>5, <1>6, <1>7, <1>8, GoesOnAlone

\* What a request that creates knows.
LEMMA CreatorKnows ==
    ASSUME CDNInv, NEW r \in Requests, Creating(r)
    PROVE  LET copy == request[r].copy IN
           /\ copy \in RowRecord
           /\ ~upset => /\ RowIsTrue(copy) /\ copy.status # "none" /\ row # NoRow
                        /\ copy.access = row.access /\ copy.site = row.site
                        /\ access => copy.access
                        /\ \A s \in Sites : Lives(site[s]) => copy.site = s
                        /\ request[r].at \in {"site", "policy"} => copy.access
           /\ bucket \in {"none", "empty", "full"} /\ access \in BOOLEAN
           /\ site \in [Sites -> SiteState] /\ upset \in BOOLEAN
<1>1. request[r].copy \in RowRecord
  BY Handles DEF CDNInv
<1>2. ~upset => RequestIsTrue(request[r], row, bucket, access, site) /\ NamesAll(row, bucket, access, site)
  BY DEF CDNInv, CDNIsTrue
<1>3. request[r].at \in CreatingStage
  BY DEF Creating, CreatingStage
<1>4. request[r].at # "served"
  BY <1>3 DEF CreatingStage
<1> QED BY <1>1, <1>2, <1>3, <1>4 DEF RequestIsTrue, NamesAll, CDNTypeOK, CDNInv

\* A first Create, or a retry, of a site that nobody else creates or deletes.
LEMMA StartCreateStep ==
    ASSUME CDNInv, NEW r \in Requests, StartCreate(r)
    PROVE  CDNInv'
<1> DEFINE new == IF row = NoRow THEN [NoRow EXCEPT !.status = "creating"]
                  ELSE [row EXCEPT !.taken = FALSE]
<1>0. CDNTypeOK /\ row \in RowRecord /\ upset \in BOOLEAN
  BY DEF CDNInv, CDNTypeOK
<1>1. /\ row.status \in {"none", "failed"} /\ row' = new /\ Step(r, "bucket", row')
      /\ upset' = (upset \/ \E q \in Requests : Creating(q) \/ Deleting(q))
      /\ request[r].at = "served"
      /\ UNCHANGED <<bucket, access, site>>
  BY DEF StartCreate, aws, Starts, Serves
<1>2. FALSE \in BOOLEAN
  BY Zenon
<1>3. /\ new \in RowRecord
      /\ row # NoRow => /\ new.status = row.status /\ ~new.taken
                        /\ new.access = row.access /\ new.site = row.site
      /\ row = NoRow => /\ new.status = "creating" /\ ~new.taken
                        /\ new.access = NoRow.access /\ new.site = NoSite
  BY <1>0, <1>2, NoRowIsOne, StatusChanges, NameIsTaken, ZenonT(60) DEF Statuses
<1> HIDE DEF new
<1>4. /\ request' \in [Requests -> RequestRecord]
      /\ request'[r].at = "bucket" /\ request'[r].copy = new
      /\ \A q \in Requests : q # r => request'[q] = request[q]
  <2>1. Step(r, "bucket", new)
    BY <1>1
  <2> QED BY <1>0, <1>3, <2>1, StepIsTaken DEF CreatingStage
<1>5. upset' \in BOOLEAN
  BY <1>1, Zenon
<1>6. CDNTypeOK'
  BY <1>0, <1>1, <1>3, <1>4, <1>5 DEF CDNTypeOK
<1> SUFFICES ASSUME ~upset' PROVE CDNIsTrue'
  BY <1>6 DEF CDNInv
<1>7. CDNIsTrue /\ \A q \in Requests : ~Creating(q) /\ ~Deleting(q)
  BY <1>1 DEF CDNInv
<1>8. RowIsTrue(row) /\ NamesAll(row, bucket, access, site)
  BY <1>7 DEF CDNIsTrue
<1>9. new.status # "none" /\ new # NoRow /\ new.access = row.access /\ new.site = row.site
  <2>1. CASE row = NoRow
    BY <1>3, <2>1, NoRowIsOne
  <2>2. CASE row # NoRow
    BY <1>3, <1>8, <2>2, NoRowIsOne DEF RowIsTrue
  <2> QED BY <2>1, <2>2
<1>10. RowIsTrue(row') /\ NamesAll(row', bucket', access', site')
  BY <1>1, <1>3, <1>8, <1>9, NoRowIsOne DEF RowIsTrue, NamesAll
<1>11. RequestIsTrue(request'[r], row', bucket', access', site')
  BY <1>1, <1>4, <1>9, <1>10 DEF RequestIsTrue, CreatingStage, DeletingStage
<1> QED BY <1>4, <1>7, <1>10, <1>11, GoesOnAlone

\* The bucket is made under the name the row already has.
LEMMA MakeBucketStep ==
    ASSUME CDNInv, NEW r \in Requests, MakeBucket(r)
    PROVE  CDNInv'
<1> DEFINE copy == request[r].copy
<1>1. Creating(r) /\ UNCHANGED <<access, site>>
  BY DEF MakeBucket, Serves, Creating
<1>2. /\ copy \in RowRecord /\ copy \in RowRecord
      /\ ~upset => /\ RowIsTrue(copy) /\ copy.status # "none"
                   /\ copy.access = row.access /\ copy.site = row.site
                   /\ access => copy.access
                   /\ \A s \in Sites : Lives(site[s]) => copy.site = s
      /\ bucket \in {"none", "empty", "full"} /\ access \in BOOLEAN
      /\ site \in [Sites -> SiteState] /\ upset \in BOOLEAN
  BY <1>1, CreatorKnows
<1>3. TRUE \in BOOLEAN
  BY Zenon
<1> HIDE DEF copy
<1>4. CASE /\ bucket' \in {"none", "empty", "full"} /\ Step(r, "configure", copy)
           /\ UNCHANGED <<row, upset>>
  BY <1>1, <1>2, <1>4, CreateProceeds DEF CreatingStage
<1>5. CASE bucket' \in {"none", "empty", "full"} /\ Fails(r, copy) /\ UNCHANGED upset
  BY <1>1, <1>2, <1>5, CreateFails DEF RowIsTrue
<1>6. CASE Fails(r, [copy EXCEPT !.taken = TRUE]) /\ upset' = TRUE /\ UNCHANGED bucket
  <2> DEFINE d == [copy EXCEPT !.taken = TRUE]
  <2>1. d \in RowRecord
    BY <1>2, <1>3, NameIsTaken
  <2>2. upset' \in BOOLEAN /\ Fails(r, d)
    BY <1>3, <1>6
  <2> HIDE DEF d
  <2> QED BY <1>1, <1>2, <1>6, <2>1, <2>2, CreateFails
<1>7. \/ (bucket # "none" /\ Step(r, "configure", copy) /\ UNCHANGED <<bucket, row, upset>>)
      \/ (Fails(r, [copy EXCEPT !.taken = TRUE]) /\ upset' = TRUE /\ UNCHANGED bucket)
      \/ (bucket' = "empty" /\ Step(r, "configure", copy) /\ UNCHANGED <<row, upset>>)
      \/ (bucket' \in {bucket, "empty"} /\ Fails(r, copy) /\ UNCHANGED upset)
  BY DEF MakeBucket, copy
<1> QED BY <1>2, <1>4, <1>5, <1>6, <1>7

\* Configuring the bucket changes nothing that the row names.
LEMMA ConfigureBucketStep ==
    ASSUME CDNInv, NEW r \in Requests, ConfigureBucket(r)
    PROVE  CDNInv'
<1> DEFINE copy == request[r].copy
<1>1. Creating(r) /\ UNCHANGED <<bucket, access, site, upset>>
  BY DEF ConfigureBucket, Serves, Creating, aws
<1>2. /\ copy \in RowRecord
      /\ ~upset => /\ RowIsTrue(copy) /\ copy.status # "none"
                   /\ copy.access = row.access /\ copy.site = row.site
                   /\ access => copy.access
                   /\ \A s \in Sites : Lives(site[s]) => copy.site = s
      /\ bucket \in {"none", "empty", "full"} /\ access \in BOOLEAN
      /\ site \in [Sites -> SiteState] /\ upset \in BOOLEAN
  BY <1>1, CreatorKnows
<1> HIDE DEF copy
<1>3. CASE Step(r, "access", copy) /\ UNCHANGED row
  BY <1>1, <1>2, <1>3, CreateProceeds DEF CreatingStage
<1>4. CASE Fails(r, copy)
  BY <1>1, <1>2, <1>4, CreateFails DEF RowIsTrue
<1> QED BY <1>3, <1>4 DEF ConfigureBucket, copy

\* A control that is made is named, or its answer is lost.
LEMMA MakeAccessStep ==
    ASSUME CDNInv, NEW r \in Requests, MakeAccess(r)
    PROVE  CDNInv'
<1> DEFINE copy == request[r].copy
           made == [copy EXCEPT !.access = TRUE]
<1>1. Creating(r) /\ UNCHANGED <<bucket, site>>
  BY DEF MakeAccess, Serves, Creating
<1>2. /\ copy \in RowRecord
      /\ ~upset => /\ RowIsTrue(copy) /\ copy.status # "none"
                   /\ copy.access = row.access /\ copy.site = row.site
                   /\ access => copy.access
                   /\ \A s \in Sites : Lives(site[s]) => copy.site = s
      /\ bucket \in {"none", "empty", "full"} /\ access \in BOOLEAN
      /\ site \in [Sites -> SiteState] /\ upset \in BOOLEAN
  BY <1>1, CreatorKnows
<1>3. TRUE \in BOOLEAN
  BY Zenon
<1>4. /\ made \in RowRecord /\ made.status = copy.status /\ made.taken = copy.taken
      /\ made.access = TRUE /\ made.site = copy.site
  BY <1>2, ControlIsNamed
<1>5. \/ (copy.access /\ Step(r, "site", copy) /\ UNCHANGED <<access, row, upset>>)
      \/ (access' = TRUE /\ UNCHANGED upset /\ row' = made /\ Step(r, "site", made))
      \/ (access' = TRUE /\ UNCHANGED upset /\ Fails(r, made))
      \/ (Fails(r, copy) /\ UNCHANGED <<access, upset>>)
      \/ (access' = TRUE /\ Fails(r, copy) /\ upset' = TRUE)
  BY DEF MakeAccess
<1> HIDE DEF copy, made
<1>6. CASE copy.access /\ Step(r, "site", copy) /\ UNCHANGED <<access, row, upset>>
  BY <1>1, <1>2, <1>6, CreateProceeds DEF CreatingStage
<1>7. CASE access' = TRUE /\ UNCHANGED upset /\ row' = made /\ Step(r, "site", made)
  <2>1. access' \in BOOLEAN
    BY <1>3, <1>7
  <2>2. ~upset => RowIsTrue(made) /\ made.status # "none"
    BY <1>2, <1>4, NoRowIsOne DEF RowIsTrue
  <2>3. ~upset /\ row' = row => made.access = row.access /\ made.site = row.site
    BY <1>7
  <2> QED BY <1>1, <1>2, <1>4, <1>7, <2>1, <2>2, <2>3, CreateProceeds DEF CreatingStage
<1>8. CASE access' = TRUE /\ UNCHANGED upset /\ Fails(r, made)
  <2>1. access' \in BOOLEAN
    BY <1>3, <1>8
  <2> QED BY <1>1, <1>2, <1>4, <1>8, <2>1, CreateFails DEF RowIsTrue
<1>9. CASE Fails(r, copy) /\ UNCHANGED <<access, upset>>
  BY <1>1, <1>2, <1>9, CreateFails DEF RowIsTrue
<1>10. CASE access' = TRUE /\ Fails(r, copy) /\ upset' = TRUE
  <2>1. access' \in BOOLEAN /\ upset' \in BOOLEAN
    BY <1>3, <1>10
  <2> QED BY <1>1, <1>2, <1>10, <2>1, CreateFails
<1> QED BY <1>5, <1>6, <1>7, <1>8, <1>9, <1>10

\* A distribution that is made is named, or its answer is lost.
LEMMA MakeSiteStep ==
    ASSUME CDNInv, NEW r \in Requests, MakeSite(r)
    PROVE  CDNInv'
<1> DEFINE copy == request[r].copy
<1>1. Creating(r) /\ UNCHANGED <<bucket, access>> /\ request[r].at = "site"
  BY DEF MakeSite, Serves, Creating
<1>2. /\ copy \in RowRecord
      /\ ~upset => /\ RowIsTrue(copy) /\ copy.status # "none"
                   /\ copy.access = row.access /\ copy.site = row.site
                   /\ access => copy.access
                   /\ \A s \in Sites : Lives(site[s]) => copy.site = s
                   /\ copy.access
      /\ bucket \in {"none", "empty", "full"} /\ access \in BOOLEAN
      /\ site \in [Sites -> SiteState] /\ upset \in BOOLEAN
  BY <1>1, CreatorKnows
<1>3. TRUE \in BOOLEAN
  BY Zenon
<1>4. CASE copy.site # NoSite /\ Step(r, "policy", copy) /\ UNCHANGED <<site, row, upset>>
  <2> HIDE DEF copy
  <2> QED BY <1>1, <1>2, <1>4, CreateProceeds DEF CreatingStage
<1>5. CASE Fails(r, copy) /\ UNCHANGED <<site, upset>>
  <2> HIDE DEF copy
  <2> QED BY <1>1, <1>2, <1>5, CreateFails DEF RowIsTrue
<1>6. ASSUME NEW s \in Sites, copy.site = NoSite, site' = [site EXCEPT ![s] = "deploying"],
             \/ (row' = [copy EXCEPT !.site = s, !.status = "inprogress"] /\ UNCHANGED upset
                  /\ Step(r, "policy", [copy EXCEPT !.site = s, !.status = "inprogress"]))
             \/ (Fails(r, [copy EXCEPT !.site = s, !.status = "inprogress"]) /\ UNCHANGED upset)
             \/ (Fails(r, copy) /\ upset' = TRUE)
      PROVE  CDNInv'
  <2> HIDE DEF copy
  <2> DEFINE made == [copy EXCEPT !.site = s, !.status = "inprogress"]
  <2>1. /\ made \in RowRecord /\ made.status = "inprogress" /\ made.taken = copy.taken
        /\ made.access = copy.access /\ made.site = s
    BY <1>2, SiteIsNamed
  <2> HIDE DEF made
  <2>2. site' \in [Sites -> SiteState] /\ \A t \in Sites : t # s => site'[t] = site[t]
    BY <1>2, <1>6 DEF SiteState
  <2>3. ~upset => /\ \A t \in Sites : Lives(site'[t]) => made.site = t
                  /\ RowIsTrue(made) /\ made.status # "none"
    <3>1. NoSite \notin Sites
      BY DEF NoSite, Sites
    <3>2. ~upset => \A t \in Sites : Lives(site'[t]) => made.site = t
      BY <1>2, <1>6, <2>1, <2>2, <3>1
    <3>3. ~upset => RowIsTrue(made) /\ made.status # "none"
      BY <1>2, <2>1 DEF RowIsTrue
    <3> QED BY <3>2, <3>3
  <2>4. CASE row' = made /\ Step(r, "policy", made) /\ UNCHANGED upset
    BY <1>1, <1>2, <2>1, <2>2, <2>3, <2>4, CreateProceeds DEF CreatingStage
  <2>5. CASE Fails(r, made) /\ UNCHANGED upset
    BY <1>1, <1>2, <2>1, <2>2, <2>3, <2>5, CreateFails DEF RowIsTrue
  <2>6. CASE Fails(r, copy) /\ upset' = TRUE
    <3>1. upset' \in BOOLEAN
      BY <1>3, <2>6
    <3> QED BY <1>1, <1>2, <2>2, <2>6, <3>1, CreateFails
  <2> QED BY <1>6, <2>4, <2>5, <2>6 DEF made
<1> QED BY <1>4, <1>5, <1>6 DEF MakeSite

\* The last step of Create writes the copy that names everything, or nothing.
LEMMA PutPolicyStep ==
    ASSUME CDNInv, NEW r \in Requests, PutPolicy(r)
    PROVE  CDNInv'
<1> DEFINE copy == request[r].copy
           d == [copy EXCEPT !.status = IF @ = "creating" THEN "inprogress" ELSE @]
<1>1. Creating(r) /\ UNCHANGED <<bucket, access, site, upset>>
  BY DEF PutPolicy, Serves, Creating, aws
<1>2. /\ copy \in RowRecord
      /\ ~upset => /\ RowIsTrue(copy) /\ copy.status # "none" /\ row # NoRow
                   /\ copy.access = row.access /\ copy.site = row.site
                   /\ access => copy.access
                   /\ \A s \in Sites : Lives(site[s]) => copy.site = s
      /\ bucket \in {"none", "empty", "full"} /\ access \in BOOLEAN
      /\ site \in [Sites -> SiteState] /\ upset \in BOOLEAN
  BY <1>1, CreatorKnows
<1>3. /\ d \in RowRecord /\ d.taken = copy.taken
      /\ d.access = copy.access /\ d.site = copy.site /\ (d.status = "none" => copy.status = "none")
  BY <1>2 DEF RowRecord
<1>4. (Done(r) /\ row' \in {row, d}) \/ Fails(r, copy)
  BY DEF PutPolicy
<1> HIDE DEF copy, d
<1>5. CASE Fails(r, copy)
  BY <1>1, <1>2, <1>5, CreateFails DEF RowIsTrue
<1>6. CASE Done(r) /\ row' \in {row, d}
  <2>0. CDNTypeOK
    BY DEF CDNInv
  <2>1. /\ request' \in [Requests -> RequestRecord] /\ request'[r].at = "served"
        /\ \A q \in Requests : q # r => request'[q] = request[q]
    BY <1>6, <2>0, RequestIsDone
  <2>2. CDNTypeOK'
    BY <1>1, <1>3, <1>6, <2>0, <2>1 DEF CDNTypeOK
  <2> SUFFICES ASSUME ~upset' PROVE CDNIsTrue'
    BY <2>2 DEF CDNInv
  <2>3. CDNIsTrue /\ ~upset
    BY <1>1 DEF CDNInv
  <2>4. RowIsTrue(row) /\ NamesAll(row, bucket, access, site)
    BY <2>3 DEF CDNIsTrue
  <2>5. RowIsTrue(row') /\ NamesAll(row', bucket', access', site')
    BY <1>1, <1>2, <1>3, <1>6, <2>3, <2>4, NoRowIsOne DEF RowIsTrue, NamesAll
  <2>6. RequestIsTrue(request'[r], row', bucket', access', site')
    BY <2>1 DEF RequestIsTrue, CreatingStage, DeletingStage
  <2>7. \A q \in Requests : q # r => ~Creating(q) /\ ~Deleting(q)
    BY <1>1, <2>3, CreatorIsAlone
  <2> QED BY <2>1, <2>3, <2>5, <2>6, <2>7, GoesOnAlone
<1> QED BY <1>4, <1>5, <1>6

\* A refresh reads the row, asks AWS, and writes its copy over it.
LEMMA StartRefreshStep ==
    ASSUME CDNInv, NEW r \in Requests, StartRefresh(r)
    PROVE  CDNInv'
<1>0. CDNTypeOK /\ row \in RowRecord
  BY DEF CDNInv, CDNTypeOK
<1>1. row.site # NoSite /\ Step(r, "ask", row) /\ UNCHANGED <<bucket, access, site, row, upset>>
  BY DEF StartRefresh, aws
<1>2. /\ request' \in [Requests -> RequestRecord]
      /\ request'[r].at = "ask" /\ request'[r].copy = row
      /\ \A q \in Requests : q # r => request'[q] = request[q]
  BY <1>0, <1>1, StepIsTaken
<1>3. CDNTypeOK'
  BY <1>0, <1>1, <1>2 DEF CDNTypeOK
<1> SUFFICES ASSUME ~upset' PROVE CDNIsTrue'
  BY <1>3 DEF CDNInv
<1>4. CDNIsTrue
  BY <1>1 DEF CDNInv
<1>5. RowIsTrue(row) /\ NamesAll(row, bucket, access, site) /\ row.status # "none"
  BY <1>1, <1>4, NoRowIsOne DEF CDNIsTrue, RowIsTrue
<1>6. RequestIsTrue(request'[r], row', bucket', access', site')
  BY <1>1, <1>2, <1>5 DEF RequestIsTrue, CreatingStage, DeletingStage
<1>7. \A q \in Requests : Creating(q) => row # NoRow
  BY <1>1, NoRowIsOne
<1> QED BY <1>1, <1>2, <1>4, <1>5, <1>6, <1>7, GoesOnBeside DEF CreatingStage, DeletingStage

\* What a request with a copy that does not create knows.
LEMMA RequestKnows ==
    ASSUME CDNInv, NEW r \in Requests
    PROVE  /\ CDNTypeOK /\ request[r].copy \in RowRecord
           /\ ~upset => /\ CDNIsTrue /\ RowIsTrue(row) /\ NamesAll(row, bucket, access, site)
                        /\ RequestIsTrue(request[r], row, bucket, access, site)
                        /\ \A q \in Requests : Creating(q) => row # NoRow
                        /\ Deleting(r) => \A q \in Requests : ~Creating(q)
BY Handles DEF CDNInv, CDNIsTrue, OneCreates, RequestIsTrue, Creating, CreatingStage

\* Asking CloudFront changes the status of the copy only.
LEMMA AskSiteStep ==
    ASSUME CDNInv, NEW r \in Requests, AskSite(r)
    PROVE  CDNInv'
<1> DEFINE copy == request[r].copy
<1>0. CDNTypeOK /\ copy \in RowRecord
  BY RequestKnows
<1>1. request[r].at = "ask" /\ UNCHANGED <<bucket, access, site, row, upset>>
  BY DEF AskSite, aws, Serves
<1>2. /\ Seen(copy) \in RowRecord /\ Seen(copy).status # "none"
      /\ Seen(copy).taken = copy.taken /\ Seen(copy).access = copy.access
      /\ Seen(copy).site = copy.site
  <2> HIDE DEF copy
  <2> QED BY <1>0 DEF Seen, RowRecord
<1> DEFINE done == request'[r].at = "served"
           goes == request'[r].at = "write" /\ request'[r].copy = Seen(copy)
<1>3. /\ request' \in [Requests -> RequestRecord] /\ (done \/ goes)
      /\ \A q \in Requests : q # r => request'[q] = request[q]
  <2>1. CASE Step(r, "write", Seen(copy))
    <3> HIDE DEF copy
    <3> QED BY <1>0, <1>2, <2>1, StepIsTaken
  <2>2. CASE Done(r)
    BY <1>0, <2>2, RequestIsDone
  <2> QED BY <2>1, <2>2 DEF AskSite
<1>4. CDNTypeOK'
  BY <1>0, <1>1, <1>3 DEF CDNTypeOK
<1> SUFFICES ASSUME ~upset' PROVE CDNIsTrue'
  BY <1>4 DEF CDNInv
<1>5. /\ CDNIsTrue /\ RowIsTrue(row) /\ NamesAll(row, bucket, access, site)
      /\ RequestIsTrue(request[r], row, bucket, access, site)
      /\ \A q \in Requests : Creating(q) => row # NoRow
  BY <1>1, RequestKnows
<1>6. copy.site # NoSite /\ RowIsTrue(copy)
  BY <1>1, <1>5 DEF RequestIsTrue
<1>7. RequestIsTrue(request'[r], row', bucket', access', site')
  BY <1>2, <1>3, <1>6 DEF RequestIsTrue, RowIsTrue, CreatingStage, DeletingStage
<1>8. request'[r].at \notin CreatingStage \cup DeletingStage
  BY <1>3 DEF CreatingStage, DeletingStage
<1> QED BY <1>1, <1>3, <1>5, <1>7, <1>8, GoesOnBeside

\* The row that comes back after a deletion names what there is: nothing.
LEMMA SaveRefreshedStep ==
    ASSUME CDNInv, NEW r \in Requests, SaveRefreshed(r)
    PROVE  CDNInv'
<1> DEFINE copy == request[r].copy
<1>0. CDNTypeOK /\ copy \in RowRecord
  BY RequestKnows
<1>1. /\ request[r].at = "write" /\ row' = copy /\ Done(r) /\ UNCHANGED <<bucket, access, site>>
      /\ upset' = (upset \/ (row # NoRow /\ row.site # row'.site))
  BY DEF SaveRefreshed, aws, Serves
<1> HIDE DEF copy
<1>2. /\ request' \in [Requests -> RequestRecord] /\ request'[r].at = "served"
      /\ \A q \in Requests : q # r => request'[q] = request[q]
  BY <1>0, <1>1, RequestIsDone
<1>3. upset' \in BOOLEAN
  BY <1>1, Zenon
<1>4. CDNTypeOK'
  BY <1>0, <1>1, <1>2, <1>3 DEF CDNTypeOK
<1> SUFFICES ASSUME ~upset' PROVE CDNIsTrue'
  BY <1>4 DEF CDNInv
<1>5. ~upset /\ (row = NoRow \/ row.site = copy.site)
  BY <1>1
<1>6. /\ CDNIsTrue /\ RowIsTrue(row) /\ NamesAll(row, bucket, access, site)
      /\ RequestIsTrue(request[r], row, bucket, access, site)
      /\ \A q \in Requests : Creating(q) => row # NoRow
  BY <1>5, RequestKnows
<1>7. copy.site # NoSite /\ RowIsTrue(copy) /\ copy # NoRow /\ copy.access = TRUE
  BY <1>0, <1>1, <1>6, NoRowIsOne DEF RequestIsTrue, copy, RowIsTrue, RowRecord
<1>8. NamesAll(row', bucket', access', site')
  <2>1. NoSite \notin Sites
    BY DEF NoSite, Sites
  <2> QED BY <1>1, <1>5, <1>6, <1>7, <2>1, NoRowIsOne DEF NamesAll
<1>9. row # NoRow => row'.access = row.access /\ row'.site = row.site /\ row' # NoRow
  BY <1>0, <1>1, <1>5, <1>6, <1>7 DEF RowIsTrue, CDNTypeOK, RowRecord
<1>10. RequestIsTrue(request'[r], row', bucket', access', site')
  BY <1>2 DEF RequestIsTrue, CreatingStage, DeletingStage
<1> QED BY <1>1, <1>2, <1>6, <1>7, <1>8, <1>9, <1>10, GoesOnBeside DEF CreatingStage, DeletingStage

\* A deletion begins with the row; a row whose name was taken is dropped.
LEMMA StartDeleteStep ==
    ASSUME CDNInv, NEW r \in Requests, StartDelete(r)
    PROVE  CDNInv'
<1>0. CDNTypeOK /\ row \in RowRecord /\ request \in [Requests -> RequestRecord]
  BY DEF CDNInv, CDNTypeOK
<1>1. /\ row # NoRow /\ UNCHANGED <<bucket, access, site>>
      /\ upset' = (upset \/ \E q \in Requests : Creating(q))
  BY DEF StartDelete, aws
<1>2. upset' \in BOOLEAN
  BY <1>1, Zenon
<1>3. CASE row.taken /\ row' = NoRow /\ UNCHANGED request
  <2>1. CDNTypeOK'
    BY <1>0, <1>1, <1>2, <1>3, NoRowIsOne DEF CDNTypeOK
  <2>2. upset'
    BY <1>1, <1>3 DEF CDNInv, CDNIsTrue, RowIsTrue
  <2> QED BY <2>1, <2>2 DEF CDNInv
<1>4. CASE Step(r, "objects", row) /\ UNCHANGED row
  <2>1. /\ request' \in [Requests -> RequestRecord]
        /\ request'[r].at = "objects" /\ request'[r].copy = row
        /\ \A q \in Requests : q # r => request'[q] = request[q]
    BY <1>0, <1>4, StepIsTaken DEF DeletingStage
  <2>2. CDNTypeOK'
    BY <1>0, <1>1, <1>2, <1>4, <2>1 DEF CDNTypeOK
  <2> SUFFICES ASSUME ~upset' PROVE CDNIsTrue'
    BY <2>2 DEF CDNInv
  <2>3. CDNIsTrue /\ \A q \in Requests : ~Creating(q)
    BY <1>1 DEF CDNInv
  <2>4. RowIsTrue(row) /\ NamesAll(row, bucket, access, site) /\ row.status # "none"
    BY <1>1, <2>3 DEF CDNIsTrue, RowIsTrue
  <2>5. RequestIsTrue(request'[r], row', bucket', access', site')
    BY <1>1, <1>4, <2>1, <2>4 DEF RequestIsTrue, NamesAll, CreatingStage, DeletingStage
  <2> QED BY <1>1, <1>4, <2>1, <2>3, <2>4, <2>5, GoesOnBeside DEF CreatingStage, DeletingStage
<1> QED BY <1>3, <1>4 DEF StartDelete

\* What a request that deletes does: nobody creates beside it.
LEMMA DeletionGoesOn ==
    ASSUME CDNInv, NEW r \in Requests, request[r].at \in DeletingStage,
           \/ Done(r)
           \/ \E stage \in DeletingStage :
                /\ Step(r, stage, request[r].copy)
                /\ stage \in {"unaccess", "unbucket", "unrow"} /\ ~upset' => \A s \in Sites : ~Lives(site'[s])
                /\ stage \in {"unbucket", "unrow"} /\ ~upset' => ~access'
                /\ stage = "unrow" /\ ~upset' => bucket' = "none",
           bucket' \in {"none", "empty", "full"}, access' \in BOOLEAN,
           site' \in [Sites -> SiteState], upset' \in BOOLEAN, upset => upset', row' \in RowRecord,
           ~upset' => /\ RowIsTrue(row') /\ NamesAll(row', bucket', access', site')
                      /\ \A s \in Sites : Lives(site'[s]) => Lives(site[s])
                      /\ access' => access
                      /\ bucket = "none" => bucket' = "none"
    PROVE  CDNInv'
<1>0. CDNTypeOK /\ request[r].copy \in RowRecord
  BY RequestKnows
<1>1. PICK stage \in DeletingStage \cup {"served"} :
        /\ request' \in [Requests -> RequestRecord] /\ request'[r].at = stage
        /\ \A q \in Requests : q # r => request'[q] = request[q]
        /\ stage # "served" => request'[r].copy = request[r].copy
        /\ stage \in {"unaccess", "unbucket", "unrow"} /\ ~upset' => \A s \in Sites : ~Lives(site'[s])
        /\ stage \in {"unbucket", "unrow"} /\ ~upset' => ~access'
        /\ stage = "unrow" /\ ~upset' => bucket' = "none"
  <2>1. CASE Done(r)
    BY <1>0, <2>1, RequestIsDone
  <2>2. ASSUME NEW stage \in DeletingStage, Step(r, stage, request[r].copy)
        PROVE  /\ request' \in [Requests -> RequestRecord] /\ request'[r].at = stage
               /\ \A q \in Requests : q # r => request'[q] = request[q]
               /\ request'[r].copy = request[r].copy
    <3>1. [at |-> stage, copy |-> request[r].copy] \in RequestRecord
      BY <1>0 DEF RequestRecord
    <3>2. request \in [Requests -> RequestRecord]
      BY <1>0 DEF CDNTypeOK
    <3> QED BY <2>2, <3>1, <3>2 DEF Step
  <2> QED BY <2>1, <2>2
<1>2. CDNTypeOK'
  BY <1>1 DEF CDNTypeOK
<1> SUFFICES ASSUME ~upset' PROVE CDNIsTrue'
  BY <1>2 DEF CDNInv
<1>3. /\ CDNIsTrue /\ RequestIsTrue(request[r], row, bucket, access, site)
      /\ \A q \in Requests : ~Creating(q)
  <2>1. Deleting(r)
    BY DEF Deleting, DeletingStage
  <2> QED BY <2>1, RequestKnows
<1>4. /\ RowIsTrue(request[r].copy) /\ request[r].copy.status # "none"
      /\ \A s \in Sites : Lives(site[s]) => request[r].copy.site = s
      /\ access => request[r].copy.access
  BY <1>3 DEF RequestIsTrue, DeletingStage
<1>5. request'[r].at \notin CreatingStage
  BY <1>1 DEF CreatingStage, DeletingStage
<1>6. RequestIsTrue(request'[r], row', bucket', access', site')
  BY <1>1, <1>4, <1>5 DEF RequestIsTrue, DeletingStage
<1> QED BY <1>1, <1>3, <1>5, <1>6, GoesOnBeside

\* Listing the objects changes neither the row nor anything it names.
LEMMA ListObjectsStep ==
    ASSUME CDNInv, NEW r \in Requests, ListObjects(r)
    PROVE  CDNInv'
<1>1. /\ request[r].at \in DeletingStage /\ UNCHANGED <<bucket, access, site, row, upset>>
      /\ Step(r, "unsite", request[r].copy) \/ Done(r)
  BY DEF ListObjects, aws, Serves, DeletingStage
<1>2. \/ Done(r)
      \/ \E stage \in DeletingStage :
           /\ Step(r, stage, request[r].copy) /\ stage \notin {"unaccess", "unbucket", "unrow"}
  BY <1>1 DEF DeletingStage
<1>3. CDNTypeOK /\ (~upset => RowIsTrue(row) /\ NamesAll(row, bucket, access, site))
  BY RequestKnows
<1> QED BY <1>1, <1>2, <1>3, DeletionGoesOn DEF CDNTypeOK

\* A distribution is disabled, and later deleted.
LEMMA RemoveSiteStep ==
    ASSUME CDNInv, NEW r \in Requests, RemoveSite(r)
    PROVE  CDNInv'
<1> DEFINE copy == request[r].copy
           off == [copy EXCEPT !.status = "disabling"]
<1>1. /\ request[r].at \in DeletingStage /\ request[r].at = "unsite"
      /\ UNCHANGED <<bucket, access, upset>>
  BY DEF RemoveSite, Serves, DeletingStage
<1>2. /\ CDNTypeOK /\ copy \in RowRecord
      /\ ~upset => /\ RowIsTrue(row) /\ NamesAll(row, bucket, access, site)
                   /\ RequestIsTrue(request[r], row, bucket, access, site)
  BY RequestKnows
<1>3. ~upset => /\ RowIsTrue(copy) /\ copy.status # "none"
                /\ \A s \in Sites : Lives(site[s]) => copy.site = s
                /\ access => copy.access
  BY <1>1, <1>2 DEF RequestIsTrue, DeletingStage
<1>4. /\ off \in RowRecord /\ off.status = "disabling" /\ off.taken = copy.taken
      /\ off.access = copy.access /\ off.site = copy.site
  BY <1>2, StatusChanges DEF Statuses
<1> HIDE DEF off
<1>5. ~upset => RowIsTrue(off) /\ NamesAll(off, bucket, access, site) /\ off # NoRow
  BY <1>3, <1>4, NoRowIsOne DEF RowIsTrue, NamesAll
<1>6. CASE /\ copy.site = NoSite \/ site[copy.site] = "gone"
           /\ Step(r, "unaccess", copy) /\ UNCHANGED <<site, row>>
  <2>1. ~upset => \A s \in Sites : ~Lives(site[s])
    <3>1. NoSite \notin Sites
      BY DEF NoSite, Sites
    <3> QED BY <1>3, <1>6, <3>1 DEF Lives
  <2>2. \E stage \in DeletingStage :
          /\ Step(r, stage, copy) /\ stage \notin {"unbucket", "unrow"}
          /\ ~upset' => \A s \in Sites : ~Lives(site'[s])
    BY <1>1, <1>6, <2>1 DEF DeletingStage
  <2> QED BY <1>1, <1>2, <1>6, <2>2, DeletionGoesOn DEF CDNTypeOK
<1>7. CASE copy.site \in Sites /\ site[copy.site] = "disabled" /\ Step(r, "unaccess", copy)
           /\ site' = [site EXCEPT ![copy.site] = "gone"] /\ UNCHANGED row
  <2> HIDE DEF copy
  <2>1. /\ site' \in [Sites -> SiteState] /\ site'[copy.site] = "gone"
        /\ \A s \in Sites : s # copy.site => site'[s] = site[s]
    BY <1>2, <1>7 DEF SiteState, CDNTypeOK
  <2>2. ~upset => \A s \in Sites : ~Lives(site'[s])
    BY <1>3, <2>1 DEF Lives
  <2>3. \E stage \in DeletingStage :
          /\ Step(r, stage, copy) /\ stage \notin {"unbucket", "unrow"}
          /\ ~upset' => \A s \in Sites : ~Lives(site'[s])
    BY <1>1, <1>7, <2>2 DEF DeletingStage
  <2>4. ~upset => NamesAll(row', bucket', access', site')
    BY <1>1, <1>2, <1>7, <2>2 DEF NamesAll
  <2> QED BY <1>1, <1>2, <1>7, <2>1, <2>2, <2>3, <2>4, DeletionGoesOn DEF CDNTypeOK, copy
<1>8. CASE /\ copy.site \in Sites /\ Done(r) /\ row' \in {row, off}
           /\ \/ (site[copy.site] \in {"deploying", "live"} /\ site' = [site EXCEPT ![copy.site] = "disabling"])
              \/ UNCHANGED site
  <2> HIDE DEF copy
  <2>1. /\ site' \in [Sites -> SiteState]
        /\ \A s \in Sites : Lives(site'[s]) => Lives(site[s])
    BY <1>2, <1>8 DEF SiteState, CDNTypeOK, Lives
  <2>2. ~upset => NamesAll(row', bucket', access', site') /\ RowIsTrue(row')
    BY <1>1, <1>2, <1>5, <1>8, <2>1 DEF NamesAll
  <2> QED BY <1>1, <1>2, <1>4, <1>8, <2>1, <2>2, DeletionGoesOn DEF CDNTypeOK
<1>9. CASE Done(r) /\ UNCHANGED <<site, row>>
  BY <1>1, <1>2, <1>9, DeletionGoesOn DEF CDNTypeOK
<1>10. copy.site \in Sites \/ copy.site = NoSite
  BY <1>2 DEF RowRecord
<1> QED BY <1>6, <1>7, <1>8, <1>9, <1>10 DEF RemoveSite, off

\* A control that could not be read is taken for removed.
LEMMA RemoveAccessStep ==
    ASSUME CDNInv, NEW r \in Requests, RemoveAccess(r)
    PROVE  CDNInv'
<1> DEFINE copy == request[r].copy
<1>1. /\ request[r].at = "unaccess" /\ UNCHANGED <<bucket, site, row>>
      /\ request[r].at \in DeletingStage
  BY DEF RemoveAccess, Serves, DeletingStage
<1>2. /\ CDNTypeOK /\ copy \in RowRecord
      /\ ~upset => /\ RowIsTrue(row) /\ NamesAll(row, bucket, access, site)
                   /\ RequestIsTrue(request[r], row, bucket, access, site)
  BY RequestKnows
<1>3. ~upset => /\ \A s \in Sites : ~Lives(site[s])
                /\ access => copy.access
  BY <1>1, <1>2 DEF RequestIsTrue, DeletingStage
<1>4. CASE access' = (access /\ ~copy.access) /\ Step(r, "unbucket", copy) /\ UNCHANGED upset
  <2>1. access' \in BOOLEAN
    BY <1>4, Zenon
  <2>2. ~upset => ~access'
    BY <1>3, <1>4
  <2>3. access' => access
    BY <1>4
  <2>4. \E stage \in DeletingStage :
          /\ Step(r, stage, copy) /\ stage # "unrow"
          /\ ~upset' => \A s \in Sites : ~Lives(site'[s])
          /\ ~upset' => ~access'
    <3>1. "unbucket" \in DeletingStage
      BY DEF DeletingStage
    <3> QED BY <1>1, <1>3, <1>4, <2>2, <3>1
  <2>5. ~upset => NamesAll(row', bucket', access', site')
    BY <1>1, <1>2, <2>2 DEF NamesAll
  <2> QED BY <1>1, <1>2, <1>4, <2>1, <2>3, <2>4, <2>5, DeletionGoesOn DEF CDNTypeOK
<1>5. CASE Done(r) /\ UNCHANGED <<access, upset>>
  BY <1>1, <1>2, <1>5, DeletionGoesOn DEF CDNTypeOK
<1>6. CASE Step(r, "unbucket", copy) /\ upset' = TRUE /\ UNCHANGED access
  <2>1. TRUE \in BOOLEAN
    BY Zenon
  <2>2. upset' \in BOOLEAN /\ upset'
    BY <1>6, <2>1
  <2>3. \E stage \in DeletingStage : Step(r, stage, copy)
    BY <1>6 DEF DeletingStage
  <2> QED BY <1>1, <1>2, <1>6, <2>2, <2>3, DeletionGoesOn DEF CDNTypeOK
<1> QED BY <1>4, <1>5, <1>6 DEF RemoveAccess

\* The bucket goes before the row that names it.
LEMMA RemoveBucketStep ==
    ASSUME CDNInv, NEW r \in Requests, RemoveBucket(r)
    PROVE  CDNInv'
<1> DEFINE copy == request[r].copy
<1>1. /\ request[r].at = "unbucket" /\ UNCHANGED <<access, site, row, upset>>
      /\ request[r].at \in DeletingStage
  BY DEF RemoveBucket, Serves, DeletingStage
<1>2. /\ CDNTypeOK /\ copy \in RowRecord
      /\ ~upset => /\ RowIsTrue(row) /\ NamesAll(row, bucket, access, site)
                   /\ RequestIsTrue(request[r], row, bucket, access, site)
  BY RequestKnows
<1>3. ~upset => ~access /\ \A s \in Sites : ~Lives(site[s])
  BY <1>1, <1>2 DEF RequestIsTrue
<1>4. CASE bucket' = "none" /\ Step(r, "unrow", copy)
  <2>1. \E stage \in DeletingStage :
          /\ Step(r, stage, copy)
          /\ ~upset' => (\A s \in Sites : ~Lives(site'[s])) /\ ~access' /\ bucket' = "none"
    BY <1>1, <1>3, <1>4 DEF DeletingStage
  <2>2. ~upset => NamesAll(row', bucket', access', site')
    BY <1>1, <1>2, <1>4 DEF NamesAll
  <2> QED BY <1>1, <1>2, <1>4, <2>1, <2>2, DeletionGoesOn DEF CDNTypeOK
<1>5. CASE Done(r) /\ UNCHANGED bucket
  BY <1>1, <1>2, <1>5, DeletionGoesOn DEF CDNTypeOK
<1> QED BY <1>4, <1>5 DEF RemoveBucket

\* The row goes when nothing is left for it to name.
LEMMA RemoveRowStep ==
    ASSUME CDNInv, NEW r \in Requests, RemoveRow(r)
    PROVE  CDNInv'
<1>1. /\ request[r].at = "unrow" /\ UNCHANGED <<bucket, access, site, upset>> /\ Done(r)
      /\ request[r].at \in DeletingStage /\ row' \in {NoRow, row}
  BY DEF RemoveRow, Serves, DeletingStage, aws
<1>2. /\ CDNTypeOK
      /\ ~upset => /\ RowIsTrue(row) /\ NamesAll(row, bucket, access, site)
                   /\ RequestIsTrue(request[r], row, bucket, access, site)
  BY RequestKnows
<1>3. ~upset => ~access /\ bucket = "none" /\ \A s \in Sites : ~Lives(site[s])
  BY <1>1, <1>2 DEF RequestIsTrue
<1>4. ~upset => NamesAll(row', bucket', access', site') /\ RowIsTrue(row')
  BY <1>1, <1>2, <1>3, NoRowIsOne DEF NamesAll, RowIsTrue
<1> QED BY <1>1, <1>2, <1>4, NoRowIsOne, DeletionGoesOn DEF CDNTypeOK

\* AWS goes on by itself: no request and no row changes.
LEMMA WorldGoesOn ==
    ASSUME CDNInv, UNCHANGED <<access, row, request, upset>>,
           bucket' \in {"none", "empty", "full"}, bucket' = "none" <=> bucket = "none",
           site' \in [Sites -> SiteState], \A s \in Sites : Lives(site'[s]) <=> Lives(site[s])
    PROVE  CDNInv'
<1>1. CDNTypeOK'
  BY DEF CDNInv, CDNTypeOK
<1> SUFFICES ASSUME ~upset' PROVE CDNIsTrue'
  BY <1>1 DEF CDNInv
<1>2. CDNIsTrue
  BY DEF CDNInv
<1>3. NamesAll(row', bucket', access', site')
  BY <1>2 DEF CDNIsTrue, NamesAll
<1>4. ASSUME NEW q \in Requests
      PROVE  RequestIsTrue(request'[q], row', bucket', access', site')
  <2>1. RequestIsTrue(request[q], row, bucket, access, site)
    BY <1>2 DEF CDNIsTrue
  <2> QED BY <2>1 DEF RequestIsTrue
<1>5. OneCreates' /\ RowIsTrue(row')
  BY <1>2 DEF CDNIsTrue, OneCreates, RowIsTrue, Creating, Deleting
<1> QED BY <1>3, <1>4, <1>5 DEF CDNIsTrue, RequestIsTrue, NamesAll, RowIsTrue

\* CloudFront changes the state of a distribution, not whether there is one.
LEMMA PropagateStep == CDNInv /\ Propagate => CDNInv'
<1> SUFFICES ASSUME CDNInv, Propagate PROVE CDNInv'
  OBVIOUS
<1>1. site \in [Sites -> SiteState] /\ bucket \in {"none", "empty", "full"}
  BY DEF CDNInv, CDNTypeOK
<1>2. /\ site' \in [Sites -> SiteState] /\ \A s \in Sites : Lives(site'[s]) <=> Lives(site[s])
      /\ UNCHANGED <<bucket, access, row, request, upset>>
  BY <1>1 DEF Propagate, SiteState, Lives
<1> QED BY <1>1, <1>2, WorldGoesOn

\* Objects come and go in a bucket that a row names.
LEMMA ChangeObjectsStep == CDNInv /\ ChangeObjects => CDNInv'
BY WorldGoesOn DEF ChangeObjects, CDNInv, CDNTypeOK

\* The end of the process ends every request.
LEMMA StopRequestsStep == CDNInv /\ StopRequests => CDNInv'
<1> SUFFICES ASSUME CDNInv, StopRequests PROVE CDNInv'
  OBVIOUS
<1>1. /\ request' \in [Requests -> RequestRecord] /\ UNCHANGED <<bucket, access, site, row, upset>>
      /\ \A r \in Requests : request'[r].at = "served"
  BY NoRowIsOne DEF StopRequests, aws
<1>2. CDNTypeOK'
  BY <1>1 DEF CDNInv, CDNTypeOK
<1> SUFFICES ASSUME ~upset' PROVE CDNIsTrue'
  BY <1>2 DEF CDNInv
<1>3. RowIsTrue(row) /\ NamesAll(row, bucket, access, site)
  BY <1>1 DEF CDNInv, CDNIsTrue
<1>4. OneCreates'
  BY <1>1 DEF OneCreates, Creating
<1>5. ASSUME NEW q \in Requests
      PROVE  RequestIsTrue(request'[q], row', bucket', access', site')
  BY <1>1 DEF RequestIsTrue, CreatingStage, DeletingStage
<1> QED BY <1>1, <1>3, <1>4, <1>5 DEF CDNIsTrue, RequestIsTrue, NamesAll, RowIsTrue

\* At the start there is no row and nothing to name.
LEMMA CDNInitially == CDNInit => CDNInv
<1> SUFFICES ASSUME CDNInit PROVE CDNInv
  OBVIOUS
<1>1. FALSE \in BOOLEAN
  BY Zenon
<1>2. CDNTypeOK
  BY <1>1, NoRowIsOne DEF CDNInit, CDNTypeOK, SiteState
<1>3. \A r \in Requests : request[r].at = "served"
  BY NoRowIsOne DEF CDNInit
<1>4. OneCreates /\ \A r \in Requests : RequestIsTrue(request[r], row, bucket, access, site)
  BY <1>3 DEF OneCreates, Creating, RequestIsTrue, CreatingStage, DeletingStage
<1>5. RowIsTrue(row) /\ NamesAll(row, bucket, access, site)
  BY NoRowIsOne DEF CDNInit, RowIsTrue, NamesAll, Lives
<1> QED BY <1>2, <1>4, <1>5 DEF CDNInv, CDNIsTrue

\* Every state keeps the invariant.
THEOREM CDNInvariant == CDNSpec => []CDNInv
<1>1. CDNInv /\ [CDNNext]_cdnVars => CDNInv'
  <2> SUFFICES ASSUME CDNInv, [CDNNext]_cdnVars PROVE CDNInv'
    OBVIOUS
  <2>1. CASE UNCHANGED cdnVars
    <3>1. UNCHANGED <<access, row, request, upset, bucket, site>>
      BY <2>1 DEF cdnVars, aws
    <3> QED BY <3>1, WorldGoesOn DEF CDNInv, CDNTypeOK
  <2>2. ASSUME NEW r \in Requests,
               \/ StartCreate(r) \/ MakeBucket(r) \/ ConfigureBucket(r) \/ MakeAccess(r) \/ MakeSite(r)
               \/ PutPolicy(r) \/ StartRefresh(r) \/ AskSite(r) \/ SaveRefreshed(r)
        PROVE  CDNInv'
    BY <2>2, StartCreateStep, MakeBucketStep, ConfigureBucketStep, MakeAccessStep, MakeSiteStep,
       PutPolicyStep, StartRefreshStep, AskSiteStep, SaveRefreshedStep
  <2>3. ASSUME NEW r \in Requests,
               \/ StartDelete(r) \/ ListObjects(r) \/ RemoveSite(r) \/ RemoveAccess(r)
               \/ RemoveBucket(r) \/ RemoveRow(r)
        PROVE  CDNInv'
    BY <2>3, StartDeleteStep, ListObjectsStep, RemoveSiteStep, RemoveAccessStep, RemoveBucketStep,
       RemoveRowStep
  <2> QED BY <2>1, <2>2, <2>3, PropagateStep, ChangeObjectsStep, StopRequestsStep DEF CDNNext
<1> QED BY <1>1, CDNInitially, PTL DEF CDNSpec

\* The row names everything the site has in AWS, unless an effect was lost.
THEOREM RowNamesEverythingHolds == CDNSpec => []RowNamesEverything
<1>1. CDNInv => RowNamesEverything
  BY DEF CDNInv, CDNIsTrue, NamesAll, Lives, RowNamesEverything
<1> QED BY <1>1, CDNInvariant, PTL
===============================================================================
