-------------------------------- MODULE Sessions -------------------------------
(***************************************************************************)
(* The sessions of one account (internal/auth/service.go): a map under a   *)
(* mutex, checked at every request against the account's row, which the    *)
(* account's own requests and an administrator rewrite as a whole          *)
(* (internal/httpapi/server.go).  A session carries the updated_at of the  *)
(* row it was opened with, and a later row ends it.                        *)
(***************************************************************************)
EXTENDS Naturals, FiniteSets

CONSTANTS
    Visits,         \* numbers of the requests under way at one time
    MaxTokens,      \* bound on the sessions opened
    MaxSessions,    \* sessions an account keeps: 20 in the code
    MaxChanges      \* bound on the writes of the row

ASSUME SessionsAssumption == Visits \subseteq Nat /\ MaxTokens \in Nat /\ MaxSessions \in Nat \ {0} /\ MaxChanges \in Nat

VARIABLES
    account,    \* the row of users, or NoAccount
    changes,    \* the last updated_at; a new password is named by its own
    open,       \* the sessions, by token in the order of their expiry
    tokens,     \* tokens given out
    visit,      \* what each request does
    administrator,      \* the row an administrator has read, and whether it is about to save it
    keptIn      \* tokens a profile update alone with its session promised to keep, until
                \* the account changes again

sessionVars == <<account, changes, open, tokens, visit, administrator, keptIn>>

NoAccount == [active |-> FALSE, password |-> 0, updated |-> 0]
NoSession == [updated |-> 0, password |-> 0, late |-> FALSE, crossed |-> FALSE]
NoVisit == [does |-> "nothing", at |-> "start", token |-> 0, session |-> NoSession, user |-> NoAccount,
            crossed |-> FALSE]
Does == {"page", "profile", "password", "logout"}

\* Requests are alike: the next one takes the first free number.
Comes(v) == visit[v] = NoVisit /\ \A w \in Visits : w < v => visit[w] # NoVisit
Stands(v, where) == visit[v].at = where
Walks(v, where) == visit' = [visit EXCEPT ![v].at = where]
GoesWith(v, where, user) == visit' = [visit EXCEPT ![v].at = where, ![v].user = user]
EndsVisit(v) == visit' = [visit EXCEPT ![v] = NoVisit]
WithoutSession(t) == open' = [open EXCEPT ![t] = NoSession] /\ keptIn' = keptIn \ {t}

\* SaveUser: INSERT ... ON DUPLICATE KEY UPDATE of every column.
SaveUser(user, keeps) ==
    /\ changes < MaxChanges
    /\ changes' = changes + 1
    /\ account' = [user EXCEPT !.updated = changes']
    /\ keptIn' = keeps

\* Login reads the row before it verifies the password.
StartLogin(v) ==
    /\ Comes(v) /\ tokens < MaxTokens
    /\ account.active
    /\ tokens' = tokens + 1
    /\ visit' = [visit EXCEPT ![v] = [NoVisit EXCEPT !.does = "login", !.at = "open",
                                                    !.token = tokens', !.user = account]]
    /\ UNCHANGED <<account, changes, open, administrator, keptIn>>
\* pruneLocked and limitUserSessionsLocked drop the overdue sessions and the first to expire.
Opened == {t \in 1 .. MaxTokens : open[t] # NoSession}
Pruned == {t \in Opened : ~open[t].late}
Dropped == {t \in Pruned : Cardinality({u \in Pruned : u >= t}) >= MaxSessions}
OpenSession(v) ==
    /\ Stands(v, "open")
    /\ LET stays == Pruned \ Dropped IN
       /\ open' = [t \in 1 .. MaxTokens |->
                      IF t = visit[v].token
                        THEN [NoSession EXCEPT !.updated = visit[v].user.updated,
                                               !.password = visit[v].user.password]
                        ELSE IF t \in stays THEN open[t] ELSE NoSession]
       /\ keptIn' = keptIn \cap stays
    /\ EndsVisit(v)
    /\ UNCHANGED <<account, changes, tokens, administrator>>

\* Requests of the session that are between the map and the row, or in a profile update.
Authenticates(v, t) == visit[v].token = t /\ visit[v].at \in {"lookup", "store"}
Updates(v, t) == visit[v].token = t /\ visit[v].at \in {"reread", "refresh"}

\* Authenticate takes a copy of the session under the lock ...
Ask(v, t, what) ==
    /\ Comes(v) /\ open[t] # NoSession
    /\ IF open[t].late
         THEN WithoutSession(t) /\ UNCHANGED visit
         ELSE /\ visit' = [visit EXCEPT ![v] = [NoVisit EXCEPT !.does = what, !.at = "lookup",
                                                              !.token = t, !.session = open[t]]]
              /\ keptIn' = IF \E w \in Visits : Updates(w, t) THEN keptIn \ {t} ELSE keptIn
              /\ UNCHANGED open
    /\ UNCHANGED <<account, changes, tokens, administrator>>
\* ... reads the row without it: a row that has gone, is inactive or younger ends the session ...
\* Mutant: only a deactivated account ends its sessions.
OutdatedInactive(user, session) == ~user.active
Outdated(user, session) == ~user.active \/ user.updated > session.updated
LookUp(v) ==
    /\ Stands(v, "lookup")
    /\ IF Outdated(account, visit[v].session)
         THEN open' = [open EXCEPT ![visit[v].token] = NoSession] /\ EndsVisit(v)
         ELSE GoesWith(v, "store", account) /\ UNCHANGED open
    /\ UNCHANGED <<account, changes, tokens, administrator, keptIn>>
\* ... and stores its copy if the session is still there.
Handled(v) ==
    IF visit[v].does = "page" THEN EndsVisit(v)
    ELSE visit' = [visit EXCEPT ![v].at = [profile |-> "read", password |-> "verify",
                                           logout |-> "logout"][visit[v].does],
                                ![v].session = NoSession,
                                ![v].user = IF visit[v].does = "profile" THEN @ ELSE NoAccount]
\* Mutant: the copy is stored without asking whether the session is still there.
StoreAnyway(v) ==
    /\ Stands(v, "store")
    /\ open' = [open EXCEPT ![visit[v].token] = [visit[v].session EXCEPT !.late = open[visit[v].token].late,
                                                                       !.crossed = open[visit[v].token].crossed]]
    /\ Handled(v)
    /\ UNCHANGED <<account, changes, tokens, administrator, keptIn>>
StoreSession(v) ==
    /\ Stands(v, "store")
    /\ LET t == visit[v].token IN
       open' = IF open[t] = NoSession THEN open
               ELSE [open EXCEPT ![t] = [visit[v].session EXCEPT !.late = open[t].late,
                                                                 !.crossed = open[t].crossed]]
    /\ Handled(v)
    /\ UNCHANGED <<account, changes, tokens, administrator, keptIn>>

Logout(v) ==
    /\ Stands(v, "logout")
    /\ WithoutSession(visit[v].token)
    /\ EndsVisit(v)
    /\ UNCHANGED <<account, changes, tokens, administrator>>

\* updateCurrentPassword: ReauthenticateRequest reads the row once more.
Verify(v) ==
    /\ Stands(v, "verify")
    /\ IF account.active THEN Walks(v, "read") ELSE EndsVisit(v)
    /\ UNCHANGED <<account, changes, open, tokens, administrator, keptIn>>
\* updateCurrentProfile and updateCurrentPassword read the whole row ...
Reads(v, next) ==
    IF account = NoAccount THEN EndsVisit(v)
    ELSE visit' = [visit EXCEPT ![v].at = next, ![v].user = account,
                       ![v].crossed = visit[v].does = "profile"
                                        /\ (@ \/ account.updated # visit[v].user.updated)]
ReadUser(v) ==
    /\ Stands(v, "read")
    /\ Reads(v, "save")
    /\ UNCHANGED <<account, changes, open, tokens, administrator, keptIn>>
\* ... and write it back with the new name or password.
SaveOwn(v) ==
    /\ Stands(v, "save")
    /\ LET profile == visit[v].does = "profile"
           t == visit[v].token
           alone == \A w \in Visits \ {v} : ~Authenticates(w, t) /\ ~Updates(w, t)
           user == IF profile THEN visit[v].user
                   ELSE [visit[v].user EXCEPT !.password = changes + 1]
       IN  /\ SaveUser(user, IF profile /\ user.active /\ alone THEN {t} \cap Pruned ELSE {})
           /\ IF profile THEN GoesWith(v, "reread", account') ELSE GoesWith(v, "logout", NoAccount)
    /\ UNCHANGED <<open, tokens, administrator>>
\* The row is read again for its updated_at, which SaveUser has moved ...
ReadSaved(v) ==
    /\ Stands(v, "reread")
    /\ Reads(v, "refresh")
    /\ UNCHANGED <<account, changes, open, tokens, administrator, keptIn>>
\* ... and RefreshCurrentSession takes it over, unless the session has ended.
RefreshSession(v) ==
    /\ Stands(v, "refresh")
    /\ LET t == visit[v].token IN
       open' = IF t \in Pruned
                 THEN [open EXCEPT ![t].updated = visit[v].user.updated, ![t].crossed = @ \/ visit[v].crossed]
                 ELSE open
    /\ EndsVisit(v)
    /\ UNCHANGED <<account, changes, tokens, administrator, keptIn>>

\* Any statement may fail, and a write may have taken effect nevertheless.
StatementFails(v) ==
    /\ visit[v].at \in {"lookup", "verify", "read", "save", "reread"}
    /\ IF Stands(v, "save")
         THEN SaveUser(visit[v].user, {}) \/ UNCHANGED <<account, changes, keptIn>>
         ELSE UNCHANGED <<account, changes>> /\ keptIn' = keptIn \ {visit[v].token}
    /\ EndsVisit(v)
    /\ UNCHANGED <<open, tokens, administrator>>

\* An administrator's updateUser reads the row and later saves it with its own
\* fields; createUser saves one where it found none; deleteUser removes it.
AdminReads ==
    /\ ~administrator.saves
    /\ administrator' = [saves |-> TRUE, user |-> account]
    /\ UNCHANGED <<account, changes, open, tokens, visit, keptIn>>
AdminSaves(active, password) ==
    /\ administrator.saves
    /\ administrator.user = NoAccount => password
    /\ SaveUser([administrator.user EXCEPT !.active = active,
                                   !.password = IF password THEN changes + 1 ELSE @], {})
    /\ administrator' = [saves |-> FALSE, user |-> NoAccount]
    /\ UNCHANGED <<open, tokens, visit>>
AdminDeletes ==
    /\ account # NoAccount
    /\ account' = NoAccount /\ keptIn' = {}
    /\ UNCHANGED <<changes, open, tokens, visit, administrator>>

\* A session's lifetime ends: it is dropped by whoever meets it next.
RunsOut(t) ==
    /\ t \in Pruned /\ \A u \in Pruned : u >= t
    /\ open' = [open EXCEPT ![t].late = TRUE] /\ keptIn' = keptIn \ {t}
    /\ UNCHANGED <<account, changes, tokens, visit, administrator>>

SessionsInit ==
    /\ account = [active |-> TRUE, password |-> 1, updated |-> 1] /\ changes = 1
    /\ open = [t \in 1 .. MaxTokens |-> NoSession] /\ tokens = 0
    /\ visit = [v \in Visits |-> NoVisit]
    /\ administrator = [saves |-> FALSE, user |-> NoAccount]
    /\ keptIn = {}
Visit(v) ==
    \/ StartLogin(v) \/ OpenSession(v)
    \/ \E t \in 1 .. MaxTokens, what \in Does : Ask(v, t, what)
    \/ LookUp(v) \/ StoreSession(v) \/ Logout(v)
    \/ Verify(v) \/ ReadUser(v) \/ SaveOwn(v) \/ ReadSaved(v) \/ RefreshSession(v)
    \/ StatementFails(v)
SessionsNext ==
    \/ \E v \in Visits : Visit(v)
    \/ AdminReads \/ AdminDeletes
    \/ \E active, password \in BOOLEAN : AdminSaves(active, password)
    \/ \E t \in 1 .. MaxTokens : RunsOut(t)
SessionsSpec == SessionsInit /\ [][SessionsNext]_sessionVars

\* A profile update keeps its caller signed in (auth/service.go:234), unless
\* another request of the session was under authentication during the update:
\* that request drops the session, or stores the copy of before the refresh.
ProfileUpdateKeepsSession ==
    \A t \in keptIn :
        open[t].updated = account.updated \/ \E v \in Visits : Updates(v, t)

\* No request passes with a session that was opened under another password than
\* the account has when it is looked up.  A profile update that meets another
\* change takes over the updated_at of that change: those sessions are left out.
PasswordChangeEndsSessions ==
    \A v \in Visits :
        Stands(v, "store") /\ ~visit[v].session.crossed
            => visit[v].session.password = visit[v].user.password

\* What an account's changes do to its sessions: its own updates keep the caller
\* signed in, a new password ends the sessions of the old one.
SessionsFollowAccount == ProfileUpdateKeepsSession /\ PasswordChangeEndsSessions

\* A session that has ended, by a logout, a change of the account, its age or the
\* limit, never comes back, whatever the requests that still hold a copy do.
EndedSessionsStayEnded ==
    [][\A t \in 1 .. tokens : open[t] = NoSession /\ open'[t] # NoSession
           => \E v \in Visits : Stands(v, "open") /\ visit[v].token = t]_sessionVars
===============================================================================
