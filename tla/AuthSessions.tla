---------------------------- MODULE AuthSessions ----------------------------
(***************************************************************************)
(* The log-in sessions of one account: ppms/app/services/auth_sessions.py  *)
(* behind ppms/app/api/auth.py and ppms/app/core/dependencies.py.  As in   *)
(* ConcurrentPostings the requests overlap: each decides on rows it has    *)
(* read, and its commit writes the columns it changed.                     *)
(*                                                                         *)
(* A password and a refresh token are known by the order in which they     *)
(* were set and issued.  Of locked_until only where it lies is kept.  An   *)
(* access token names its session and opens nothing by itself, since every *)
(* request looks the session up; that an access token or a session expires *)
(* only refuses requests, as if the client no longer made them.            *)
(***************************************************************************)
EXTENDS Naturals, Sequences, FiniteSets

CONSTANTS
  Threads,                  \* the threads of the pool
  MaxFailedLoginAttempts,
  MaxSessions,              \* bound: rows of the auth_sessions table
  MaxTokens,                \* bound: refresh tokens issued
  MaxPasswords              \* bound: passwords the account has had

ASSUME AuthAssumption ==
  /\ MaxFailedLoginAttempts \in Nat \ {0, 1}
  /\ MaxSessions \in Nat /\ MaxTokens \in Nat /\ MaxPasswords \in Nat \ {0}

VARIABLES
  account,    \* the user's columns
  sessions,   \* the auth_sessions table, and two columns of history
  tokens,     \* number of refresh tokens issued
  passwords,  \* number of passwords set
  step, task, read,   \* of each thread: where it is, its request, what it has read
  exchanged,  \* history: the refresh tokens that were accepted
  denials,    \* history: refused passwords since the last success or lock
  miscounted  \* history: a log-in was decided on an outdated count

tables == <<account, sessions, tokens, passwords>>
threads == <<step, task, read>>
vars == <<tables, threads, exchanged, denials, miscounted>>

-----------------------------------------------------------------------------
Account == [password : Nat \ {0}, is_active : BOOLEAN,
            failed_login_attempts : 0..(MaxFailedLoginAttempts - 1),
            locked_until : {"none", "future", "past"}]

\* password: the one it was opened with; late: opened by a log-in that a change of
\* the password did not see, or that did not see the change.
SessionRow == [token : Nat \ {0}, is_active : BOOLEAN,
               password : Nat \ {0}, late : BOOLEAN]

Ops == {"none", "login", "refresh", "logout", "logout_all", "change_password", "reset_password"}
Steps == {"idle", "denied", "admitted", "found", "authorized", "selected"}

Task == [op : Ops, session : Nat, token : Nat, password : Nat]
NoTask == [op |-> "none", session |-> 0, token |-> 0, password |-> 0]

\* What a log-in has read of the account; which sessions a request will revoke, and
\* how many there were.
Read == [failed : 0..(MaxFailedLoginAttempts - 1), locked : {"none", "future", "past"},
         ids : SUBSET (1..MaxSessions), count : 0..MaxSessions]

NothingRead == [failed |-> 0, locked |-> "none", ids |-> {}, count |-> 0]

\* A session of the database writes a column only if the request changed its value.
Written(was, new, now) == IF new = was THEN now ELSE new

Open(w, t, r, next) ==
  /\ step[w] = "idle"
  /\ step' = [step EXCEPT ![w] = next]
  /\ task' = [task EXCEPT ![w] = t]
  /\ read' = [read EXCEPT ![w] = r]
  /\ UNCHANGED <<tables, exchanged, denials, miscounted>>

Close(w) ==
  /\ step' = [step EXCEPT ![w] = "idle"]
  /\ task' = [task EXCEPT ![w] = NoTask]
  /\ read' = [read EXCEPT ![w] = NothingRead]

-----------------------------------------------------------------------------
\* Logging in.  Checking the password takes long; meanwhile others commit.

OpenLogin(w, password) ==
  LET r == [NothingRead EXCEPT !.failed = account.failed_login_attempts,
                               !.locked = account.locked_until]
  IN
  /\ account.locked_until # "future"
  /\ \/ /\ password = account.password /\ account.is_active
        /\ Open(w, [NoTask EXCEPT !.op = "login", !.password = password], r, "admitted")
     \/ /\ password # account.password
        /\ Open(w, [NoTask EXCEPT !.op = "login"], r, "denied")

\* History of the count: what is refused or let in on an outdated count is not
\* counted any more.
Counted(w, refused) ==
  LET outdated == miscounted \/ account.failed_login_attempts # read[w].failed
  IN  /\ miscounted' = outdated
      /\ denials' = IF outdated THEN 0 ELSE refused

Locks(attempts) == attempts >= MaxFailedLoginAttempts

\* record_failed_login
CommitDenied(w) ==
  LET attempts == read[w].failed + 1
      locks    == Locks(attempts)
  IN
  /\ step[w] = "denied"
  /\ account' = [account EXCEPT
       !.failed_login_attempts =
          Written(read[w].failed, IF locks THEN 0 ELSE attempts, @),
       !.locked_until = IF locks THEN "future" ELSE @]
  /\ Counted(w, IF locks THEN 0 ELSE denials + 1)
  /\ Close(w)
  /\ UNCHANGED <<sessions, tokens, passwords, exchanged>>

\* Slip: the count of failures goes on after a success.
KeepFailures(was, now) ==
  [now EXCEPT !.locked_until = Written(was.locked, "none", @)]

\* Slip: the lock is lifted whatever was read.
LiftAnyLock(was, now) ==
  [now EXCEPT !.failed_login_attempts = Written(was.failed, 0, @),
              !.locked_until = "none"]

ResetLoginFailures(was, now) ==
  [now EXCEPT !.failed_login_attempts = Written(was.failed, 0, @),
              !.locked_until = Written(was.locked, "none", @)]

CommitLogin(w) ==
  /\ step[w] = "admitted"
  /\ Len(sessions) < MaxSessions /\ tokens < MaxTokens
  /\ account' = ResetLoginFailures(read[w], account)
  /\ sessions' = Append(sessions,
       [token |-> tokens + 1, is_active |-> TRUE,
        password |-> task[w].password, late |-> account.password # task[w].password])
  /\ tokens' = tokens + 1
  /\ Counted(w, 0)
  /\ Close(w)
  /\ UNCHANGED <<passwords, exchanged>>

-----------------------------------------------------------------------------
\* Exchanging a refresh token: the session is found by it, then the user is loaded,
\* then the row is updated by its id.

OpenRefresh(w, s) ==
  /\ sessions[s].is_active
  /\ Open(w, [NoTask EXCEPT !.op = "refresh", !.session = s, !.token = sessions[s].token],
          NothingRead, "found")

CheckUser(w) ==
  /\ step[w] = "found"
  /\ account.is_active /\ account.locked_until # "future"
  /\ step' = [step EXCEPT ![w] = "authorized"]
  /\ UNCHANGED <<tables, task, read, exchanged, denials, miscounted>>

\* Slip: the token stays good after it was exchanged.
KeepToken(row, token) == row

\* Slip: the row is written as it was read, active.
ReviveSession(row, token) == [row EXCEPT !.token = token, !.is_active = TRUE]

Rotated(row, token) == [row EXCEPT !.token = token]

CommitRefresh(w) ==
  LET s == task[w].session IN
  /\ step[w] = "authorized" /\ task[w].op = "refresh"
  /\ tokens < MaxTokens
  /\ sessions' = [sessions EXCEPT ![s] = Rotated(@, tokens + 1)]
  /\ tokens' = tokens + 1
  /\ exchanged' = exchanged \cup {task[w].token}
  /\ Close(w)
  /\ UNCHANGED <<account, passwords, denials, miscounted>>

-----------------------------------------------------------------------------
\* Revoking sessions: the caller is authorized (get_current_user), the sessions are
\* selected, and the rows selected are updated.

OpenRevocation(w, op, s) ==
  /\ account.is_active /\ sessions[s].is_active
  /\ Open(w, [NoTask EXCEPT !.op = op, !.session = s], NothingRead, "authorized")

OpenChangePassword(w, s, password) ==
  /\ password = account.password
  /\ OpenRevocation(w, "change_password", s)

\* An administrator's request, authorized by a session of another account.
OpenResetPassword(w) == Open(w, [NoTask EXCEPT !.op = "reset_password"], NothingRead, "authorized")

\* Slip: the sessions of others stay, like the caller's own in logout_all.
ToRevokeKeepingOwn(t) ==
  LET active == {s \in 1..Len(sessions) : sessions[s].is_active} IN
  CASE t.op = "logout" -> active \cap {t.session}
    [] t.op = "reset_password" -> active
    [] OTHER -> active \ {t.session}

ToRevoke(t) ==
  LET active == {s \in 1..Len(sessions) : sessions[s].is_active} IN
  CASE t.op = "logout"     -> active \cap {t.session}
    [] t.op = "logout_all" -> active \ {t.session}
    [] OTHER -> active

SelectSessions(w) ==
  /\ step[w] = "authorized" /\ task[w].op # "refresh"
  /\ step' = [step EXCEPT ![w] = "selected"]
  /\ read' = [read EXCEPT ![w].ids = ToRevoke(task[w]), ![w].count = Len(sessions)]
  /\ UNCHANGED <<tables, task, exchanged, denials, miscounted>>

Revoked(w, sets) ==
  [s \in 1..Len(sessions) |->
     [sessions[s] EXCEPT !.is_active = @ /\ s \notin read[w].ids,
                         !.late = @ \/ (sets /\ s > read[w].count)]]

CommitRevocation(w) ==
  /\ step[w] = "selected" /\ task[w].op \in {"logout", "logout_all"}
  /\ sessions' = Revoked(w, FALSE)
  /\ Close(w)
  /\ UNCHANGED <<account, tokens, passwords, exchanged, denials, miscounted>>

CommitPassword(w) ==
  /\ step[w] = "selected" /\ task[w].op \in {"change_password", "reset_password"}
  /\ passwords < MaxPasswords
  /\ passwords' = passwords + 1
  /\ account' = [account EXCEPT !.password = passwords + 1]
  /\ sessions' = Revoked(w, TRUE)
  /\ Close(w)
  /\ UNCHANGED <<tokens, exchanged, denials, miscounted>>

-----------------------------------------------------------------------------
\* A request is refused at its second check, or it fails (the database stays locked).
Abandon(w) ==
  /\ step[w] # "idle"
  /\ Close(w)
  /\ UNCHANGED <<tables, exchanged, denials, miscounted>>

\* update_user: the request of an administrator.
SetActive(active) ==
  /\ account' = [account EXCEPT !.is_active = active]
  /\ UNCHANGED <<sessions, tokens, passwords, threads, exchanged, denials, miscounted>>

LockEnds ==
  /\ account.locked_until = "future"
  /\ account' = [account EXCEPT !.locked_until = "past"]
  /\ UNCHANGED <<sessions, tokens, passwords, threads, exchanged, denials, miscounted>>

-----------------------------------------------------------------------------
Init ==
  /\ account = [password |-> 1, is_active |-> TRUE, failed_login_attempts |-> 0,
                locked_until |-> "none"]
  /\ sessions = << >> /\ tokens = 0 /\ passwords = 1
  /\ step = [w \in Threads |-> "idle"]
  /\ task = [w \in Threads |-> NoTask]
  /\ read = [w \in Threads |-> NothingRead]
  /\ exchanged = {} /\ denials = 0 /\ miscounted = FALSE

Request(w) ==
  \/ \E password \in 0..passwords : OpenLogin(w, password)
  \/ \E s \in 1..Len(sessions) :
       \/ OpenRefresh(w, s)
       \/ \E op \in {"logout", "logout_all"} : OpenRevocation(w, op, s)
       \/ \E password \in 1..passwords : OpenChangePassword(w, s, password)
  \/ OpenResetPassword(w)

Progress(w) ==
  \/ CommitDenied(w)
  \/ CommitLogin(w)
  \/ CheckUser(w)
  \/ CommitRefresh(w)
  \/ SelectSessions(w)
  \/ CommitRevocation(w)
  \/ CommitPassword(w)
  \/ Abandon(w)

Next ==
  \/ \E w \in Threads : Request(w) \/ Progress(w)
  \/ \E active \in BOOLEAN : SetActive(active)
  \/ LockEnds

Spec == Init /\ [][Next]_vars

-----------------------------------------------------------------------------
SessionsTypeOK ==
  /\ account \in Account /\ sessions \in Seq(SessionRow)
  /\ Len(sessions) <= MaxSessions /\ tokens \in 0..MaxTokens
  /\ passwords \in 1..MaxPasswords
  /\ step \in [Threads -> Steps] /\ task \in [Threads -> Task] /\ read \in [Threads -> Read]
  /\ exchanged \subseteq 1..MaxTokens
  /\ denials \in 0..(MaxFailedLoginAttempts - 1) /\ miscounted \in BOOLEAN

\* A step revives no session.
KeepsRevoked == \A s \in 1..Len(sessions) : ~sessions[s].is_active => ~sessions'[s].is_active

\* A session that was logged out stays so, whatever request with its token was under
\* way: refresh_user_session updates the row, but not the column it did not change.
RevokedForGood == [][KeepsRevoked]_vars

\* Changing or resetting the password ends the sessions opened with the old one: a
\* session that lives on was opened by a log-in that overlapped the change.
SessionsKnowPassword ==
  \A s \in 1..Len(sessions) :
    sessions[s].is_active => sessions[s].password = account.password \/ sessions[s].late

\* A refresh token that was exchanged finds no session any more: it can only be
\* accepted again by a request that had found the session before.
ExchangedOnce == \A s \in 1..Len(sessions) : sessions[s].token \notin exchanged

\* A step ends a lock with its time, or by a log-in that had found an earlier lock
\* run out.
LiftedByRight ==
  account.locked_until = "future" =>
    \/ account'.locked_until \in {"future", "past"}
    \/ \E w \in Threads : read[w].locked = "past" /\ CommitLogin(w)

\* A log-in that was let in before the account was locked does not lift the lock,
\* unless an earlier lock was still on record when it read the account.
LockHolds == [][LiftedByRight]_vars

\* Failed log-ins are counted from the last success or lock, unless a log-in was
\* decided on a count that had moved.
FailuresCounted == miscounted \/ account.failed_login_attempts = denials

=============================================================================
