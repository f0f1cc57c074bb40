---------------------------- MODULE AccessProofs ----------------------------
(***************************************************************************)
(* Proofs about who gets in and how far: about AuthSessions for any number *)
(* of threads and any bounds, and about TenantBooks for any organizations, *)
(* stations, roles and users.                                              *)
(*                                                                         *)
(*   1. Sessions.  One invariant carries them: the tables are well formed, *)
(*      tokens are issued once, and what each request under way has read   *)
(*      is still good enough for what it will write.                       *)
(*   2. Tenants.  The invariant says table by table what a row may refer   *)
(*      to; it takes roles by their ids, as the core roles keep their      *)
(*      names (RolesKept), so that renaming one moves nobody's scope.      *)
(***************************************************************************)
EXTENDS AuthSessions, TenantBooks, FiniteSetTheorems, WellFoundedInduction, TLAPS

-----------------------------------------------------------------------------
(* 1. Sessions *)

TablesOK ==
  /\ account \in Account /\ sessions \in Seq(SessionRow)
  /\ Len(sessions) <= MaxSessions /\ tokens \in 0..MaxTokens
  /\ passwords \in 1..MaxPasswords
  /\ denials \in 0..(MaxFailedLoginAttempts - 1) /\ miscounted \in BOOLEAN

ThreadsOK ==
  /\ step \in [Threads -> Steps] /\ task \in [Threads -> Task] /\ read \in [Threads -> Read]

\* Every token was issued, to one session.
TokensOK ==
  /\ exchanged \subseteq 1..tokens
  /\ \A s \in 1..Len(sessions) :
       /\ sessions[s].token \in 1..tokens
       /\ \A r \in 1..Len(sessions) : r # s => sessions[r].token # sessions[s].token

\* A refresh knows a session and its token, which no other session gets.
FoundByToken(w) ==
  task[w].op = "refresh" =>
    /\ task[w].session \in 1..Len(sessions) /\ task[w].token \in 1..tokens
    /\ \A s \in 1..Len(sessions) : s # task[w].session => sessions[s].token # task[w].token

\* A log-in was let in with a password and without a lock.
LetIn(w) == step[w] = "admitted" => task[w].password # 0 /\ read[w].locked # "future"

\* Of the sessions there were, a change of the password leaves none active.
SelectedAll(w) ==
  step[w] = "selected" =>
    /\ read[w].count <= Len(sessions)
    /\ task[w].op \in {"change_password", "reset_password"} =>
         \A s \in 1..read[w].count : s \in read[w].ids \/ ~sessions[s].is_active

RequestOK(w) == FoundByToken(w) /\ LetIn(w) /\ SelectedAll(w)

IInv ==
  /\ TablesOK /\ ThreadsOK /\ TokensOK
  /\ SessionsKnowPassword /\ ExchangedOnce /\ FailuresCounted
  /\ \A w \in Threads : RequestOK(w)

\* What every step does to the table of sessions: rows stay, none is revived, and a
\* token that changes is new.
Evolves ==
  /\ Len(sessions') >= Len(sessions) /\ tokens' >= tokens
  /\ \A s \in 1..Len(sessions) :
       /\ sessions'[s].is_active => sessions[s].is_active
       /\ sessions'[s].token = sessions[s].token \/ sessions'[s].token > tokens
  /\ \A s \in (Len(sessions) + 1)..Len(sessions') : sessions'[s].token > tokens

-----------------------------------------------------------------------------
\* A request whose thread does not move stays in order.
LEMMA RequestKept ==
  ASSUME TablesOK, TablesOK', ThreadsOK, Evolves, NEW w \in Threads, RequestOK(w),
         step'[w] = step[w], task'[w] = task[w], read'[w] = read[w]
  PROVE  RequestOK(w)'
<1>1. /\ Len(sessions) \in Nat /\ Len(sessions') \in Nat /\ Len(sessions) <= Len(sessions')
      /\ tokens \in Nat /\ tokens' \in Nat /\ tokens <= tokens'
  BY DEF TablesOK, Evolves
<1>2. task[w].session \in Nat /\ task[w].token \in Nat /\ read[w].count \in Nat
  <2>1. task[w] \in Task /\ read[w] \in Read
    BY DEF ThreadsOK
  <2> QED BY <2>1 DEF Task, Read
<1>3. FoundByToken(w)'
  <2>1. SUFFICES ASSUME task[w].op = "refresh"
                 PROVE  /\ task[w].session \in 1..Len(sessions')
                        /\ task[w].token \in 1..tokens'
                        /\ \A s \in 1..Len(sessions') :
                             s # task[w].session => sessions'[s].token # task[w].token
    BY DEF FoundByToken
  <2>2. /\ task[w].session \in 1..Len(sessions) /\ task[w].token \in 1..tokens
        /\ \A s \in 1..Len(sessions) : s # task[w].session => sessions[s].token # task[w].token
    BY <2>1 DEF RequestOK, FoundByToken
  <2>3. ASSUME NEW s \in 1..Len(sessions'), s # task[w].session
        PROVE  sessions'[s].token # task[w].token
    <3>1. \/ s \in 1..Len(sessions) /\ sessions'[s].token = sessions[s].token
          \/ sessions'[s].token > tokens
      BY <1>1 DEF Evolves
    <3> QED BY <3>1, <2>2, <2>3, <1>1, <1>2
  <2> QED BY <2>2, <2>3, <1>1
<1>4. LetIn(w)'
  BY DEF RequestOK, LetIn
<1>5. SelectedAll(w)'
  <2>1. \A s \in 1..read[w].count : read[w].count <= Len(sessions) => s \in 1..Len(sessions)
    BY <1>1, <1>2
  <2> QED BY <1>1, <1>2, <2>1 DEF RequestOK, SelectedAll, Evolves
<1> QED BY <1>3, <1>4, <1>5 DEF RequestOK

\* A request that ends leaves the others in order.
LEMMA ClosingKeepsRequests ==
  ASSUME IInv, TablesOK', Evolves, NEW w \in Threads, Close(w)
  PROVE  ThreadsOK' /\ \A v \in Threads : RequestOK(v)'
<1>1. NoTask \in Task /\ NothingRead \in Read
  BY AuthAssumption DEF NoTask, Task, Ops, NothingRead, Read
<1>2. ThreadsOK'
  BY <1>1 DEF IInv, ThreadsOK, Close, Steps
<1>3. RequestOK(w)'
  <2>1. step'[w] = "idle" /\ task'[w] = NoTask
    BY DEF IInv, ThreadsOK, Close
  <2> QED BY <2>1 DEF RequestOK, FoundByToken, LetIn, SelectedAll, NoTask
<1>4. ASSUME NEW v \in Threads, v # w PROVE RequestOK(v)'
  <2>1. step'[v] = step[v] /\ task'[v] = task[v] /\ read'[v] = read[v]
    BY <1>4 DEF IInv, ThreadsOK, Close
  <2> QED BY <2>1, RequestKept DEF IInv
<1> QED BY <1>2, <1>3, <1>4

\* Tables that stay as they are evolve.
LEMMA UnchangedEvolves ==
  ASSUME TablesOK, UNCHANGED <<sessions, tokens>>
  PROVE  Evolves
BY DEF TablesOK, Evolves

\* A step that leaves all but the threads keeps what the tables promise.
LEMMA ThreadStepKeepsTables ==
  ASSUME IInv, UNCHANGED <<tables, exchanged, denials, miscounted>>
  PROVE  /\ TablesOK' /\ TokensOK' /\ Evolves
         /\ SessionsKnowPassword' /\ ExchangedOnce' /\ FailuresCounted'
<1>1. /\ account' = account /\ sessions' = sessions /\ tokens' = tokens
      /\ passwords' = passwords /\ exchanged' = exchanged /\ denials' = denials
      /\ miscounted' = miscounted
  BY DEF tables
<1> QED BY <1>1, UnchangedEvolves
        DEF IInv, TablesOK, TokensOK, SessionsKnowPassword, ExchangedOnce, FailuresCounted

\* So does a request that moves on, if it is in order itself.
LEMMA ThreadStepKeeps ==
  ASSUME IInv, UNCHANGED <<tables, exchanged, denials, miscounted>>, ThreadsOK',
         NEW w \in Threads, RequestOK(w)',
         \A v \in Threads : v # w =>
            step'[v] = step[v] /\ task'[v] = task[v] /\ read'[v] = read[v]
  PROVE  IInv' /\ Evolves
<1>1. \A v \in Threads : v # w => RequestOK(v)'
  BY RequestKept, ThreadStepKeepsTables DEF IInv
<1> QED BY <1>1, ThreadStepKeepsTables DEF IInv

-----------------------------------------------------------------------------
\* Opening a request keeps everything, if the request is a good one.
LEMMA OpenKeeps ==
  ASSUME IInv, NEW w \in Threads, NEW t \in Task, NEW r \in Read, NEW next \in Steps,
         Open(w, t, r, next),
         next # "selected",
         next = "admitted" => t.password # 0 /\ r.locked # "future",
         t.op = "refresh" => t.session \in 1..Len(sessions) /\ t.token = sessions[t.session].token
  PROVE  IInv' /\ Evolves
<1>1. /\ step' = [step EXCEPT ![w] = next] /\ task' = [task EXCEPT ![w] = t]
      /\ read' = [read EXCEPT ![w] = r]
      /\ UNCHANGED <<tables, exchanged, denials, miscounted>>
  BY DEF Open
<1>2. ThreadsOK'
  BY <1>1 DEF IInv, ThreadsOK
<1>3. /\ step'[w] = next /\ task'[w] = t /\ read'[w] = r
      /\ \A v \in Threads : v # w =>
            step'[v] = step[v] /\ task'[v] = task[v] /\ read'[v] = read[v]
  BY <1>1 DEF IInv, ThreadsOK
<1>4. FoundByToken(w)'
  <2>1. sessions' = sessions /\ tokens' = tokens
    BY <1>1 DEF tables
  <2> QED BY <1>3, <2>1 DEF IInv, TokensOK, FoundByToken
<1>5. LetIn(w)' /\ SelectedAll(w)'
  BY <1>3 DEF LetIn, SelectedAll
<1>6. RequestOK(w)'
  BY <1>4, <1>5 DEF RequestOK
<1> QED BY <1>1, <1>2, <1>3, <1>6, ThreadStepKeeps

LEMMA RequestKeeps ==
  ASSUME IInv, NEW w \in Threads, Request(w)
  PROVE  IInv' /\ Evolves
<1>0. /\ account \in Account /\ passwords \in Nat /\ tokens \in Nat
      /\ Len(sessions) \in Nat /\ \A s \in 1..Len(sessions) : sessions[s] \in SessionRow
  BY AuthAssumption DEF IInv, TablesOK
<1>1. NoTask \in Task /\ NothingRead \in Read
  BY AuthAssumption DEF NoTask, Task, Ops, NothingRead, Read
<1>2. ASSUME NEW password \in 0..passwords, OpenLogin(w, password)
      PROVE  IInv' /\ Evolves
  <2> DEFINE r == [NothingRead EXCEPT !.failed = account.failed_login_attempts,
                                      !.locked = account.locked_until]
  <2>1. r \in Read /\ r.locked # "future"
    <3>1. /\ account.failed_login_attempts \in 0..(MaxFailedLoginAttempts - 1)
          /\ account.locked_until \in {"none", "future", "past"}
          /\ account.locked_until # "future"
      BY <1>0, <1>2 DEF OpenLogin, Account
    <3> QED BY <1>1, <3>1 DEF Read
  <2>2. CASE /\ password = account.password
             /\ Open(w, [NoTask EXCEPT !.op = "login", !.password = password], r, "admitted")
    <3> DEFINE t == [NoTask EXCEPT !.op = "login", !.password = password]
    <3>1. t \in Task /\ t.op = "login" /\ t.password # 0
      BY <1>0, <2>2 DEF NoTask, Task, Ops, Account
    <3>2. Open(w, t, r, "admitted")
      BY <2>2
    <3> HIDE DEF t, r
    <3> QED BY <3>1, <3>2, <2>1, OpenKeeps DEF Steps
  <2>3. CASE Open(w, [NoTask EXCEPT !.op = "login"], r, "denied")
    <3> DEFINE t == [NoTask EXCEPT !.op = "login"]
    <3>1. t \in Task /\ t.op = "login"
      BY DEF NoTask, Task, Ops
    <3>2. Open(w, t, r, "denied")
      BY <2>3
    <3> HIDE DEF t, r
    <3> QED BY <3>1, <3>2, <2>1, OpenKeeps DEF Steps
  <2> QED BY <1>2, <2>2, <2>3 DEF OpenLogin
<1>3. ASSUME NEW s \in 1..Len(sessions), OpenRefresh(w, s)
      PROVE  IInv' /\ Evolves
  <2> DEFINE t == [NoTask EXCEPT !.op = "refresh", !.session = s, !.token = sessions[s].token]
  <2>1. t \in Task /\ t.op = "refresh" /\ t.session = s /\ t.token = sessions[s].token
    <3>1. s \in Nat /\ sessions[s].token \in Nat
      BY <1>0 DEF SessionRow
    <3>2. "refresh" \in Ops
      BY DEF Ops
    <3> QED BY <1>1, <3>1, <3>2 DEF Task
  <2>2. Open(w, t, NothingRead, "found")
    BY <1>3 DEF OpenRefresh
  <2> HIDE DEF t
  <2> QED BY <1>1, <2>1, <2>2, OpenKeeps DEF Steps
<1>4. ASSUME NEW s \in 1..Len(sessions), NEW op \in Ops \ {"refresh"}, OpenRevocation(w, op, s)
      PROVE  IInv' /\ Evolves
  <2> DEFINE t == [NoTask EXCEPT !.op = op, !.session = s]
  <2>1. t \in Task /\ t.op # "refresh"
    <3>1. s \in Nat /\ op \in Ops
      BY <1>0
    <3> QED BY <1>1, <3>1 DEF Task
  <2>2. Open(w, t, NothingRead, "authorized")
    BY <1>4 DEF OpenRevocation
  <2> HIDE DEF t
  <2> QED BY <1>1, <2>1, <2>2, OpenKeeps DEF Steps
<1>5. ASSUME OpenResetPassword(w) PROVE IInv' /\ Evolves
  <2> DEFINE t == [NoTask EXCEPT !.op = "reset_password"]
  <2>1. t \in Task /\ t.op # "refresh"
    BY DEF NoTask, Task, Ops
  <2>2. Open(w, t, NothingRead, "authorized")
    BY <1>5 DEF OpenResetPassword
  <2> HIDE DEF t
  <2> QED BY <1>1, <2>1, <2>2, OpenKeeps DEF Steps
<1>6. {"logout", "logout_all", "change_password"} \subseteq Ops \ {"refresh"}
  BY DEF Ops
<1> QED BY <1>2, <1>3, <1>4, <1>5, <1>6 DEF Request, OpenChangePassword

LEMMA CheckUserKeeps ==
  ASSUME IInv, NEW w \in Threads, CheckUser(w)
  PROVE  IInv' /\ Evolves
<1>1. /\ step' = [step EXCEPT ![w] = "authorized"]
      /\ UNCHANGED <<tables, task, read, exchanged, denials, miscounted>>
  BY DEF CheckUser
<1>2. ThreadsOK'
  BY <1>1 DEF IInv, ThreadsOK, Steps
<1>3. /\ step'[w] = "authorized" /\ task'[w] = task[w] /\ read'[w] = read[w]
      /\ \A v \in Threads : v # w =>
            step'[v] = step[v] /\ task'[v] = task[v] /\ read'[v] = read[v]
  BY <1>1 DEF IInv, ThreadsOK
<1>4. sessions' = sessions /\ tokens' = tokens
  BY <1>1 DEF tables
<1>5. RequestOK(w)'
  BY <1>3, <1>4 DEF IInv, RequestOK, FoundByToken, LetIn, SelectedAll
<1> QED BY <1>1, <1>2, <1>3, <1>5, ThreadStepKeeps

LEMMA SelectSessionsKeeps ==
  ASSUME IInv, NEW w \in Threads, SelectSessions(w)
  PROVE  IInv' /\ Evolves
<1> DEFINE r == [read[w] EXCEPT !.ids = ToRevoke(task[w]), !.count = Len(sessions)]
<1>1. /\ step' = [step EXCEPT ![w] = "selected"]
      /\ UNCHANGED <<tables, task, exchanged, denials, miscounted>>
  BY DEF SelectSessions
<1>2. read' = [read EXCEPT ![w] = r]
  BY DEF SelectSessions, IInv, ThreadsOK
<1>3. ToRevoke(task[w]) \subseteq 1..Len(sessions)
  BY DEF ToRevoke
<1>4. Len(sessions) \in 0..MaxSessions
  BY AuthAssumption DEF IInv, TablesOK
<1>5. read[w] \in Read
  BY DEF IInv, ThreadsOK
<1>6. r \in Read /\ r.ids = ToRevoke(task[w]) /\ r.count = Len(sessions)
  <2>1. ToRevoke(task[w]) \in SUBSET (1..MaxSessions)
    BY <1>3, <1>4, AuthAssumption
  <2> QED BY <1>4, <1>5, <2>1 DEF Read
<1> HIDE DEF r
<1>7. ThreadsOK'
  BY <1>1, <1>2, <1>6 DEF IInv, ThreadsOK, Steps
<1>8. /\ step'[w] = "selected" /\ task'[w] = task[w] /\ read'[w] = r
      /\ \A v \in Threads : v # w =>
            step'[v] = step[v] /\ task'[v] = task[v] /\ read'[v] = read[v]
  BY <1>1, <1>2 DEF IInv, ThreadsOK
<1>9. sessions' = sessions /\ tokens' = tokens
  BY <1>1 DEF tables
<1>10. FoundByToken(w)' /\ LetIn(w)'
  BY <1>8, <1>9 DEF IInv, RequestOK, FoundByToken, LetIn
<1>11. SelectedAll(w)'
  <2>1. ASSUME task[w].op \in {"change_password", "reset_password"}, NEW s \in 1..Len(sessions)
        PROVE  s \in ToRevoke(task[w]) \/ ~sessions[s].is_active
    BY <2>1 DEF ToRevoke
  <2> QED BY <1>4, <1>6, <1>8, <1>9, <2>1 DEF SelectedAll
<1>12. RequestOK(w)'
  BY <1>10, <1>11 DEF RequestOK
<1> QED BY <1>1, <1>7, <1>8, <1>12, ThreadStepKeeps

-----------------------------------------------------------------------------
\* The outcome of a log-in is counted: neither history leaves its range.
LEMMA CommitDeniedKeeps ==
  ASSUME IInv, NEW w \in Threads, CommitDenied(w)
  PROVE  IInv' /\ Evolves
<1> DEFINE failed == read[w].failed
           locks == Locks(failed + 1)
           attempts == IF locks THEN 0 ELSE failed + 1
           now == Written(failed, attempts, account.failed_login_attempts)
<1>1. /\ account' = [account EXCEPT !.failed_login_attempts = now,
                                    !.locked_until = IF locks THEN "future" ELSE @]
      /\ Counted(w, IF locks THEN 0 ELSE denials + 1)
      /\ Close(w)
      /\ UNCHANGED <<sessions, tokens, passwords, exchanged>>
  BY DEF CommitDenied
<1>2. /\ account \in Account
      /\ account.failed_login_attempts \in 0..(MaxFailedLoginAttempts - 1)
      /\ account.locked_until \in {"none", "future", "past"}
      /\ denials \in 0..(MaxFailedLoginAttempts - 1) /\ miscounted \in BOOLEAN
  BY DEF IInv, TablesOK, Account
<1>3. failed \in 0..(MaxFailedLoginAttempts - 1)
  <2>1. read[w] \in Read
    BY DEF IInv, ThreadsOK
  <2> QED BY <2>1 DEF Read
<1>4. attempts \in 0..(MaxFailedLoginAttempts - 1) /\ attempts # failed
  BY <1>3, AuthAssumption DEF Locks
<1>5. now \in 0..(MaxFailedLoginAttempts - 1) /\ now = attempts
  BY <1>4 DEF Written
<1>6. /\ account' \in Account /\ account'.failed_login_attempts = attempts
      /\ account'.password = account.password
  <2> HIDE DEF now, locks, attempts
  <2> QED BY <1>1, <1>2, <1>5 DEF Account
<1>7. /\ denials' \in 0..(MaxFailedLoginAttempts - 1) /\ miscounted' \in BOOLEAN
      /\ miscounted' \/ attempts = denials'
  <2>1. CASE miscounted \/ account.failed_login_attempts # failed
    <3>1. miscounted' = TRUE /\ denials' = 0
      BY <1>1, <2>1 DEF Counted
    <3>2. 0 \in 0..(MaxFailedLoginAttempts - 1)
      BY AuthAssumption
    <3> QED BY <3>1, <3>2
  <2>2. CASE ~miscounted /\ account.failed_login_attempts = failed
    <3>1. denials = failed
      BY <2>2 DEF IInv, FailuresCounted
    <3>2. miscounted' = FALSE /\ denials' = attempts
      BY <1>1, <2>2, <3>1 DEF Counted
    <3> QED BY <1>4, <3>2
  <2> QED BY <2>1, <2>2
<1> HIDE DEF failed, locks, attempts, now
<1>8. /\ TablesOK' /\ TokensOK' /\ Evolves
      /\ SessionsKnowPassword' /\ ExchangedOnce' /\ FailuresCounted'
  BY <1>1, <1>6, <1>7, UnchangedEvolves
     DEF IInv, TablesOK, TokensOK, SessionsKnowPassword, ExchangedOnce, FailuresCounted
<1> QED BY <1>1, <1>8, ClosingKeepsRequests DEF IInv

LEMMA CommitLoginKeeps ==
  ASSUME IInv, NEW w \in Threads, CommitLogin(w)
  PROVE  IInv' /\ Evolves
<1> DEFINE failed == read[w].failed
           now == Written(failed, 0, account.failed_login_attempts)
           until == Written(read[w].locked, "none", account.locked_until)
           row == [token |-> tokens + 1, is_active |-> TRUE, password |-> task[w].password,
                   late |-> account.password # task[w].password]
<1>1. /\ step[w] = "admitted" /\ Len(sessions) < MaxSessions /\ tokens < MaxTokens
      /\ account' = [account EXCEPT !.failed_login_attempts = now, !.locked_until = until]
      /\ sessions' = Append(sessions, row) /\ tokens' = tokens + 1
      /\ Counted(w, 0) /\ Close(w)
      /\ UNCHANGED <<passwords, exchanged>>
  BY DEF CommitLogin, ResetLoginFailures
<1>2. /\ account \in Account
      /\ account.failed_login_attempts \in 0..(MaxFailedLoginAttempts - 1)
      /\ account.locked_until \in {"none", "future", "past"}
      /\ denials \in 0..(MaxFailedLoginAttempts - 1) /\ miscounted \in BOOLEAN
      /\ 0 \in 0..(MaxFailedLoginAttempts - 1)
  BY AuthAssumption DEF IInv, TablesOK, Account
<1>3. /\ sessions \in Seq(SessionRow) /\ Len(sessions) \in Nat
      /\ tokens \in Nat /\ MaxTokens \in Nat /\ MaxSessions \in Nat
  BY AuthAssumption DEF IInv, TablesOK
<1>4. account' \in Account /\ account'.password = account.password
  <2>1. now \in 0..(MaxFailedLoginAttempts - 1) /\ until \in {"none", "future", "past"}
    BY <1>2 DEF Written
  <2> HIDE DEF now, until
  <2> QED BY <1>1, <1>2, <2>1 DEF Account
<1>5. row \in SessionRow
  <2>1. task[w].password \in Nat \ {0}
    <3>1. task[w] \in Task
      BY DEF IInv, ThreadsOK
    <3>2. task[w].password # 0
      BY <1>1 DEF IInv, RequestOK, LetIn
    <3> QED BY <3>1, <3>2 DEF Task
  <2> QED BY <1>3, <2>1 DEF SessionRow
<1>6. row.token = tokens + 1 /\ (row.password = account.password \/ row.late)
  OBVIOUS
<1>7. /\ denials' \in 0..(MaxFailedLoginAttempts - 1) /\ miscounted' \in BOOLEAN
      /\ miscounted' \/ account'.failed_login_attempts = denials'
  <2>1. /\ miscounted' = (miscounted \/ account.failed_login_attempts # failed)
        /\ denials' = 0
    BY <1>1 DEF Counted
  <2>2. account.failed_login_attempts = failed => now = 0
    BY DEF Written
  <2>3. account'.failed_login_attempts = now
    <3> HIDE DEF now, until
    <3> QED BY <1>1, <1>2 DEF Account
  <2> QED BY <1>2, <2>1, <2>2, <2>3
<1> HIDE DEF failed, now, until, row
<1>8. /\ Len(sessions') = Len(sessions) + 1 /\ sessions' \in Seq(SessionRow)
      /\ \A s \in 1..Len(sessions) : sessions'[s] = sessions[s]
      /\ sessions'[Len(sessions) + 1] = row
  BY <1>1, <1>3, <1>5
<1>9. \A s \in 1..Len(sessions') : s \in 1..Len(sessions) \/ sessions'[s] = row
  BY <1>3, <1>8
<1>10. TablesOK'
  BY <1>1, <1>3, <1>4, <1>7, <1>8 DEF IInv, TablesOK
<1>11. Evolves
  BY <1>1, <1>3, <1>6, <1>8, <1>9 DEF Evolves
<1>12. TokensOK' /\ ExchangedOnce'
  <2>1. exchanged' \subseteq 1..tokens'
    BY <1>1, <1>3 DEF IInv, TokensOK
  <2>2. ASSUME NEW s \in 1..Len(sessions')
        PROVE  /\ sessions'[s].token \in 1..tokens' /\ sessions'[s].token \notin exchanged'
               /\ \A r \in 1..Len(sessions') : r # s => sessions'[r].token # sessions'[s].token
    <3>1. tokens + 1 \notin exchanged
      BY <1>3 DEF IInv, TokensOK
    <3>2. \A r \in 1..Len(sessions') :
             \/ /\ r \in 1..Len(sessions) /\ sessions'[r].token = sessions[r].token
                /\ sessions[r].token \in 1..tokens /\ sessions[r].token \notin exchanged
             \/ r = Len(sessions) + 1 /\ sessions'[r].token = tokens + 1
      BY <1>3, <1>6, <1>8 DEF IInv, TokensOK, ExchangedOnce
    <3>3. \A r \in 1..Len(sessions), q \in 1..Len(sessions) :
             r # q => sessions[r].token # sessions[q].token
      BY DEF IInv, TokensOK
    <3> QED BY <1>1, <1>3, <3>1, <3>2, <3>3
  <2> QED BY <2>1, <2>2 DEF TokensOK, ExchangedOnce
<1>13. SessionsKnowPassword' /\ FailuresCounted'
  BY <1>4, <1>6, <1>7, <1>8, <1>9 DEF IInv, SessionsKnowPassword, FailuresCounted
<1> QED BY <1>1, <1>10, <1>11, <1>12, <1>13, ClosingKeepsRequests DEF IInv

\* A refresh gives its session a token that nobody has had.
LEMMA CommitRefreshKeeps ==
  ASSUME IInv, NEW w \in Threads, CommitRefresh(w)
  PROVE  IInv' /\ Evolves
<1> DEFINE s == task[w].session
           old == task[w].token
<1>1. /\ task[w].op = "refresh" /\ tokens < MaxTokens
      /\ sessions' = [sessions EXCEPT ![s] = [@ EXCEPT !.token = tokens + 1]]
      /\ tokens' = tokens + 1 /\ exchanged' = exchanged \cup {old}
      /\ Close(w) /\ UNCHANGED <<account, passwords, denials, miscounted>>
  BY DEF CommitRefresh, Rotated
<1>2. /\ sessions \in Seq(SessionRow) /\ Len(sessions) \in Nat
      /\ tokens \in Nat /\ MaxTokens \in Nat
  BY AuthAssumption DEF IInv, TablesOK
<1>3. /\ s \in 1..Len(sessions) /\ old \in 1..tokens
      /\ \A r \in 1..Len(sessions) : r # s => sessions[r].token # old
  BY <1>1 DEF IInv, RequestOK, FoundByToken
<1> DEFINE row == [sessions[s] EXCEPT !.token = tokens + 1]
<1>4. sessions[s] \in SessionRow
  BY <1>2, <1>3
<1>5. /\ row \in SessionRow /\ row.token = tokens + 1
      /\ row.is_active = sessions[s].is_active
      /\ row.password = sessions[s].password /\ row.late = sessions[s].late
  <2> HIDE DEF s
  <2>1. tokens + 1 \in Nat \ {0}
    BY <1>2
  <2> QED BY <1>4, <2>1 DEF SessionRow
<1>6. sessions' = [sessions EXCEPT ![s] = row]
  BY <1>1
<1> HIDE DEF row, s, old
<1>7. /\ sessions' \in Seq(SessionRow) /\ Len(sessions') = Len(sessions)
      /\ sessions'[s] = row
      /\ \A r \in 1..Len(sessions) : r # s => sessions'[r] = sessions[r]
  BY <1>2, <1>3, <1>5, <1>6
<1>8. TablesOK'
  BY <1>1, <1>2, <1>7 DEF IInv, TablesOK
<1>9. Evolves
  BY <1>1, <1>2, <1>5, <1>7 DEF Evolves
<1>10. TokensOK' /\ ExchangedOnce'
  <2>1. exchanged' \subseteq 1..tokens' /\ tokens + 1 \notin exchanged'
    BY <1>1, <1>2, <1>3 DEF IInv, TokensOK
  <2>2. \A r \in 1..Len(sessions) :
           \/ r = s /\ sessions'[r].token = tokens + 1
           \/ /\ r # s /\ sessions'[r].token = sessions[r].token
              /\ sessions[r].token \in 1..tokens /\ sessions[r].token \notin exchanged'
    BY <1>1, <1>3, <1>5, <1>7 DEF IInv, TokensOK, ExchangedOnce
  <2>3. \A r \in 1..Len(sessions), q \in 1..Len(sessions) :
           r # q => sessions[r].token # sessions[q].token
    BY DEF IInv, TokensOK
  <2>4. ASSUME NEW r \in 1..Len(sessions)
        PROVE  /\ sessions'[r].token \in 1..tokens' /\ sessions'[r].token \notin exchanged'
               /\ \A q \in 1..Len(sessions) : q # r => sessions'[q].token # sessions'[r].token
    BY <1>1, <1>2, <2>1, <2>2, <2>3
  <2> QED BY <1>7, <2>1, <2>4 DEF TokensOK, ExchangedOnce
<1>11. SessionsKnowPassword' /\ FailuresCounted'
  BY <1>1, <1>5, <1>7 DEF IInv, SessionsKnowPassword, FailuresCounted
<1> QED BY <1>1, <1>8, <1>9, <1>10, <1>11, ClosingKeepsRequests DEF IInv

\* Revoking leaves the tokens and revives nothing.
LEMMA RevokedEvolves ==
  ASSUME IInv, NEW w \in Threads, NEW sets \in BOOLEAN, sessions' = Revoked(w, sets),
         UNCHANGED <<tokens, exchanged>>
  PROVE  /\ sessions' \in Seq(SessionRow) /\ Len(sessions') = Len(sessions)
         /\ \A s \in 1..Len(sessions) :
              /\ sessions'[s].is_active <=> sessions[s].is_active /\ s \notin read[w].ids
              /\ sessions'[s].late <=> sessions[s].late \/ (sets /\ s > read[w].count)
              /\ sessions'[s].password = sessions[s].password
         /\ TokensOK' /\ ExchangedOnce' /\ Evolves
<1>1. sessions \in Seq(SessionRow) /\ Len(sessions) \in Nat /\ tokens \in Nat
  BY DEF IInv, TablesOK
<1>2. ASSUME NEW s \in 1..Len(sessions)
      PROVE  /\ sessions'[s] \in SessionRow
             /\ sessions'[s].is_active <=> sessions[s].is_active /\ s \notin read[w].ids
             /\ sessions'[s].late <=> sessions[s].late \/ (sets /\ s > read[w].count)
             /\ sessions'[s].password = sessions[s].password
             /\ sessions'[s].token = sessions[s].token
  <2> DEFINE active == sessions[s].is_active /\ s \notin read[w].ids
             late == sessions[s].late \/ (sets /\ s > read[w].count)
  <2>1. sessions[s] \in SessionRow
    BY <1>1
  <2>2. sessions'[s] = [sessions[s] EXCEPT !.is_active = active, !.late = late]
    BY DEF Revoked
  <2>3. active \in BOOLEAN /\ late \in BOOLEAN
    OBVIOUS
  <2>4. sessions'[s] \in SessionRow
    <3> HIDE DEF active, late
    <3> QED BY <2>1, <2>2, <2>3 DEF SessionRow
  <2>5. /\ sessions'[s].is_active = active /\ sessions'[s].late = late
        /\ sessions'[s].password = sessions[s].password
        /\ sessions'[s].token = sessions[s].token
    <3> HIDE DEF active, late
    <3> QED BY <2>1, <2>2 DEF SessionRow
  <2> QED BY <2>4, <2>5
<1>3. DOMAIN sessions' = 1..Len(sessions) /\ sessions' = [s \in 1..Len(sessions) |-> sessions'[s]]
  BY DEF Revoked
<1>4. sessions' \in Seq(SessionRow) /\ Len(sessions') = Len(sessions)
  <2>1. sessions' \in [1..Len(sessions) -> SessionRow]
    BY <1>2, <1>3
  <2> QED BY <1>1, <2>1
<1>5. TokensOK' /\ ExchangedOnce'
  BY <1>2, <1>4 DEF IInv, TokensOK, ExchangedOnce
<1>6. Evolves
  BY <1>1, <1>2, <1>4 DEF Evolves
<1> QED BY <1>2, <1>4, <1>5, <1>6

LEMMA CommitRevocationKeeps ==
  ASSUME IInv, NEW w \in Threads, CommitRevocation(w)
  PROVE  IInv' /\ Evolves
<1>1. /\ sessions' = Revoked(w, FALSE) /\ Close(w)
      /\ UNCHANGED <<account, tokens, passwords, exchanged, denials, miscounted>>
  BY DEF CommitRevocation
<1>2. /\ sessions' \in Seq(SessionRow) /\ Len(sessions') = Len(sessions)
      /\ \A s \in 1..Len(sessions) :
           /\ sessions'[s].is_active => sessions[s].is_active
           /\ sessions'[s].late <=> sessions[s].late
           /\ sessions'[s].password = sessions[s].password
      /\ TokensOK' /\ ExchangedOnce' /\ Evolves
  BY <1>1, RevokedEvolves
<1>3. TablesOK' /\ SessionsKnowPassword' /\ FailuresCounted'
  BY <1>1, <1>2 DEF IInv, TablesOK, SessionsKnowPassword, FailuresCounted
<1> QED BY <1>1, <1>2, <1>3, ClosingKeepsRequests DEF IInv

\* Of the sessions there were when it selected them, a change of the password leaves
\* none; those opened since are late.
LEMMA CommitPasswordKeeps ==
  ASSUME IInv, NEW w \in Threads, CommitPassword(w)
  PROVE  IInv' /\ Evolves
<1>1. /\ step[w] = "selected" /\ task[w].op \in {"change_password", "reset_password"}
      /\ passwords < MaxPasswords /\ passwords' = passwords + 1
      /\ account' = [account EXCEPT !.password = passwords + 1]
      /\ sessions' = Revoked(w, TRUE) /\ Close(w)
      /\ UNCHANGED <<tokens, exchanged, denials, miscounted>>
  BY DEF CommitPassword
<1>2. /\ sessions' \in Seq(SessionRow) /\ Len(sessions') = Len(sessions)
      /\ \A s \in 1..Len(sessions) :
           /\ sessions'[s].is_active => sessions[s].is_active /\ s \notin read[w].ids
           /\ sessions'[s].late <=> sessions[s].late \/ s > read[w].count
           /\ sessions'[s].password = sessions[s].password
      /\ TokensOK' /\ ExchangedOnce' /\ Evolves
  BY <1>1, RevokedEvolves
<1>3. /\ account \in Account /\ passwords \in 1..MaxPasswords /\ MaxPasswords \in Nat
      /\ Len(sessions) \in Nat
  BY AuthAssumption DEF IInv, TablesOK
<1>4. /\ account' \in Account /\ passwords' \in 1..MaxPasswords
      /\ account'.failed_login_attempts = account.failed_login_attempts
  BY <1>1, <1>3 DEF Account
<1>5. TablesOK' /\ FailuresCounted'
  BY <1>1, <1>2, <1>4 DEF IInv, TablesOK, FailuresCounted
<1>6. SessionsKnowPassword'
  <2>1. ASSUME NEW s \in 1..Len(sessions), sessions'[s].is_active
        PROVE  sessions'[s].late
    <3>1. read[w].count \in Nat
      BY DEF IInv, ThreadsOK, Read
    <3>2. \A r \in 1..read[w].count : r \in read[w].ids \/ ~sessions[r].is_active
      BY <1>1 DEF IInv, RequestOK, SelectedAll
    <3>3. sessions[s].is_active /\ s \notin read[w].ids
      BY <1>2, <2>1
    <3>4. s > read[w].count
      BY <1>3, <3>1, <3>2, <3>3
    <3> QED BY <1>2, <3>4
  <2> QED BY <1>2, <2>1 DEF SessionsKnowPassword
<1> QED BY <1>1, <1>2, <1>5, <1>6, ClosingKeepsRequests DEF IInv

\* An administrator's edit and the end of a lock touch no session.
LEMMA AccountStepKeeps ==
  ASSUME IInv, TablesOK', account'.password = account.password,
         account'.failed_login_attempts = account.failed_login_attempts,
         UNCHANGED <<sessions, tokens, passwords, threads, exchanged, denials, miscounted>>
  PROVE  IInv' /\ Evolves
<1>1. step' = step /\ task' = task /\ read' = read
  BY DEF threads
<1>2. Evolves
  BY UnchangedEvolves DEF IInv
<1>3. TokensOK' /\ ExchangedOnce' /\ SessionsKnowPassword' /\ FailuresCounted'
  BY DEF IInv, TokensOK, ExchangedOnce, SessionsKnowPassword, FailuresCounted
<1>4. \A w \in Threads : RequestOK(w)'
  BY <1>1, <1>2, RequestKept DEF IInv
<1> QED BY <1>1, <1>2, <1>3, <1>4 DEF IInv, ThreadsOK

-----------------------------------------------------------------------------
LEMMA InitIInv == Init => IInv
<1> SUFFICES ASSUME Init PROVE IInv
  OBVIOUS
<1>1. account \in Account /\ account.failed_login_attempts = 0
  <2>1. 0 \in 0..(MaxFailedLoginAttempts - 1)
    BY AuthAssumption
  <2> QED BY <2>1 DEF Init, Account
<1>2. sessions \in Seq(SessionRow) /\ Len(sessions) = 0
  BY DEF Init
<1>3. TablesOK
  <2>1. /\ 0 <= MaxSessions /\ 0 \in 0..MaxTokens /\ 1 \in 1..MaxPasswords
        /\ 0 \in 0..(MaxFailedLoginAttempts - 1)
    BY AuthAssumption
  <2> QED BY <1>1, <1>2, <2>1 DEF Init, TablesOK
<1>4. NoTask \in Task /\ NothingRead \in Read
  BY AuthAssumption DEF NoTask, Task, Ops, NothingRead, Read
<1>5. ThreadsOK
  BY <1>4 DEF Init, ThreadsOK, Steps
<1>6. TokensOK /\ SessionsKnowPassword /\ ExchangedOnce /\ FailuresCounted
  BY <1>1, <1>2 DEF Init, TokensOK, SessionsKnowPassword, ExchangedOnce, FailuresCounted
<1>7. \A w \in Threads : RequestOK(w)
  BY DEF Init, RequestOK, FoundByToken, LetIn, SelectedAll, NoTask
<1> QED BY <1>3, <1>5, <1>6, <1>7 DEF IInv

LEMMA NextKeeps ==
  ASSUME IInv, [Next]_vars
  PROVE  IInv' /\ Evolves
<1>1. ASSUME NEW w \in Threads, Request(w) PROVE IInv' /\ Evolves
  BY <1>1, RequestKeeps
<1>2. ASSUME NEW w \in Threads, Progress(w) PROVE IInv' /\ Evolves
  <2>1. CASE Abandon(w)
    <3>1. Close(w) /\ UNCHANGED <<tables, exchanged, denials, miscounted>>
      BY <2>1 DEF Abandon
    <3> QED BY <3>1, ThreadStepKeepsTables, ClosingKeepsRequests DEF IInv
  <2> QED BY <1>2, <2>1, CommitDeniedKeeps, CommitLoginKeeps, CheckUserKeeps, CommitRefreshKeeps,
             SelectSessionsKeeps, CommitRevocationKeeps, CommitPasswordKeeps DEF Progress
<1>3. ASSUME NEW active \in BOOLEAN, SetActive(active) PROVE IInv' /\ Evolves
  <2>1. /\ account' \in Account /\ account'.password = account.password
        /\ account'.failed_login_attempts = account.failed_login_attempts
    BY <1>3 DEF SetActive, IInv, TablesOK, Account
  <2>2. TablesOK'
    BY <1>3, <2>1 DEF SetActive, IInv, TablesOK
  <2> QED BY <1>3, <2>1, <2>2, AccountStepKeeps DEF SetActive
<1>4. ASSUME LockEnds PROVE IInv' /\ Evolves
  <2>1. /\ account' \in Account /\ account'.password = account.password
        /\ account'.failed_login_attempts = account.failed_login_attempts
    BY <1>4 DEF LockEnds, IInv, TablesOK, Account
  <2>2. TablesOK'
    BY <1>4, <2>1 DEF LockEnds, IInv, TablesOK
  <2> QED BY <1>4, <2>1, <2>2, AccountStepKeeps DEF LockEnds
<1>5. ASSUME UNCHANGED vars PROVE IInv' /\ Evolves
  <2>1. /\ UNCHANGED <<sessions, tokens, passwords, threads, exchanged, denials, miscounted>>
        /\ account' = account
    BY <1>5 DEF vars, tables
  <2>2. TablesOK'
    BY <2>1 DEF IInv, TablesOK
  <2> QED BY <2>1, <2>2, AccountStepKeeps
<1> QED BY <1>1, <1>2, <1>3, <1>4, <1>5 DEF Next

LEMMA AlwaysIInv == Spec => []IInv
<1>1. IInv /\ [Next]_vars => IInv'
  BY NextKeeps
<1> QED BY <1>1, InitIInv, PTL DEF Spec

-----------------------------------------------------------------------------
\* The rows keep the columns of their models, and every accepted token was issued,
\* with any number of requests under way.
THEOREM SessionsTypeCorrect == Spec => []SessionsTypeOK
<1>1. IInv => SessionsTypeOK
  <2>1. tokens \in 0..MaxTokens /\ exchanged \subseteq 1..tokens => exchanged \subseteq 1..MaxTokens
    BY AuthAssumption
  <2> QED BY <2>1 DEF IInv, TablesOK, ThreadsOK, TokensOK, SessionsTypeOK
<1> QED BY <1>1, AlwaysIInv, PTL

\* After a change of the password only sessions of log-ins that overlapped it live on.
THEOREM PasswordEndsSessions == Spec => []SessionsKnowPassword
<1>1. IInv => SessionsKnowPassword
  BY DEF IInv
<1> QED BY <1>1, AlwaysIInv, PTL

\* No session answers to a refresh token that was exchanged.
THEOREM TokensExchangedOnce == Spec => []ExchangedOnce
<1>1. IInv => ExchangedOnce
  BY DEF IInv
<1> QED BY <1>1, AlwaysIInv, PTL

\* The failures on record are those since the last success or lock, as long as no
\* log-in was decided on a count that had moved.
THEOREM FailuresAreCounted == Spec => []FailuresCounted
<1>1. IInv => FailuresCounted
  BY DEF IInv
<1> QED BY <1>1, AlwaysIInv, PTL

\* However requests overlap, a session that was logged out is never active again.
THEOREM LoggedOutForGood == Spec => RevokedForGood
<1>1. IInv /\ [Next]_vars => KeepsRevoked
  BY NextKeeps DEF Evolves, KeepsRevoked
<1>2. IInv /\ [Next]_vars => [KeepsRevoked]_vars
  BY <1>1
<1> QED BY <1>2, AlwaysIInv, PTL DEF Spec, RevokedForGood

LEMMA NextLiftsByRight ==
  ASSUME IInv, Next
  PROVE  LiftedByRight
<1>1. SUFFICES ASSUME account.locked_until = "future"
               PROVE  \/ account'.locked_until \in {"future", "past"}
                      \/ \E w \in Threads : read[w].locked = "past" /\ CommitLogin(w)
  BY DEF LiftedByRight
<1>2. account \in Account
  BY DEF IInv, TablesOK
<1>3. account' = account => account'.locked_until = "future"
  BY <1>1
<1>4. ASSUME NEW w \in Threads, Request(w) PROVE account' = account
  BY <1>4 DEF Request, OpenLogin, OpenRefresh, OpenRevocation, OpenChangePassword,
              OpenResetPassword, Open, tables
<1>5. ASSUME NEW w \in Threads, CommitDenied(w)
      PROVE  account'.locked_until \in {"future", "past"}
  BY <1>1, <1>2, <1>5 DEF CommitDenied, Account
<1>6. ASSUME NEW w \in Threads, CommitLogin(w)
      PROVE  account'.locked_until = "future" \/ read[w].locked = "past"
  <2>1. read[w].locked \in {"none", "past"}
    <3>1. read[w] \in Read
      BY DEF IInv, ThreadsOK
    <3>2. read[w].locked # "future"
      BY <1>6 DEF CommitLogin, IInv, RequestOK, LetIn
    <3> QED BY <3>1, <3>2 DEF Read
  <2>2. account'.locked_until = Written(read[w].locked, "none", account.locked_until)
    BY <1>2, <1>6 DEF CommitLogin, ResetLoginFailures, Account
  <2> QED BY <1>1, <2>1, <2>2 DEF Written
<1>7. ASSUME NEW w \in Threads, CommitPassword(w)
      PROVE  account'.locked_until = "future"
  BY <1>1, <1>2, <1>7 DEF CommitPassword, Account
<1>8. ASSUME NEW w \in Threads,
             CheckUser(w) \/ CommitRefresh(w) \/ SelectSessions(w) \/ CommitRevocation(w) \/ Abandon(w)
      PROVE  account' = account
  BY <1>8 DEF CheckUser, CommitRefresh, SelectSessions, CommitRevocation, Abandon, tables
<1>9. ASSUME NEW active \in BOOLEAN, SetActive(active)
      PROVE  account'.locked_until = "future"
  BY <1>1, <1>2, <1>9 DEF SetActive, Account
<1>10. ASSUME LockEnds PROVE account'.locked_until = "past"
  BY <1>2, <1>10 DEF LockEnds, Account
<1> QED BY <1>3, <1>4, <1>5, <1>6, <1>7, <1>8, <1>9, <1>10 DEF Next, Progress

\* A lock that a log-in in flight did not see is not lifted by it.
THEOREM LocksHold == Spec => LockHolds
<1>1. IInv /\ [Next]_vars => [LiftedByRight]_vars
  BY NextLiftsByRight
<1> QED BY <1>1, AlwaysIInv, PTL DEF Spec, LockHolds

-----------------------------------------------------------------------------
(* 2. Tenants *)

\* A column of ids has a highest one, so the next id is a new one.
LEMMA HighestId ==
  ASSUME NEW n \in Nat, NEW ids, ids \subseteq 1..n, ids # {}
  PROVE  /\ Max(ids) \in ids
         /\ \A id \in ids : id <= Max(ids)
<1> DEFINE T == {n - id : id \in ids}
<1>1. T \subseteq Nat /\ T # {}
  <2>1. \A id \in ids : id \in Nat /\ n - id \in Nat
    OBVIOUS
  <2>2. T # {}
    OBVIOUS
  <2> QED BY <2>1, <2>2
<1>2. PICK low \in T : \A y \in T : ~(<<y, low>> \in OpToRel(<, Nat))
  <2> HIDE DEF T
  <2> QED BY <1>1, NatLessThanWellFounded, WFMin
<1>3. PICK high \in ids : low = n - high
  BY <1>2
<1>4. \A id \in ids : high >= id
  <2> TAKE id \in ids
  <2>1. n - id \in T
    OBVIOUS
  <2>2. ~(n - id < low)
    BY <1>1, <1>2, <2>1 DEF OpToRel
  <2> QED BY <1>3, <2>2
<1>5. Max(ids) \in ids /\ \A id \in ids : Max(ids) >= id
  BY <1>3, <1>4 DEF Max
<1> QED BY <1>5

LEMMA NextIdIsNew ==
  ASSUME NEW n \in Nat, NEW table, DOMAIN table \subseteq 1..n
  PROVE  NextId(table) \notin DOMAIN table
<1>1. CASE DOMAIN table = {}
  BY <1>1
<1>2. CASE DOMAIN table # {}
  <2>1. Max(DOMAIN table) \in 1..n /\ \A id \in DOMAIN table : id <= Max(DOMAIN table)
    BY <1>2, HighestId
  <2> QED BY <1>2, <2>1 DEF NextId
<1> QED BY <1>1, <1>2

\* The set of what is unique has one element at most.
LEMMA UniqueIsOne ==
  ASSUME NEW S, \A x, y \in S : x = y
  PROVE  Cardinality(S) <= 1
<1>1. CASE S = {}
  BY <1>1, FS_EmptySet
<1>2. CASE S # {}
  <2>1. PICK x : S = {x}
    BY <1>2
  <2> QED BY <2>1, FS_Singleton
<1> QED BY <1>1, <1>2

-----------------------------------------------------------------------------
\* What a table holds without a row.
LEMMA DroppedRow ==
  ASSUME NEW table, NEW key
  PROVE  /\ DOMAIN Drop(table, key) = DOMAIN table \ {key}
         /\ \A k \in DOMAIN table \ {key} : Drop(table, key)[k] = table[k]
BY DEF Drop, Restrict

-----------------------------------------------------------------------------
(* The invariant, table by table *)

OrganizationsKept ==
  /\ DOMAIN organizations \subseteq OrganizationIds
  /\ \A o \in DOMAIN organizations : organizations[o] \in OrganizationCodes

\* The core roles have their names for good, and no other role has one of them.
RolesKept ==
  /\ CoreRoleNames \subseteq DOMAIN roles
  /\ \A r \in CoreRoleNames : roles[r] = r
  /\ \A r \in DOMAIN roles \ CoreRoleNames : r \in CustomRoles /\ roles[r] \in CustomNames

StationsKept ==
  /\ DOMAIN stations \subseteq StationIds
  /\ \A s \in DOMAIN stations :
       /\ stations[s] \in Station
       /\ stations[s].organization_id \in DOMAIN organizations \cup {NoId}
  /\ \A s, t \in DOMAIN stations :
       /\ stations[s].organization_id = stations[t].organization_id
       /\ stations[s].organization_id # NoId
       /\ stations[s].is_head_office /\ ~stations[s].by_seed
       /\ stations[t].is_head_office /\ ~stations[t].by_seed
       => s = t

\* The scope of a row, by the id of its role.
RowFits(row) ==
  /\ row.is_platform_user <=> row.role_id = "MasterAdmin"
  /\ row.organization_id = NoId <=> row.role_id = "MasterAdmin"
  /\ row.station_id = NoId <=> row.role_id \in {"MasterAdmin", "HeadOffice", "Admin"}

RowKept(row) ==
  /\ row \in User
  /\ row.role_id \in DOMAIN roles
  /\ row.station_id \in DOMAIN stations \cup {NoId}

UsersKept ==
  /\ DOMAIN users \subseteq Usernames
  /\ \A u \in DOMAIN users :
       /\ RowKept(users[u])
       /\ RowFits(users[u]) \/ (u = "admin" /\ users[u].seeded)

PlansKept ==
  /\ DOMAIN plans \subseteq PlanIds
  /\ \A p \in DOMAIN plans : plans[p] \in Plan
  /\ \A p, q \in DOMAIN plans :
       /\ plans[p].is_default /\ ~plans[p].by_seed
       /\ plans[q].is_default /\ ~plans[q].by_seed
       => p = q
  /\ \A o \in DOMAIN subscriptions : subscriptions[o] \in DOMAIN plans \cup {NoId}

AccountsKept == OrganizationsKept /\ RolesKept /\ StationsKept /\ UsersKept

\* The inductive invariant.
TenantInv == AccountsKept /\ PlansKept

-----------------------------------------------------------------------------
\* What a role is, by its id.
LEMMA RoleByName ==
  ASSUME RolesKept, NEW r \in DOMAIN roles
  PROVE  /\ r \in RoleIds
         /\ roles[r] \in CoreRoleNames \cup CustomNames
         /\ PlatformOnly(roles[r]) <=> r = "MasterAdmin"
         /\ RequiresStation(roles[r]) <=> r \notin {"MasterAdmin", "HeadOffice", "Admin"}
<1>1. CustomRoles \cap CoreRoleNames = {} /\ CustomNames \cap CoreRoleNames = {}
  BY TenancyAssumption
<1>2. CASE r \in CoreRoleNames
  BY <1>2 DEF RolesKept, RoleIds, PlatformOnly, RequiresStation
<1>3. CASE r \notin CoreRoleNames
  <2>1. r \in CustomRoles /\ roles[r] \in CustomNames /\ roles[r] \notin CoreRoleNames
    BY <1>1, <1>3 DEF RolesKept
  <2> QED BY <1>3, <2>1 DEF RoleIds, PlatformOnly, RequiresStation, CoreRoleNames
<1> QED BY <1>2, <1>3

LEMMA FitsByRow ==
  ASSUME AccountsKept, NEW u \in DOMAIN users
  PROVE  FitsRole(u) <=> RowFits(users[u])
<1>1. users[u].role_id \in DOMAIN roles
  BY DEF AccountsKept, UsersKept, RowKept
<1> QED BY <1>1, RoleByName DEF AccountsKept, FitsRole, RowFits, RoleName

\* A master administrator, by its row.
MasterRow(row) == row.role_id = "MasterAdmin" \/ row.is_platform_user

LEMMA MastersByRow ==
  ASSUME AccountsKept
  PROVE  Masters = {u \in DOMAIN users : MasterRow(users[u])}
<1>1. \A u \in DOMAIN users : RoleName(u) = "MasterAdmin" <=> users[u].role_id = "MasterAdmin"
  BY RoleByName DEF AccountsKept, UsersKept, RowKept, RoleName, PlatformOnly
<1> QED BY <1>1 DEF Masters, MasterRow

LEMMA TenantInvImplies ==
  ASSUME TenantInv
  PROVE  ScopeFollowsRole /\ TenantsWellFormed /\ OneDefaultPlan
<1>1. ScopeFollowsRole
  BY FitsByRow DEF TenantInv, AccountsKept, UsersKept, ScopeFollowsRole
<1>2. TenantTypeOK
  <2>1. \A r \in DOMAIN roles : r \in RoleIds /\ roles[r] \in CoreRoleNames \cup CustomNames
    BY RoleByName DEF TenantInv, AccountsKept
  <2> QED BY <2>1 DEF TenantInv, AccountsKept, OrganizationsKept, StationsKept, UsersKept,
                      RowKept, PlansKept, TenantTypeOK, Range
<1>3. ASSUME NEW o \in DOMAIN organizations
      PROVE  Cardinality({s \in HeadOffices(o) : ~stations[s].by_seed}) <= 1
  <2>1. o # NoId
    BY DEF TenantInv, AccountsKept, OrganizationsKept, OrganizationIds, NoId
  <2>2. \A s, t \in {s \in HeadOffices(o) : ~stations[s].by_seed} : s = t
    BY <2>1 DEF TenantInv, AccountsKept, StationsKept, HeadOffices, StationsOf
  <2> QED BY <2>2, UniqueIsOne
<1>4. TenantsWellFormed
  BY <1>2, <1>3 DEF TenantInv, AccountsKept, StationsKept, UsersKept, RowKept, TenantsWellFormed
<1>5. OneDefaultPlan
  <2>1. \A p, q \in {p \in DOMAIN plans : plans[p].is_default /\ ~plans[p].by_seed} : p = q
    BY DEF TenantInv, PlansKept
  <2> QED BY <2>1, UniqueIsOne DEF OneDefaultPlan
<1> QED BY <1>1, <1>4, <1>5

-----------------------------------------------------------------------------
\* What a step does to the rows of master administrators.
MadeByMaster ==
  \A u \in DOMAIN users' :
    MasterRow(users'[u]) =>
      \/ u \in DOMAIN users /\ MasterRow(users[u])
      \/ users'[u].seeded
      \/ Masters \cap LoggedIn # {}

\* Edits of other tables leave the users as they are.
LEMMA UsersStay ==
  ASSUME AccountsKept, UNCHANGED users,
         \A u \in DOMAIN users : users[u].role_id \in DOMAIN roles',
         \A u \in DOMAIN users : users[u].station_id \in DOMAIN stations' \cup {NoId}
  PROVE  UsersKept' /\ MadeByMaster
BY DEF AccountsKept, UsersKept, RowKept, MadeByMaster

LEMMA OrganizationSaved ==
  ASSUME AccountsKept, UNCHANGED <<stations, roles, users>>,
         NEW o \in OrganizationIds, NEW code \in OrganizationCodes,
         DOMAIN organizations' = DOMAIN organizations \cup {o},
         \A x \in DOMAIN organizations' :
           \/ organizations'[x] = code
           \/ x \in DOMAIN organizations /\ organizations'[x] = organizations[x]
  PROVE  AccountsKept' /\ MadeByMaster
<1>1. OrganizationsKept' /\ RolesKept' /\ StationsKept'
  BY DEF AccountsKept, OrganizationsKept, RolesKept, StationsKept
<1>2. UsersKept' /\ MadeByMaster
  BY UsersStay DEF AccountsKept, UsersKept, RowKept
<1> QED BY <1>1, <1>2 DEF AccountsKept

LEMMA OrganizationsStep ==
  ASSUME AccountsKept, OrganizationsNext
  PROVE  AccountsKept' /\ MadeByMaster
<1>1. ASSUME NEW a \in LoggedIn, NEW code \in OrganizationCodes, CreateOrganization(a, code)
      PROVE  AccountsKept' /\ MadeByMaster
  <2> DEFINE o == NextId(organizations)
  <2>1. /\ o \in OrganizationIds /\ organizations' = Added(organizations, o, code)
        /\ UNCHANGED <<stations, roles, users>>
    BY <1>1 DEF CreateOrganization
  <2> HIDE DEF o
  <2> QED BY <2>1, OrganizationSaved DEF Added
<1>2. ASSUME NEW a \in LoggedIn, NEW code \in OrganizationCodes, NEW o \in DOMAIN organizations,
             UpdateOrganization(a, o, code)
      PROVE  AccountsKept' /\ MadeByMaster
  <2>1. o \in OrganizationIds
    BY DEF AccountsKept, OrganizationsKept
  <2>2. /\ organizations' = [organizations EXCEPT ![o] = code]
        /\ UNCHANGED <<stations, roles, users>>
    BY <1>2 DEF UpdateOrganization
  <2> QED BY <2>1, <2>2, OrganizationSaved
<1>3. ASSUME NEW a \in LoggedIn, NEW o \in DOMAIN organizations, DeleteOrganization(a, o)
      PROVE  AccountsKept' /\ MadeByMaster
  <2>1. /\ DOMAIN organizations' = DOMAIN organizations \ {o}
        /\ \A x \in DOMAIN organizations \ {o} : organizations'[x] = organizations[x]
        /\ \A s \in DOMAIN stations : stations[s].organization_id # o
        /\ UNCHANGED <<stations, roles, users>>
    BY <1>3, DroppedRow DEF DeleteOrganization, StationsOf
  <2>2. OrganizationsKept' /\ RolesKept' /\ StationsKept'
    BY <2>1 DEF AccountsKept, OrganizationsKept, RolesKept, StationsKept
  <2>3. UsersKept' /\ MadeByMaster
    BY <2>1, UsersStay DEF AccountsKept, UsersKept, RowKept
  <2> QED BY <2>2, <2>3 DEF AccountsKept
<1> QED BY <1>1, <1>2, <1>3 DEF OrganizationsNext

-----------------------------------------------------------------------------
\* A station that is saved as a head office is the only one of its organization.
LEMMA StationSaved ==
  ASSUME AccountsKept, UNCHANGED <<organizations, roles, users>>,
         NEW s \in StationIds, NEW code \in StationCodes, NEW is_head_office \in BOOLEAN,
         NEW o \in OrganizationIds \cup {NoId},
         o \in DOMAIN organizations \cup {NoId},
         o # NoId /\ is_head_office => HeadOffices(o) \subseteq {s},
         DOMAIN stations' = DOMAIN stations \cup {s},
         stations'[s] = [code |-> code, organization_id |-> o,
                         is_head_office |-> is_head_office, by_seed |-> FALSE],
         \A x \in DOMAIN stations \ {s} : stations'[x] = stations[x]
  PROVE  AccountsKept' /\ MadeByMaster
<1>1. stations'[s] \in Station
  BY DEF Station
<1>2. /\ DOMAIN stations' \subseteq StationIds
      /\ \A x \in DOMAIN stations' :
           /\ stations'[x] \in Station
           /\ stations'[x].organization_id \in DOMAIN organizations \cup {NoId}
  <2>1. stations'[s].organization_id = o
    OBVIOUS
  <2>2. \A x \in DOMAIN stations' : x = s \/ x \in DOMAIN stations \ {s}
    OBVIOUS
  <2> QED BY <1>1, <2>1, <2>2 DEF AccountsKept, StationsKept
<1>3. ASSUME NEW x \in DOMAIN stations', NEW y \in DOMAIN stations',
             stations'[x].organization_id = stations'[y].organization_id,
             stations'[x].organization_id # NoId,
             stations'[x].is_head_office, ~stations'[x].by_seed,
             stations'[y].is_head_office, ~stations'[y].by_seed
      PROVE  x = y
  <2>1. CASE x # s /\ y # s
    BY <1>3, <2>1 DEF AccountsKept, StationsKept
  <2>2. CASE x = s
    BY <1>3, <2>2 DEF HeadOffices, StationsOf
  <2>3. CASE y = s
    BY <1>3, <2>3 DEF HeadOffices, StationsOf
  <2> QED BY <2>1, <2>2, <2>3
<1>4. StationsKept'
  BY <1>2, <1>3 DEF StationsKept
<1>5. OrganizationsKept' /\ RolesKept'
  BY DEF AccountsKept, OrganizationsKept, RolesKept
<1>6. UsersKept' /\ MadeByMaster
  BY UsersStay DEF AccountsKept, UsersKept, RowKept
<1> QED BY <1>4, <1>5, <1>6 DEF AccountsKept

LEMMA StationsStep ==
  ASSUME AccountsKept, StationsNext
  PROVE  AccountsKept' /\ MadeByMaster
<1>1. ASSUME NEW a \in LoggedIn, NEW code \in StationCodes, NEW o \in OrganizationIds,
             NEW ho \in BOOLEAN, CreateStation(a, code, o, ho)
      PROVE  AccountsKept' /\ MadeByMaster
  <2>1. PICK s : s = NextId(stations)
    OBVIOUS
  <2>2. PICK row : row = [code |-> code, organization_id |-> o, is_head_office |-> ho,
                          by_seed |-> FALSE]
    OBVIOUS
  <2>3. /\ s \in StationIds /\ o \in DOMAIN organizations /\ (ho => HeadOffices(o) = {})
        /\ stations' = Added(stations, s, row)
        /\ UNCHANGED <<organizations, roles, users>>
    BY <1>1, <2>1, <2>2 DEF CreateStation
  <2>4. s \notin DOMAIN stations
    BY <2>1, NextIdIsNew, TenancyAssumption DEF AccountsKept, StationsKept, StationIds
  <2>5. /\ DOMAIN stations' = DOMAIN stations \cup {s} /\ stations'[s] = row
        /\ \A x \in DOMAIN stations \ {s} : stations'[x] = stations[x]
    BY <2>3, <2>4 DEF Added
  <2> QED BY <2>2, <2>3, <2>5, StationSaved
<1>2. ASSUME NEW a \in LoggedIn, NEW s \in DOMAIN stations, NEW code \in StationCodes,
             NEW o \in OrganizationIds \cup {NoId}, NEW ho \in BOOLEAN,
             UpdateStation(a, s, code, o, ho)
      PROVE  AccountsKept' /\ MadeByMaster
  <2>1. PICK row : row = [code |-> code, organization_id |-> o, is_head_office |-> ho,
                          by_seed |-> FALSE]
    OBVIOUS
  <2>2. /\ stations' = [stations EXCEPT ![s] = row]
        /\ o \in DOMAIN organizations \cup {NoId}
        /\ o # NoId /\ ho => HeadOffices(o) \subseteq {s}
        /\ UNCHANGED <<organizations, roles, users>>
    BY <1>2, <2>1 DEF UpdateStation, MovesTo
  <2>3. /\ DOMAIN stations' = DOMAIN stations \cup {s} /\ stations'[s] = row
        /\ \A x \in DOMAIN stations \ {s} : stations'[x] = stations[x]
    BY <2>2
  <2>4. s \in StationIds
    BY DEF AccountsKept, StationsKept
  <2> QED BY <2>1, <2>2, <2>3, <2>4, StationSaved
<1>3. ASSUME NEW a \in LoggedIn, NEW s \in DOMAIN stations, DeleteStation(a, s)
      PROVE  AccountsKept' /\ MadeByMaster
  <2>1. /\ DOMAIN stations' = DOMAIN stations \ {s}
        /\ \A x \in DOMAIN stations \ {s} : stations'[x] = stations[x]
        /\ \A u \in DOMAIN users : users[u].station_id # s
        /\ UNCHANGED <<organizations, roles, users>>
    BY <1>3, DroppedRow DEF DeleteStation
  <2>2. StationsKept'
    BY <2>1 DEF AccountsKept, StationsKept
  <2>3. OrganizationsKept' /\ RolesKept'
    BY <2>1 DEF AccountsKept, OrganizationsKept, RolesKept
  <2>4. UsersKept' /\ MadeByMaster
    BY <2>1, UsersStay DEF AccountsKept, UsersKept, RowKept
  <2> QED BY <2>2, <2>3, <2>4 DEF AccountsKept
<1> QED BY <1>1, <1>2, <1>3 DEF StationsNext

-----------------------------------------------------------------------------
\* A role that is made or renamed is not a core role, before and after.
LEMMA RolesStep ==
  ASSUME AccountsKept, RolesNext
  PROVE  AccountsKept' /\ MadeByMaster
<1>1. /\ CustomRoles \cap CoreRoleNames = {} /\ CustomNames \cap CoreRoleNames = {}
  BY TenancyAssumption
<1>2. /\ UNCHANGED <<organizations, stations, users>> /\ RolesKept'
      /\ \A u \in DOMAIN users : users[u].role_id \in DOMAIN roles'
  <2>1. ASSUME NEW a \in LoggedIn, NEW r \in CustomRoles, NEW name \in CustomNames,
               CreateRole(a, r, name)
        PROVE  <1>2!1 /\ <1>2!2
    <3>1. /\ r \notin DOMAIN roles /\ roles' = Added(roles, r, name)
          /\ UNCHANGED <<organizations, stations, users>>
      BY <2>1 DEF CreateRole
    <3> QED BY <1>1, <3>1 DEF Added, AccountsKept, RolesKept, UsersKept, RowKept
  <2>2. ASSUME NEW a \in LoggedIn, NEW r \in DOMAIN roles, NEW name \in CustomNames,
               UpdateRole(a, r, name)
        PROVE  <1>2!1 /\ <1>2!2
    <3>1. /\ roles' = [roles EXCEPT ![r] = name] /\ MayRename(r, name)
          /\ UNCHANGED <<organizations, stations, users>>
      BY <2>2 DEF UpdateRole
    <3>2. r \notin CoreRoleNames
      BY <1>1, <3>1 DEF MayRename, AccountsKept, RolesKept
    <3> QED BY <1>1, <3>1, <3>2 DEF AccountsKept, RolesKept, UsersKept, RowKept
  <2>3. ASSUME NEW a \in LoggedIn, NEW r \in DOMAIN roles, DeleteRole(a, r)
        PROVE  <1>2!1 /\ <1>2!2
    <3>1. /\ DOMAIN roles' = DOMAIN roles \ {r}
          /\ \A x \in DOMAIN roles \ {r} : roles'[x] = roles[x]
          /\ roles[r] \notin CoreRoleNames
          /\ \A u \in DOMAIN users : users[u].role_id # r
          /\ UNCHANGED <<organizations, stations, users>>
      BY <2>3, DroppedRow DEF DeleteRole, MayDeleteRole
    <3> QED BY <3>1 DEF AccountsKept, RolesKept, UsersKept, RowKept
  <2> QED BY <2>1, <2>2, <2>3 DEF RolesNext
<1>3. OrganizationsKept' /\ StationsKept'
  BY <1>2 DEF AccountsKept, OrganizationsKept, StationsKept
<1>4. UsersKept' /\ MadeByMaster
  BY <1>2, UsersStay DEF AccountsKept, UsersKept, RowKept
<1> QED BY <1>2, <1>3, <1>4 DEF AccountsKept

-----------------------------------------------------------------------------
\* The scope that a request gets fits its role, and only a master administrator gets
\* one for the platform.
LEMMA ScopeFits ==
  ASSUME AccountsKept, NEW a \in DOMAIN users, NEW ids, NEW req \in Requests(ids),
         req.role_id \in DOMAIN roles, NEW fallback,
         fallback.organization_id \in OrganizationIds \cup {NoId},
         fallback.station_id \in DOMAIN stations \cup {NoId},
         StationGivenFits(req), NEW logged \in BOOLEAN, NEW scope,
         scope = Scope(roles[req.role_id], req, fallback),
         MayScope(a, roles[req.role_id], scope)
  PROVE  LET row == Row(req.role_id, scope, logged, FALSE) IN
         /\ RowKept(row) /\ RowFits(row)
         /\ MasterRow(row) => IsMasterAdmin(a)
<1> DEFINE row == Row(req.role_id, scope, logged, FALSE)
<1>1. PICK name : name = roles[req.role_id]
  OBVIOUS
<1>2. /\ req.role_id \in RoleIds
      /\ PlatformOnly(name) <=> req.role_id = "MasterAdmin"
      /\ RequiresStation(name) <=> req.role_id \notin {"MasterAdmin", "HeadOffice", "Admin"}
  BY <1>1, RoleByName DEF AccountsKept
<1>3. /\ row.role_id = req.role_id /\ row.organization_id = scope.organization_id
      /\ row.station_id = scope.station_id /\ row.is_platform_user = scope.is_platform_user
  BY DEF Row
<1>4. CASE PlatformOnly(name)
  <2>1. /\ scope.organization_id = NoId /\ scope.station_id = NoId
        /\ scope.is_platform_user = TRUE
        /\ IsMasterAdmin(a)
    BY <1>1, <1>4 DEF Scope, MayScope
  <2>2. RowKept(row)
    BY <1>2, <2>1 DEF Row, RowKept, User
  <2> QED BY <1>2, <1>3, <1>4, <2>1, <2>2 DEF RowFits
<1>5. CASE ~PlatformOnly(name)
  <2>1. Given(req) \in OrganizationIds \cup {NoId}
    <3>1. CASE req.station_id = NoId
      BY <3>1 DEF Given, Requests
    <3>2. CASE req.station_id # NoId
      <4>1. req.station_id \in DOMAIN stations
        BY <3>2 DEF StationGivenFits
      <4>2. stations[req.station_id] \in Station
        BY <4>1 DEF AccountsKept, StationsKept
      <4> QED BY <3>2, <4>2 DEF Given, Station
    <3> QED BY <3>1, <3>2
  <2>2. /\ scope.organization_id =
             IF Given(req) # NoId THEN Given(req) ELSE fallback.organization_id
        /\ scope.station_id =
             IF ~RequiresStation(name)      THEN NoId
             ELSE IF req.station_id # NoId  THEN req.station_id
                                            ELSE fallback.station_id
        /\ scope.is_platform_user = FALSE
    BY <1>1, <1>5 DEF Scope
  <2>3. /\ scope.organization_id # NoId
        /\ RequiresStation(name) => scope.station_id # NoId
    BY <1>1, <1>5 DEF MayScope
  <2>4. scope.organization_id \in OrganizationIds
    BY <2>1, <2>2, <2>3
  <2>5. /\ scope.station_id \in DOMAIN stations \cup {NoId}
        /\ RequiresStation(name) <=> scope.station_id # NoId
    <3>1. CASE ~RequiresStation(name)
      <4>1. scope.station_id = NoId
        BY <2>2, <3>1
      <4> QED BY <3>1, <4>1
    <3>2. CASE RequiresStation(name) /\ req.station_id # NoId
      <4>1. scope.station_id = req.station_id
        BY <2>2, <3>2
      <4> QED BY <3>2, <4>1 DEF StationGivenFits
    <3>3. CASE RequiresStation(name) /\ req.station_id = NoId
      <4>1. scope.station_id = fallback.station_id
        BY <2>2, <3>3
      <4> QED BY <2>3, <3>3, <4>1
    <3> QED BY <3>1, <3>2, <3>3
  <2>6. DOMAIN stations \subseteq StationIds
    BY DEF AccountsKept, StationsKept
  <2>7. RowKept(row)
    BY <1>2, <2>2, <2>4, <2>5, <2>6 DEF Row, RowKept, User
  <2>8. RowFits(row)
    BY <1>2, <1>3, <1>5, <2>2, <2>3, <2>5 DEF RowFits
  <2>9. ~MasterRow(row)
    BY <1>2, <1>3, <1>5, <2>2 DEF MasterRow
  <2> QED BY <2>7, <2>8, <2>9
<1> QED BY <1>4, <1>5

\* A user whose row is saved with a scope that fits.
LEMMA UserSaved ==
  ASSUME AccountsKept, UNCHANGED <<organizations, stations, roles>>,
         NEW u \in Usernames, NEW row, RowKept(row),
         RowFits(row) \/ (u = "admin" /\ row.seeded),
         DOMAIN users' = DOMAIN users \cup {u}, users'[u] = row,
         \A x \in DOMAIN users \ {u} : users'[x] = users[x],
         MasterRow(row) => (u \in DOMAIN users /\ MasterRow(users[u])) \/ Masters \cap LoggedIn # {}
  PROVE  AccountsKept' /\ MadeByMaster
<1>1. OrganizationsKept' /\ RolesKept' /\ StationsKept'
  BY DEF AccountsKept, OrganizationsKept, RolesKept, StationsKept
<1>2. \A x \in DOMAIN users' : x = u \/ x \in DOMAIN users \ {u}
  OBVIOUS
<1>3. UsersKept'
  BY <1>2 DEF AccountsKept, UsersKept, RowKept
<1>4. MadeByMaster
  BY <1>2 DEF MadeByMaster
<1> QED BY <1>1, <1>3, <1>4 DEF AccountsKept

LEMMA LoggedInMaster ==
  ASSUME NEW a \in LoggedIn, IsMasterAdmin(a)
  PROVE  Masters \cap LoggedIn # {}
BY DEF IsMasterAdmin, Masters, LoggedIn

LEMMA OrganizationTyped ==
  ASSUME AccountsKept, NEW a \in DOMAIN users
  PROVE  OrganizationOf(a) \in OrganizationIds \cup {NoId}
<1>1. users[a].organization_id \in OrganizationIds \cup {NoId}
  BY DEF AccountsKept, UsersKept, RowKept, User
<1>2. \A s \in DOMAIN stations : stations[s].organization_id \in OrganizationIds \cup {NoId}
  BY DEF AccountsKept, StationsKept, Station
<1> QED BY <1>1, <1>2 DEF OrganizationOf

LEMMA UsersStep ==
  ASSUME AccountsKept, UsersNext
  PROVE  AccountsKept' /\ MadeByMaster
<1>1. ASSUME NEW a \in LoggedIn, NEW u \in Usernames, NEW req \in Requests(RequestedRoles),
             CreateUser(a, u, req)
      PROVE  AccountsKept' /\ MadeByMaster
  <2>1. PICK fallback :
          fallback = [organization_id |-> OrganizationOf(a), station_id |-> NoId]
    OBVIOUS
  <2>2. PICK scope : scope = Scope(roles[req.role_id], req, fallback)
    OBVIOUS
  <2>3. PICK row : row = Row(req.role_id, scope, FALSE, FALSE)
    OBVIOUS
  <2>4. /\ u \notin DOMAIN users /\ req.role_id \in DOMAIN roles /\ StationGivenFits(req)
        /\ MayScope(a, roles[req.role_id], scope)
        /\ users' = Added(users, u, row)
        /\ UNCHANGED <<organizations, stations, roles>>
    BY <1>1, <2>1, <2>2, <2>3 DEF CreateUser
  <2>5. /\ fallback.organization_id \in OrganizationIds \cup {NoId}
        /\ fallback.station_id = NoId
        /\ a \in DOMAIN users
    BY <2>1, OrganizationTyped DEF LoggedIn
  <2>6. RowKept(row) /\ RowFits(row) /\ (MasterRow(row) => IsMasterAdmin(a))
    BY <2>2, <2>3, <2>4, <2>5, ScopeFits
  <2>7. /\ DOMAIN users' = DOMAIN users \cup {u} /\ users'[u] = row
        /\ \A x \in DOMAIN users \ {u} : users'[x] = users[x]
    BY <2>4 DEF Added
  <2> QED BY <2>4, <2>6, <2>7, LoggedInMaster, UserSaved
<1>2. ASSUME NEW a \in LoggedIn, NEW u \in DOMAIN users,
             NEW req \in Requests(RequestedRoles \cup {users[u].role_id}),
             UpdateUser(a, u, req)
      PROVE  AccountsKept' /\ MadeByMaster
  <2>1. PICK fallback : fallback = users[u]
    OBVIOUS
  <2>2. PICK scope : scope = Scope(roles[req.role_id], req, fallback)
    OBVIOUS
  <2>3. PICK row : row = Row(req.role_id, scope, users[u].auth_sessions, FALSE)
    OBVIOUS
  <2>4. /\ req.role_id \in DOMAIN roles /\ StationGivenFits(req)
        /\ MayScope(a, roles[req.role_id], scope)
        /\ users' = [users EXCEPT ![u] = row]
        /\ UNCHANGED <<organizations, stations, roles>>
    BY <1>2, <2>1, <2>2, <2>3 DEF UpdateUser
  <2>5. /\ fallback \in User /\ users[u].auth_sessions \in BOOLEAN
        /\ fallback.organization_id \in OrganizationIds \cup {NoId}
        /\ fallback.station_id \in DOMAIN stations \cup {NoId}
        /\ a \in DOMAIN users /\ u \in Usernames
    BY <2>1 DEF AccountsKept, UsersKept, RowKept, User, LoggedIn
  <2>6. RowKept(row) /\ RowFits(row) /\ (MasterRow(row) => IsMasterAdmin(a))
    BY <2>2, <2>3, <2>4, <2>5, ScopeFits
  <2>7. /\ DOMAIN users' = DOMAIN users \cup {u} /\ users'[u] = row
        /\ \A x \in DOMAIN users \ {u} : users'[x] = users[x]
    BY <2>4
  <2> QED BY <2>4, <2>5, <2>6, <2>7, LoggedInMaster, UserSaved
<1>3. ASSUME NEW a \in LoggedIn, NEW u \in DOMAIN users, DeleteUser(a, u)
      PROVE  AccountsKept' /\ MadeByMaster
  <2>1. /\ DOMAIN users' = DOMAIN users \ {u}
        /\ \A x \in DOMAIN users \ {u} : users'[x] = users[x]
        /\ UNCHANGED <<organizations, stations, roles>>
    BY <1>3, DroppedRow DEF DeleteUser
  <2>2. OrganizationsKept' /\ RolesKept' /\ StationsKept'
    BY <2>1 DEF AccountsKept, OrganizationsKept, RolesKept, StationsKept
  <2>3. UsersKept' /\ MadeByMaster
    BY <2>1 DEF AccountsKept, UsersKept, RowKept, MadeByMaster
  <2> QED BY <2>2, <2>3 DEF AccountsKept
<1> QED BY <1>1, <1>2, <1>3 DEF UsersNext

LEMMA LoginStep ==
  ASSUME AccountsKept, NEW u \in DOMAIN users, Login(u)
  PROVE  AccountsKept' /\ MadeByMaster
<1>1. PICK row : row = [users[u] EXCEPT !.auth_sessions = TRUE]
  OBVIOUS
<1>2. users[u] \in User /\ RowKept(users[u]) /\ u \in Usernames
  BY DEF AccountsKept, UsersKept, RowKept
<1>3. /\ row \in User
      /\ row.role_id = users[u].role_id /\ row.organization_id = users[u].organization_id
      /\ row.station_id = users[u].station_id /\ row.seeded = users[u].seeded
      /\ row.is_platform_user = users[u].is_platform_user
  BY <1>1, <1>2 DEF User
<1>4. RowKept(row) /\ (RowFits(row) \/ (u = "admin" /\ row.seeded))
  BY <1>2, <1>3 DEF RowKept, RowFits, AccountsKept, UsersKept
<1>5. MasterRow(row) => MasterRow(users[u])
  BY <1>3 DEF MasterRow
<1>6. /\ DOMAIN users' = DOMAIN users \cup {u} /\ users'[u] = row
      /\ \A x \in DOMAIN users \ {u} : users'[x] = users[x]
      /\ UNCHANGED <<organizations, stations, roles>>
  BY <1>1 DEF Login
<1> QED BY <1>2, <1>4, <1>5, <1>6, UserSaved

-----------------------------------------------------------------------------
(* The seed script *)

\* The default organization is found, or made.
LEMMA DefaultIsThere ==
  ASSUME OrganizationsKept, NEW orgs, orgs = WithDefault(organizations),
         DOMAIN orgs \subseteq OrganizationIds
  PROVE  /\ DefaultOrganization(orgs) \in DOMAIN orgs
         /\ DOMAIN organizations \subseteq DOMAIN orgs
         /\ \A o \in DOMAIN orgs : orgs[o] \in OrganizationCodes
<1>1. CASE "DEFAULT" \in Range(organizations)
  <2>1. orgs = organizations
    BY <1>1 DEF WithDefault
  <2>2. \E o \in DOMAIN orgs : orgs[o] = "DEFAULT"
    BY <1>1, <2>1 DEF Range
  <2> QED BY <2>1, <2>2 DEF OrganizationsKept, DefaultOrganization
<1>2. CASE "DEFAULT" \notin Range(organizations)
  <2>1. PICK o : o = NextId(organizations)
    OBVIOUS
  <2>2. orgs = Added(organizations, o, "DEFAULT")
    BY <1>2, <2>1 DEF WithDefault
  <2>3. o \notin DOMAIN organizations
    BY <2>1, NextIdIsNew, TenancyAssumption DEF OrganizationsKept, OrganizationIds
  <2>4. /\ DOMAIN orgs = DOMAIN organizations \cup {o} /\ orgs[o] = "DEFAULT"
        /\ \A x \in DOMAIN organizations : orgs[x] = organizations[x]
    BY <2>2, <2>3 DEF Added
  <2>5. "DEFAULT" \in OrganizationCodes
    BY TenancyAssumption
  <2>6. DefaultOrganization(orgs) \in DOMAIN orgs
    BY <2>4 DEF DefaultOrganization
  <2> QED BY <2>4, <2>5, <2>6 DEF OrganizationsKept
<1> QED BY <1>1, <1>2

\* So is the head office, and the stations stay in order.
LEMMA HeadQuartersAreThere ==
  ASSUME AccountsKept, NEW sts, NEW o \in OrganizationIds, NEW ids,
         DOMAIN organizations \subseteq ids, o \in ids,
         sts = WithHeadQuarters(stations, o), DOMAIN sts \subseteq StationIds
  PROVE  /\ HeadQuarters(sts) \in DOMAIN sts
         /\ DOMAIN stations \subseteq DOMAIN sts
         /\ \A s \in DOMAIN sts : sts[s] \in Station /\ sts[s].organization_id \in ids \cup {NoId}
         /\ \A s \in DOMAIN sts : sts[s].by_seed \/ (s \in DOMAIN stations /\ sts[s] = stations[s])
<1>1. CASE "HQ" \notin Range(CodesOf(stations))
  <2>1. PICK s : s = NextId(stations)
    OBVIOUS
  <2>2. PICK row : row = NewHeadQuarters(o, TRUE)
    OBVIOUS
  <2>3. /\ row \in Station /\ row.code = "HQ" /\ row.organization_id = o /\ row.by_seed
    BY <2>2, TenancyAssumption DEF NewHeadQuarters, Station
  <2>4. sts = Added(stations, s, row)
    BY <1>1, <2>1, <2>2 DEF WithHeadQuarters
  <2>5. s \notin DOMAIN stations
    BY <2>1, NextIdIsNew, TenancyAssumption DEF AccountsKept, StationsKept, StationIds
  <2>6. /\ DOMAIN sts = DOMAIN stations \cup {s} /\ sts[s] = row
        /\ \A x \in DOMAIN stations : sts[x] = stations[x]
    BY <2>4, <2>5 DEF Added
  <2>7. HeadQuarters(sts) \in DOMAIN sts
    BY <2>3, <2>6 DEF HeadQuarters
  <2> QED BY <2>3, <2>6, <2>7 DEF AccountsKept, StationsKept
<1>2. CASE "HQ" \in Range(CodesOf(stations))
  <2>1. PICK h \in DOMAIN stations : stations[h].code = "HQ"
    BY <1>2 DEF Range, CodesOf
  <2>2. /\ DOMAIN sts = DOMAIN stations
        /\ \A s \in DOMAIN stations :
             sts[s] = IF stations[s].code = "HQ" /\ stations[s].organization_id = NoId
                      THEN [stations[s] EXCEPT !.organization_id = o, !.is_head_office = TRUE,
                                               !.by_seed = TRUE]
                      ELSE stations[s]
    BY <1>2 DEF WithHeadQuarters
  <2>3. ASSUME NEW s \in DOMAIN stations
        PROVE  /\ sts[s] \in Station /\ sts[s].organization_id \in ids \cup {NoId}
               /\ sts[s].code = stations[s].code
               /\ sts[s].by_seed \/ sts[s] = stations[s]
    <3>1. /\ stations[s] \in Station
          /\ stations[s].organization_id \in DOMAIN organizations \cup {NoId}
      BY DEF AccountsKept, StationsKept
    <3>2. CASE stations[s].code = "HQ" /\ stations[s].organization_id = NoId
      <4>1. sts[s] = [stations[s] EXCEPT !.organization_id = o, !.is_head_office = TRUE,
                                         !.by_seed = TRUE]
        BY <2>2, <3>2
      <4> QED BY <3>1, <4>1 DEF Station
    <3>3. CASE ~(stations[s].code = "HQ" /\ stations[s].organization_id = NoId)
      <4>1. sts[s] = stations[s]
        BY <2>2, <3>3
      <4> QED BY <3>1, <4>1
    <3> QED BY <3>2, <3>3
  <2>4. sts[h].code = "HQ" /\ h \in DOMAIN sts
    BY <2>1, <2>2, <2>3
  <2>5. HeadQuarters(sts) \in DOMAIN sts
    BY <2>4 DEF HeadQuarters
  <2> QED BY <2>2, <2>3, <2>5
<1> QED BY <1>1, <1>2

RowWritten(row, s) ==
  /\ row \in User
  /\ row.role_id \in DOMAIN roles
  /\ row.station_id \in {s, NoId}

\* The rows that the script writes: a demo user fits its role, the administrator is
\* marked as seeded.
LEMMA SeededRowsKept ==
  ASSUME RolesKept, NEW o \in OrganizationIds, NEW s \in StationIds, NEW logged \in BOOLEAN
  PROVE  /\ RowWritten(NewMasterAdmin, s) /\ RowFits(NewMasterAdmin)
         /\ NewMasterAdmin.seeded
         /\ \A r \in DOMAIN roles :
              /\ RowWritten(AdminRow(r, o, s, logged), s)
              /\ AdminRow(r, o, s, logged).seeded
         /\ \A u \in DOMAIN DemoUsers :
              /\ RowWritten(DemoRow(u, o, s, logged), s) /\ RowFits(DemoRow(u, o, s, logged))
              /\ DemoRow(u, o, s, logged).seeded
<1>1. NoId \notin OrganizationIds /\ NoId \notin StationIds
  BY DEF NoId, OrganizationIds, StationIds
<1>2. "MasterAdmin" \in DOMAIN roles /\ "MasterAdmin" \in RoleIds
  BY DEF RolesKept, CoreRoleNames, RoleIds
<1>3. RowWritten(NewMasterAdmin, s) /\ RowFits(NewMasterAdmin) /\ NewMasterAdmin.seeded
  BY <1>1, <1>2 DEF NewMasterAdmin, Row, RowWritten, RowFits, User
<1>4. ASSUME NEW r \in DOMAIN roles
      PROVE  /\ RowWritten(AdminRow(r, o, s, logged), s)
             /\ AdminRow(r, o, s, logged).seeded
  <2>1. r \in RoleIds
    BY RoleByName
  <2> QED BY <2>1 DEF AdminRow, Row, RowWritten, User
<1>5. ASSUME NEW u \in DOMAIN DemoUsers
      PROVE  /\ RowWritten(DemoRow(u, o, s, logged), s) /\ RowFits(DemoRow(u, o, s, logged))
             /\ DemoRow(u, o, s, logged).seeded
  <2>1. PICK role, row : role = DemoUsers[u] /\ row = DemoRow(u, o, s, logged)
    OBVIOUS
  <2>2. role \in CoreRoleNames \ {"MasterAdmin", "Admin"}
    BY <2>1, TenancyAssumption DEF Range
  <2>3. role \in DOMAIN roles /\ role \in RoleIds
    BY <2>2 DEF RolesKept, RoleIds
  <2>4. row = [role_id |-> role, organization_id |-> o,
               station_id |-> IF role = "HeadOffice" THEN NoId ELSE s,
               is_platform_user |-> FALSE, auth_sessions |-> logged, seeded |-> TRUE]
    BY <2>1 DEF DemoRow, Row
  <2>5. CASE role = "HeadOffice"
    BY <1>1, <2>1, <2>2, <2>3, <2>4, <2>5 DEF RowWritten, RowFits, User
  <2>6. CASE role # "HeadOffice"
    BY <1>1, <2>1, <2>2, <2>3, <2>4, <2>6 DEF RowWritten, RowFits, User
  <2> QED BY <2>5, <2>6
<1> QED BY <1>3, <1>4, <1>5

LEMMA SeedStep ==
  ASSUME AccountsKept, Seed
  PROVE  AccountsKept' /\ MadeByMaster
<1>1. PICK orgs : orgs = WithDefault(organizations)
  OBVIOUS
<1>2. PICK o : o = DefaultOrganization(orgs)
  OBVIOUS
<1>3. PICK sts : sts = WithHeadQuarters(stations, o)
  OBVIOUS
<1>4. PICK s : s = HeadQuarters(sts)
  OBVIOUS
<1>5. /\ DOMAIN orgs \subseteq OrganizationIds /\ DOMAIN sts \subseteq StationIds
      /\ organizations' = orgs /\ stations' = sts /\ UNCHANGED roles
      /\ users' = SeededUsers(o, s)
  BY <1>1, <1>2, <1>3, <1>4 DEF Seed
<1>6. /\ o \in DOMAIN orgs /\ DOMAIN organizations \subseteq DOMAIN orgs
      /\ \A x \in DOMAIN orgs : orgs[x] \in OrganizationCodes
  BY <1>1, <1>2, <1>5, DefaultIsThere DEF AccountsKept
<1>7. /\ s \in DOMAIN sts /\ DOMAIN stations \subseteq DOMAIN sts
      /\ \A x \in DOMAIN sts : sts[x] \in Station /\ sts[x].organization_id \in DOMAIN orgs \cup {NoId}
      /\ \A x \in DOMAIN sts : sts[x].by_seed \/ (x \in DOMAIN stations /\ sts[x] = stations[x])
  <2>1. o \in OrganizationIds
    BY <1>5, <1>6
  <2> QED BY <1>3, <1>4, <1>5, <1>6, <2>1, HeadQuartersAreThere
<1>8. OrganizationsKept' /\ RolesKept'
  BY <1>5, <1>6 DEF OrganizationsKept, AccountsKept, RolesKept
<1>9. StationsKept'
  BY <1>5, <1>7 DEF AccountsKept, StationsKept
<1>10. /\ o \in OrganizationIds /\ s \in StationIds
       /\ {"masteradmin", "admin"} \cup DOMAIN DemoUsers \subseteq Usernames
       /\ {"masteradmin", "admin"} \cap DOMAIN DemoUsers = {}
  BY <1>5, <1>6, <1>7, TenancyAssumption
<1>11. /\ DOMAIN users' \subseteq Usernames
       /\ DOMAIN users' = SeededNames \cup DOMAIN users
  BY <1>5, <1>10 DEF SeededUsers, SeededNames, AccountsKept, UsersKept
<1>12. ASSUME NEW u \in DOMAIN users'
       PROVE  /\ users'[u] \in User
              /\ users'[u].role_id \in DOMAIN roles
              /\ users'[u].station_id \in DOMAIN sts \cup {NoId}
              /\ RowFits(users'[u]) \/ (u = "admin" /\ users'[u].seeded)
              /\ (u \in DOMAIN users /\ users'[u] = users[u]) \/ users'[u].seeded
  <2>1. \A x \in DOMAIN users :
          /\ users[x] \in User /\ users[x].role_id \in DOMAIN roles
          /\ users[x].station_id \in DOMAIN sts \cup {NoId}
          /\ RowFits(users[x]) \/ (x = "admin" /\ users[x].seeded)
    BY <1>7 DEF AccountsKept, UsersKept, RowKept
  <2>2. Sessions(u) \in BOOLEAN
    BY <2>1 DEF Sessions, User
  <2>3. RolesKept
    BY DEF AccountsKept
  <2>4. PICK row : row = users'[u]
    OBVIOUS
  <2>5. CASE u = "masteradmin"
    <3>1. row = MasterAdminRow
      BY <1>5, <1>10, <2>4, <2>5 DEF SeededUsers, SeededNames
    <3>2. CASE u \in DOMAIN users
      <4>1. row = users[u]
        BY <2>5, <3>1, <3>2 DEF MasterAdminRow
      <4> QED BY <2>1, <2>4, <3>2, <4>1
    <3>3. CASE u \notin DOMAIN users
      <4>1. row = NewMasterAdmin
        BY <2>5, <3>1, <3>3 DEF MasterAdminRow
      <4>2. RowWritten(row, s) /\ RowFits(row) /\ row.seeded
        BY <1>10, <2>2, <2>3, <4>1, SeededRowsKept
      <4> QED BY <1>7, <2>4, <4>2 DEF RowWritten
    <3> QED BY <3>2, <3>3
  <2>6. CASE u = "admin"
    <3>1. PICK r : r = IF u \in DOMAIN users THEN users[u].role_id ELSE "Admin"
      OBVIOUS
    <3>2. row = AdminRow(r, o, s, Sessions(u))
      BY <1>5, <1>10, <2>4, <2>6, <3>1 DEF SeededUsers, SeededNames
    <3>3. r \in DOMAIN roles
      BY <2>1, <2>3, <3>1 DEF RolesKept, CoreRoleNames
    <3>4. RowWritten(row, s) /\ row.seeded
      BY <1>10, <2>2, <2>3, <3>2, <3>3, SeededRowsKept
    <3> QED BY <1>7, <2>4, <2>6, <3>4 DEF RowWritten
  <2>7. CASE u \in DOMAIN DemoUsers
    <3>1. row = DemoRow(u, o, s, Sessions(u))
      BY <1>5, <1>10, <2>4, <2>7 DEF SeededUsers, SeededNames
    <3>2. RowWritten(row, s) /\ RowFits(row) /\ row.seeded
      BY <1>10, <2>2, <2>3, <2>7, <3>1, SeededRowsKept
    <3> QED BY <1>7, <2>4, <3>2 DEF RowWritten
  <2>8. CASE u \notin SeededNames
    <3>1. u \in DOMAIN users /\ row = users[u]
      BY <1>5, <1>11, <2>4, <2>8 DEF SeededUsers, SeededNames
    <3> QED BY <2>1, <2>4, <3>1
  <2> QED BY <2>5, <2>6, <2>7, <2>8 DEF SeededNames
<1>13. UsersKept'
  BY <1>5, <1>11, <1>12 DEF UsersKept, RowKept
<1>14. MadeByMaster
  BY <1>12 DEF MadeByMaster
<1> QED BY <1>8, <1>9, <1>13, <1>14 DEF AccountsKept

LEMMA AccountsInitKept ==
  ASSUME AccountsInit
  PROVE  AccountsKept
<1>1. 1 \in OrganizationIds /\ 1 \in StationIds
  BY TenancyAssumption DEF OrganizationIds, StationIds
<1>2. /\ "HQ" \in StationCodes /\ "DEFAULT" \in OrganizationCodes
      /\ {"masteradmin", "admin"} \cup DOMAIN DemoUsers \subseteq Usernames
      /\ {"masteradmin", "admin"} \cap DOMAIN DemoUsers = {}
  BY TenancyAssumption
<1>3. OrganizationsKept
  BY <1>1, <1>2 DEF AccountsInit, OrganizationsKept
<1>4. RolesKept
  BY DEF AccountsInit, RolesKept
<1>5. StationsKept
  <2>1. /\ DOMAIN stations = {1} /\ stations[1] = NewHeadQuarters(1, FALSE)
        /\ DOMAIN organizations = {1}
    BY DEF AccountsInit
  <2>2. NewHeadQuarters(1, FALSE) \in Station /\ NewHeadQuarters(1, FALSE).organization_id = 1
    BY <1>1, <1>2 DEF NewHeadQuarters, Station
  <2> QED BY <1>1, <2>1, <2>2 DEF StationsKept
<1>6. UsersKept
  <2>1. DOMAIN users = SeededNames /\ DOMAIN stations = {1}
    BY DEF AccountsInit
  <2>2. ASSUME NEW u \in DOMAIN users
        PROVE  RowKept(users[u]) /\ (RowFits(users[u]) \/ (u = "admin" /\ users[u].seeded))
    <3>1. CASE u = "masteradmin"
      <4>1. users[u] = NewMasterAdmin
        BY <2>1, <3>1 DEF AccountsInit, SeededNames
      <4>2. RowWritten(users[u], 1) /\ RowFits(users[u])
        BY <1>1, <1>4, <4>1, SeededRowsKept
      <4> QED BY <2>1, <4>2 DEF RowWritten, RowKept
    <3>2. CASE u = "admin"
      <4>1. users[u] = AdminRow("Admin", 1, 1, FALSE) /\ "Admin" \in DOMAIN roles
        BY <2>1, <3>2 DEF AccountsInit, SeededNames, CoreRoleNames
      <4>2. RowWritten(users[u], 1) /\ users[u].seeded
        BY <1>1, <1>4, <4>1, SeededRowsKept
      <4> QED BY <2>1, <3>2, <4>2 DEF RowWritten, RowKept
    <3>3. CASE u \in DOMAIN DemoUsers
      <4>1. users[u] = DemoRow(u, 1, 1, FALSE)
        BY <1>2, <2>1, <3>3 DEF AccountsInit, SeededNames
      <4>2. RowWritten(users[u], 1) /\ RowFits(users[u])
        BY <1>1, <1>4, <3>3, <4>1, SeededRowsKept
      <4> QED BY <2>1, <4>2 DEF RowWritten, RowKept
    <3> QED BY <2>1, <3>1, <3>2, <3>3 DEF SeededNames
  <2> QED BY <1>2, <2>1, <2>2 DEF UsersKept, SeededNames
<1> QED BY <1>3, <1>4, <1>5, <1>6 DEF AccountsKept

-----------------------------------------------------------------------------
(* Plans and subscriptions *)

\* A plan that is saved as the default is the only one, as the others were cleared.
LEMMA PlansStep ==
  ASSUME PlansKept, PlansNext
  PROVE  PlansKept'
<1>1. ASSUME NEW is_default
      PROVE  LET table == Cleared(is_default) IN
             /\ DOMAIN table = DOMAIN plans
             /\ \A p \in DOMAIN plans :
                  /\ table[p] \in Plan /\ table[p].by_seed = plans[p].by_seed
                  /\ table[p].is_default => plans[p].is_default /\ ~is_default
  <2>1. CASE is_default
    <3>1. Cleared(is_default) = [p \in DOMAIN plans |-> [plans[p] EXCEPT !.is_default = FALSE]]
      BY <2>1 DEF Cleared, NoneDefault
    <3>2. \A row \in Plan :
            LET cleared == [row EXCEPT !.is_default = FALSE] IN
            cleared \in Plan /\ cleared.by_seed = row.by_seed /\ ~cleared.is_default
      BY DEF Plan
    <3> QED BY <3>1, <3>2 DEF PlansKept
  <2>2. CASE ~is_default
    <3>1. Cleared(is_default) = plans
      BY <2>2 DEF Cleared
    <3> QED BY <2>2, <3>1 DEF PlansKept
  <2> QED BY <2>1, <2>2
<1>2. ASSUME NEW a \in LoggedIn, NEW is_default \in BOOLEAN, NEW is_active \in BOOLEAN,
             NEW is_starter \in BOOLEAN, CreatePlan(a, is_default, is_active, is_starter)
      PROVE  PlansKept'
  <2>1. PICK p, table, row :
          /\ p = NextId(plans) /\ table = Cleared(is_default)
          /\ row = [is_default |-> is_default, is_active |-> is_active,
                    is_starter |-> is_starter, by_seed |-> FALSE]
    OBVIOUS
  <2>2. p \in PlanIds /\ plans' = Added(table, p, row) /\ UNCHANGED subscriptions
    BY <1>2, <2>1 DEF CreatePlan
  <2>3. row \in Plan /\ row.is_default = is_default
    BY <2>1 DEF Plan
  <2>4. /\ DOMAIN table = DOMAIN plans
        /\ \A q \in DOMAIN plans :
             /\ table[q] \in Plan /\ table[q].by_seed = plans[q].by_seed
             /\ table[q].is_default => plans[q].is_default /\ ~is_default
    BY <1>1, <2>1
  <2>5. /\ DOMAIN plans' = DOMAIN plans \cup {p}
        /\ \A q \in DOMAIN plans : plans'[q] = table[q]
        /\ p \notin DOMAIN plans => plans'[p] = row
    BY <2>2, <2>4 DEF Added
  <2> QED BY <2>2, <2>3, <2>4, <2>5 DEF PlansKept
<1>3. ASSUME NEW a \in LoggedIn, NEW is_default \in BOOLEAN, NEW is_active \in BOOLEAN,
             NEW is_starter \in BOOLEAN, NEW p \in DOMAIN plans, NEW named \in BOOLEAN,
             UpdatePlan(a, p, named, is_default, is_active, is_starter)
      PROVE  PlansKept'
  <2>1. PICK cleared, table, row :
          /\ cleared = (named /\ is_default) /\ table = Cleared(cleared)
          /\ row = [is_default |-> IF named THEN is_default /\ ~plans[p].is_default
                                            ELSE plans[p].is_default,
                    is_active |-> is_active, is_starter |-> is_starter,
                    by_seed |-> plans[p].by_seed]
    OBVIOUS
  <2>2. plans' = [table EXCEPT ![p] = row] /\ UNCHANGED subscriptions
    BY <1>3, <2>1 DEF UpdatePlan
  <2>3. /\ row \in Plan /\ row.by_seed = plans[p].by_seed
        /\ row.is_default => cleared \/ plans[p].is_default
    <3>1. plans[p] \in Plan
      BY DEF PlansKept
    <3> QED BY <2>1, <3>1 DEF Plan
  <2>4. /\ DOMAIN table = DOMAIN plans
        /\ \A q \in DOMAIN plans :
             /\ table[q] \in Plan /\ table[q].by_seed = plans[q].by_seed
             /\ table[q].is_default => plans[q].is_default /\ ~cleared
    BY <1>1, <2>1
  <2>5. /\ DOMAIN plans' = DOMAIN plans
        /\ \A q \in DOMAIN plans \ {p} : plans'[q] = table[q]
        /\ plans'[p] = row
    BY <2>2, <2>4
  <2> QED BY <2>2, <2>3, <2>4, <2>5 DEF PlansKept
<1> QED BY <1>2, <1>3 DEF PlansNext

\* A subscription is to a plan that exists, or to none.
LEMMA SubscribedTo ==
  ASSUME PlansKept, NEW o, NEW p \in DOMAIN plans \cup {NoId}, UNCHANGED plans,
         subscriptions' = Put(subscriptions, o, p) \/ UNCHANGED subscriptions
  PROVE  PlansKept'
BY DEF PlansKept, Put

LEMMA SubscriptionsStep ==
  ASSUME PlansKept, SubscriptionsNext
  PROVE  PlansKept'
<1>1. ASSUME NEW o, subscriptions' \in Opened(o), UNCHANGED plans
      PROVE  PlansKept'
  <2>1. CASE o \in DOMAIN subscriptions
    <3>1. UNCHANGED subscriptions
      BY <1>1, <2>1 DEF Opened
    <3> QED BY <1>1, <3>1 DEF PlansKept
  <2>2. CASE o \notin DOMAIN subscriptions
    <3>1. PICK p \in (IF DefaultPlans = {} THEN {NoId} ELSE DefaultPlans) :
            subscriptions' = Put(subscriptions, o, p)
      BY <1>1, <2>2 DEF Opened
    <3>2. p \in DOMAIN plans \cup {NoId}
      BY <3>1 DEF DefaultPlans
    <3> QED BY <1>1, <3>1, <3>2, SubscribedTo
  <2> QED BY <2>1, <2>2
<1>2. ASSUME NEW a \in LoggedIn, NEW o \in OrganizationIds, GetSubscription(a, o)
      PROVE  PlansKept'
  BY <1>1, <1>2 DEF GetSubscription
<1>3. ASSUME NEW a \in LoggedIn, NEW o \in OrganizationIds, NEW p \in PlanIds \cup {NoId},
             PutSubscription(a, o, p)
      PROVE  PlansKept'
  BY <1>1, <1>3, SubscribedTo DEF PutSubscription
<1> QED BY <1>2, <1>3 DEF SubscriptionsNext

LEMMA SaasStep ==
  ASSUME PlansKept, SaasNext
  PROVE  PlansKept'
<1>1. CASE ModulesNext
  <2>1. UNCHANGED <<plans, subscriptions>>
    BY <1>1 DEF ModulesNext, SetOrganizationModule, SetStationModule
  <2> QED BY <2>1 DEF PlansKept
<1> QED BY <1>1, PlansStep, SubscriptionsStep DEF SaasNext

\* The plan that the script adds says so.
LEMMA SeedSaasStep ==
  ASSUME PlansKept, SeedSaas
  PROVE  PlansKept'
<1>1. PICK starter :
        starter = IF Starters = {} THEN NextId(plans) ELSE CHOOSE p \in Starters : TRUE
  OBVIOUS
<1>2. PICK row : row = [is_default |-> TRUE, is_active |-> TRUE, is_starter |-> TRUE,
                        by_seed |-> TRUE]
  OBVIOUS
<1>3. PICK o : o = DefaultOrganization(organizations')
  OBVIOUS
<1>4. /\ starter \in PlanIds /\ plans' = Added(plans, starter, row)
      /\ subscriptions' = Added(subscriptions, o, starter)
  BY <1>1, <1>2, <1>3 DEF SeedSaas
<1>5. row \in Plan /\ row.by_seed
  BY <1>2 DEF Plan
<1>6. /\ DOMAIN plans' = DOMAIN plans \cup {starter}
      /\ \A p \in DOMAIN plans : plans'[p] = plans[p]
      /\ starter \notin DOMAIN plans => plans'[starter] = row
  BY <1>4 DEF Added
<1>7. \A x \in DOMAIN subscriptions' : subscriptions'[x] \in DOMAIN plans' \cup {NoId}
  BY <1>4, <1>6 DEF Added, PlansKept
<1> QED BY <1>4, <1>5, <1>6, <1>7 DEF PlansKept

-----------------------------------------------------------------------------
LEMMA TenantInvInit == TenantInit => TenantInv
<1>1. ASSUME SaasInit PROVE PlansKept
  <2>1. 1 \in PlanIds
    BY PlansAssumption DEF PlanIds
  <2> QED BY <1>1, <2>1 DEF SaasInit, PlansKept, Plan
<1> QED BY <1>1, AccountsInitKept DEF TenantInit, TenantInv

LEMMA TenantInvStep == TenantInv /\ [TenantNext]_tenantVars => TenantInv' /\ MadeByMaster
<1> SUFFICES ASSUME TenantInv, [TenantNext]_tenantVars PROVE TenantInv' /\ MadeByMaster
  OBVIOUS
<1>1. ASSUME UNCHANGED tenancyVars PROVE AccountsKept' /\ MadeByMaster
  <2>1. UNCHANGED <<organizations, stations, roles, users>>
    BY <1>1 DEF tenancyVars
  <2>2. OrganizationsKept' /\ RolesKept' /\ StationsKept'
    BY <2>1 DEF TenantInv, AccountsKept, OrganizationsKept, RolesKept, StationsKept
  <2>3. UsersKept' /\ MadeByMaster
    BY <2>1, UsersStay DEF TenantInv, AccountsKept, UsersKept, RowKept
  <2> QED BY <2>2, <2>3 DEF AccountsKept
<1>2. ASSUME UNCHANGED saasVars PROVE PlansKept'
  <2>1. UNCHANGED <<plans, subscriptions>>
    BY <1>2 DEF saasVars
  <2> QED BY <2>1 DEF TenantInv, PlansKept
<1>3. CASE AccountsNext /\ UNCHANGED saasVars
  BY <1>2, <1>3, OrganizationsStep, StationsStep, RolesStep, UsersStep
     DEF AccountsNext, TenantInv
<1>4. CASE SaasNext /\ UNCHANGED tenancyVars
  BY <1>1, <1>4, SaasStep DEF TenantInv
<1>5. CASE Seed /\ SeedSaas
  BY <1>5, SeedStep, SeedSaasStep DEF TenantInv
<1>6. ASSUME NEW u \in DOMAIN users, Login(u), UNCHANGED saasVars
      PROVE  TenantInv' /\ MadeByMaster
  BY <1>2, <1>6, LoginStep DEF TenantInv
<1>7. CASE UNCHANGED tenantVars
  <2>1. UNCHANGED tenancyVars /\ UNCHANGED saasVars
    BY <1>7 DEF tenantVars
  <2> QED BY <1>1, <1>2, <2>1 DEF TenantInv
<1> QED BY <1>3, <1>4, <1>5, <1>6, <1>7 DEF TenantNext

LEMMA TenantInvariant == TenantSpec => []TenantInv
<1>1. TenantInv /\ [TenantNext]_tenantVars => TenantInv'
  BY TenantInvStep
<1> QED BY <1>1, TenantInvInit, PTL DEF TenantSpec

\* permissions.py:8-51: whatever administrators edit, and whenever the seed script is
\* run, a user is in the scope that the rule of its role gives.
THEOREM ScopesFollowRoles == TenantSpec => []ScopeFollowsRole
<1>1. TenantInv => ScopeFollowsRole
  BY TenantInvImplies
<1> QED BY <1>1, TenantInvariant, PTL

\* organization.py:175, station.py:208, role.py:115, station.py:88: what is deleted is
\* referred to by nobody, and an organization has one head office.
THEOREM TenantsStayWellFormed == TenantSpec => []TenantsWellFormed
<1>1. TenantInv => TenantsWellFormed
  BY TenantInvImplies
<1> QED BY <1>1, TenantInvariant, PTL

\* saas.py:27 and :46: no two plans become the default.
THEOREM DefaultPlanIsUnique == TenantSpec => []OneDefaultPlan
<1>1. TenantInv => OneDefaultPlan
  BY TenantInvImplies
<1> QED BY <1>1, TenantInvariant, PTL

\* permissions.py:335, user.py:46: no request but that of a logged in master administrator
\* makes one.
THEOREM MastersComeFromMasters == TenantSpec => MasterFromMaster
<1> DEFINE FromMaster ==
      \A u \in Masters' \ Masters : users'[u].seeded \/ Masters \cap LoggedIn # {}
<1>1. AccountsKept => Masters = {u \in DOMAIN users : MasterRow(users[u])}
  BY MastersByRow
<1>2. (AccountsKept => Masters = {u \in DOMAIN users : MasterRow(users[u])})'
  BY <1>1, PTL
<1>3. TenantInv /\ TenantInv' /\ [TenantNext]_tenantVars => [FromMaster]_tenantVars
  <2> SUFFICES ASSUME TenantInv, TenantInv', [TenantNext]_tenantVars PROVE FromMaster
    OBVIOUS
  <2>1. Masters = {u \in DOMAIN users : MasterRow(users[u])}
    BY <1>1 DEF TenantInv
  <2>2. Masters' = {u \in DOMAIN users' : MasterRow(users'[u])}
    BY <1>2 DEF TenantInv
  <2>3. MadeByMaster
    BY TenantInvStep
  <2> QED BY <2>1, <2>2, <2>3 DEF MadeByMaster
<1> QED BY <1>3, TenantInvariant, PTL DEF TenantSpec, MasterFromMaster

=============================================================================
