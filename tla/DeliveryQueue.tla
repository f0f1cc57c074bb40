---------------------------- MODULE DeliveryQueue ----------------------------
(***************************************************************************)
(* Delivery of notifications and of financial documents: rows with a       *)
(* status, a count of attempts and the time of the next retry.  A row is   *)
(* attempted by the request that creates it, by the background worker      *)
(* (services/delivery_worker.py), by the "process-due" requests and by the *)
(* "retry" requests.  Each is a session: it selects rows, and for each in  *)
(* turn calls the provider and flushes the outcome, and commits at the     *)
(* end.  The provider has acted whether or not the session commits.        *)
(*                                                                         *)
(* The database is SQLite, the default: a session holds the write lock     *)
(* from its first flush to its end, and another's flush waits or times out.*)
(* "sent" stands for a notification's "delivered" too.                     *)
(***************************************************************************)
EXTENDS Naturals, FiniteSets

CONSTANTS
  Notices, Documents,  \* ids of the rows of the two tables
  Unaddressed,         \* rows without a destination, or whose channel is not configured
  Worker,              \* the background worker
  Threads,             \* the threads that serve requests
  MAX_DELIVERY_ATTEMPTS,
  MaxRequests,         \* bound: requests served
  MaxCrashes           \* bound: restarts of the process

ASSUME DeliveryAssumption ==
  /\ Notices \subseteq Nat /\ Documents \subseteq Nat /\ Notices \cap Documents = {}
  /\ Unaddressed \subseteq Notices \cup Documents
  /\ Worker \notin Threads
  /\ MAX_DELIVERY_ATTEMPTS \in Nat \ {0} /\ MaxRequests \in Nat /\ MaxCrashes \in Nat

VARIABLES
  row,        \* what is committed of each row
  broken,     \* documents that no longer render: the customer is deleted, the template is wrong
  stage,      \* which table the worker turns to next
  session,    \* the session of the worker and of each thread
  accepted,   \* history: how often the provider accepted the row's message (0, 1 or 2 for more)
  calls,      \* history: calls made without a retry request, up to one more than allowed
  disturbed,  \* history: rows that two sessions had at a time, or whose call was rolled back
  requests, crashes

faultVars == <<broken, crashes>>
history == <<accepted, calls, disturbed>>
vars == <<row, stage, session, requests, faultVars, history>>

-----------------------------------------------------------------------------
Items == Notices \cup Documents
Processes == {Worker} \cup Threads
Results == {"sent", "skipped", "failed"}

Row == [status : {"none", "queued", "retrying"} \cup Results,
        attempts : Nat,
        next_retry_at : {"null", "past", "future"}]

Absent == [status |-> "none", attempts |-> 0, next_retry_at |-> "null"]
Queued == [Absent EXCEPT !.status = "queued"]

Kinds == {"idle", "create", "retry", "notices", "documents"}

\* A session: the rows still to attempt, those flushed, the provider's answer
\* for the row at hand, the rows as selected and as changed.
Session == [kind : Kinds, left : SUBSET Items, done : SUBSET Items,
            answer : {"none"} \cup Results, base : [Items -> Row], view : [Items -> Row]]

NoRows == [i \in Items |-> Absent]
Idle == [kind |-> "idle", left |-> {}, done |-> {}, answer |-> "none",
         base |-> NoRows, view |-> NoRows]

Held(p) == session[p].left \cup session[p].done

\* Creating a row flushes it before the provider is called.
Locks(p) == session[p].kind = "create" \/ session[p].done # {}
LockFree(p) == \A q \in Processes \ {p} : ~Locks(q)

\* Rows are attempted by id.
AtHand(p) == CHOOSE i \in session[p].left : \A j \in session[p].left : i <= j

-----------------------------------------------------------------------------
\* Slip: one attempt too many.
RetriesOnceMore(attempts) == attempts <= MAX_DELIVERY_ATTEMPTS

ShouldRetry(attempts) == attempts < MAX_DELIVERY_ATTEMPTS

\* Slip: a message without a destination is recorded as sent.
AttemptedOrSkipped(r, result) ==
  [status |-> IF result = "failed" THEN result ELSE "sent",
   attempts |-> r.attempts + 1, next_retry_at |-> "null"]

\* process_notification_delivery and process_financial_document_dispatch.
Attempted(r, result) ==
  LET attempts == r.attempts + 1
      again == result = "failed" /\ ShouldRetry(attempts)
  IN  [status |-> IF again THEN "retrying" ELSE result,
       attempts |-> attempts,
       next_retry_at |-> IF again THEN "future" ELSE "null"]

\* Slip: a retry waits for a time that was never set.
DueAtOnce(i) == row[i].status \in {"queued", "retrying"} /\ row[i].next_retry_at = "null"

Due(i) == row[i].status \in {"queued", "retrying"} /\ row[i].next_retry_at # "future"

\* Slip: a message that was sent can be retried.
MayRetryAny(i) == row[i].status # "none"

MayRetry(i) == row[i].status \in {"failed", "retrying"}

\* The columns of a flushed row that the session changed; a new retry time
\* differs from any other.
Saved(s, i) ==
  LET base == s.base[i]
      view == s.view[i]
  IN  [k \in DOMAIN row[i] |->
         IF view[k] # base[k] \/ (k = "next_retry_at" /\ view[k] = "future")
         THEN view[k] ELSE row[i][k]]

-----------------------------------------------------------------------------
\* Session p opens on a batch of rows, as they are committed.
Open(p, kind, batch, view) ==
  /\ session[p].kind = "idle"
  /\ session' = [session EXCEPT ![p] =
       [kind |-> kind, left |-> batch, done |-> {}, answer |-> "none",
        base |-> [i \in Items |-> IF i \in batch THEN row[i] ELSE Absent], view |-> view]]
  /\ disturbed' = disturbed \cup
       {i \in batch : \E q \in Processes \ {p} : i \in Held(q)}
  /\ UNCHANGED <<row, stage, accepted, calls, faultVars>>

SelectDue(p, kind, items) ==
  LET batch == {i \in items : Due(i)} IN
  Open(p, kind, batch, [i \in Items |-> IF i \in batch THEN row[i] ELSE Absent])

Turn(kind, items) == stage = kind /\ SelectDue(Worker, kind, items) /\ UNCHANGED requests

Serve == requests < MaxRequests /\ requests' = requests + 1

ProcessDueNotices(t) == Serve /\ SelectDue(t, "notices", Notices)
ProcessDueDocuments(t) == Serve /\ SelectDue(t, "documents", Documents)

\* dispatch_document, and notify_users on behalf of any handler.
Create(t, i) ==
  /\ Serve
  /\ row[i] = Absent
  /\ \A q \in Processes : i \notin Held(q)
  /\ LockFree(t)
  /\ Open(t, "create", {i}, [NoRows EXCEPT ![i] = Queued])

\* retry_delivery, retry_document_dispatch.
Retry(t, i) ==
  /\ Serve
  /\ MayRetry(i)
  /\ Open(t, "retry", {i}, [NoRows EXCEPT ![i] = [row[i] EXCEPT !.next_retry_at = "null"]])

-----------------------------------------------------------------------------
Waiting(p) == session[p].left # {} /\ session[p].answer = "none"

AtMost(n, bound) == IF n <= bound THEN n ELSE bound

\* deliver_email, deliver_sms, deliver_whatsapp; an exception is an answer too.
Answers(i) == IF i \in Unaddressed THEN {"skipped"} ELSE {"sent", "failed"}

\* The document renders and the provider answers.
Call(p, result) ==
  LET i == AtHand(p) IN
  /\ Waiting(p) /\ i \notin broken /\ result \in Answers(i)
  /\ session' = [session EXCEPT ![p].answer = result]
  /\ accepted' = IF result = "sent"
                 THEN [accepted EXCEPT ![i] = AtMost(@ + 1, 2)] ELSE accepted
  /\ calls' = IF session[p].kind = "retry" THEN calls
              ELSE [calls EXCEPT ![i] = AtMost(@ + 1, MAX_DELIVERY_ATTEMPTS + 1)]
  /\ UNCHANGED <<row, stage, disturbed, requests, faultVars>>

\* The outcome is flushed.
Record(p) ==
  LET s == session[p]
      i == AtHand(p)
  IN
  /\ s.answer # "none"
  /\ LockFree(p)
  /\ session' = [session EXCEPT ![p] =
       [s EXCEPT !.left = s.left \ {i}, !.done = s.done \cup {i}, !.answer = "none",
                 !.view = [s.view EXCEPT ![i] = Attempted(s.view[i], s.answer)]]]
  /\ UNCHANGED <<row, stage, requests, faultVars, history>>

\* The worker goes from the notifications to the documents, and round again.
NextStage == IF stage = "notices" THEN "documents" ELSE "notices"

Commit(p) ==
  LET s == session[p] IN
  /\ s.kind # "idle" /\ s.left = {}
  /\ row' = [i \in Items |-> IF i \in s.done THEN Saved(s, i) ELSE row[i]]
  /\ session' = [session EXCEPT ![p] = Idle]
  /\ stage' = IF p = Worker THEN NextStage ELSE stage
  /\ UNCHANGED <<requests, faultVars, history>>

-----------------------------------------------------------------------------
\* Failures: nothing of the session is kept, the calls it made are.
Called(p) == session[p].done \cup (IF session[p].answer = "none" THEN {} ELSE {AtHand(p)})

\* Slip: the exception ends run_delivery_worker.
WorkerStops == "stopped"

\* run_delivery_worker logs the exception, sleeps and starts over.
AfterFailure == "notices"

RollBack(p) ==
  /\ session' = [session EXCEPT ![p] = Idle]
  /\ stage' = IF p = Worker THEN AfterFailure ELSE stage
  /\ disturbed' = disturbed \cup Called(p)
  /\ UNCHANGED <<row, accepted, calls, requests>>

\* Rendering raises: the whole batch is lost.
RenderingFails(p) ==
  /\ Waiting(p) /\ AtHand(p) \in broken
  /\ RollBack(p)
  /\ UNCHANGED faultVars

\* "database is locked".
LockTimeout(p) ==
  /\ session[p].answer # "none" /\ ~LockFree(p)
  /\ RollBack(p)
  /\ UNCHANGED faultVars

\* The process dies and is started again.
Crash ==
  /\ crashes < MaxCrashes
  /\ crashes' = crashes + 1
  /\ session' = [p \in Processes |-> Idle]
  /\ stage' = "notices"
  /\ disturbed' = disturbed \cup UNION {Called(p) : p \in Processes}
  /\ UNCHANGED <<row, broken, accepted, calls, requests>>

\* A customer is deleted or a template edited.
BreakOrRepair(d) ==
  /\ broken' = IF d \in broken THEN broken \ {d} ELSE broken \cup {d}
  /\ UNCHANGED <<row, stage, session, requests, crashes, history>>

\* The time of the next retry comes.
Ripen(i) ==
  /\ row[i].next_retry_at = "future"
  /\ row' = [row EXCEPT ![i].next_retry_at = "past"]
  /\ UNCHANGED <<stage, session, requests, faultVars, history>>

-----------------------------------------------------------------------------
Init ==
  /\ row = NoRows
  /\ broken = {} /\ stage = "notices"
  /\ session = [p \in Processes |-> Idle]
  /\ accepted = [i \in Items |-> 0] /\ calls = [i \in Items |-> 0]
  /\ disturbed = {} /\ requests = 0 /\ crashes = 0

WorkerTurns == Turn("notices", Notices) \/ Turn("documents", Documents)

Request(t) ==
  \/ ProcessDueNotices(t) \/ ProcessDueDocuments(t)
  \/ \E i \in Items : Create(t, i) \/ Retry(t, i)

Proceed(p) ==
  \/ \E result \in Results : Call(p, result)
  \/ Record(p) \/ Commit(p) \/ RenderingFails(p) \/ LockTimeout(p)

Next ==
  \/ WorkerTurns
  \/ \E t \in Threads : Request(t)
  \/ \E p \in Processes : Proceed(p)
  \/ Crash
  \/ \E d \in Documents : BreakOrRepair(d)
  \/ \E i \in Items : Ripen(i)

Spec == Init /\ [][Next]_vars

\* The worker loops, a request that is being served ends (a call to a provider
\* times out after 20 seconds, a flush after 5) and time passes.  Nobody has to
\* make a request, and a document that is broken may stay so.
FairSpec ==
  /\ Spec
  /\ WF_vars(WorkerTurns)
  /\ \A p \in Processes : WF_vars(Proceed(p))
  /\ \A i \in Items : WF_vars(Ripen(i))

-----------------------------------------------------------------------------
TypeOK ==
  /\ row \in [Items -> Row]
  /\ broken \subseteq Documents /\ stage \in {"notices", "documents"}
  /\ session \in [Processes -> Session]
  /\ accepted \in [Items -> 0..2] /\ calls \in [Items -> 0..MAX_DELIVERY_ATTEMPTS + 1]
  /\ disturbed \subseteq Items /\ requests \in 0..MaxRequests /\ crashes \in 0..MaxCrashes

\* What is recorded as sent was accepted by the provider, whatever overlapped,
\* failed or was restarted.
SentWasAccepted == \A i \in Items : row[i].status = "sent" => accepted[i] > 0

\* Except for rows that two sessions had, or of which a session that had called was
\* rolled back: a message reaches the provider's client once; a row in the dead-letter
\* list was never accepted, unless a retry has just called and not yet committed; and
\* only a retry request goes beyond MAX_DELIVERY_ATTEMPTS calls.
OrderlyDelivery ==
  \A i \in Items \ disturbed :
    /\ accepted[i] <= 1
    /\ row[i].status = "failed" /\ (\A p \in Processes : i \notin Called(p)) => accepted[i] = 0
    /\ calls[i] <= MAX_DELIVERY_ATTEMPTS

\* A notification that is to be retried is settled at last, even while a
\* document that does not render makes every iteration of the worker fail.  So is
\* a document, if from some time on all documents render: until then one that does
\* not keeps the batches from committing.
RetriesSettle ==
  LET Settles(i) == row[i].status = "retrying" ~> row[i].status \in Results IN
  /\ \A i \in Notices : Settles(i)
  /\ <>[](broken = {}) => \A i \in Documents : Settles(i)

=============================================================================
