------------------------------ MODULE Webhook ------------------------------
(***************************************************************************)
(* WebhookService.dispatch (app/services/webhook.py): one delivery record, *)
(* a bounded retry loop of POSTs, and the record's final status.           *)
(*                                                                         *)
(* A request is one invocation of the generate handler, with a database    *)
(* session of its own (app/db/session.py).  A commit can fail before or    *)
(* after the database applied it; either way SQLAlchemy refuses every      *)
(* further statement on that session until it is rolled back, which only   *)
(* get_db does, after the handler.                                         *)
(***************************************************************************)
EXTENDS Integers, FiniteSets

CONSTANTS
    Requests,            \* handler invocations
    WebhookMaxRetries,   \* settings.webhook_max_retries, a plain int
    DatabaseMayFail      \* whether commits fail for reasons of the database's own

ASSUME WebhookAssumption ==
    /\ WebhookMaxRetries \in Int
    /\ DatabaseMayFail \in BOOLEAN

VARIABLES
    stage,       \* where each request is in dispatch
    event,       \* dispatch's event_type
    session,     \* "usable", or "broken" since a commit failed
    attempts,    \* dispatch's local `attempts`
    deliveries,  \* the webhook_deliveries table: the row of each request and event
    received     \* how many copies of each event the receiver got

vars == <<stage, event, session, attempts, deliveries, received>>

Events == {"completed", "failed"}

Stages == {"idle", "pending", "post", "accepted", "failing", "returned", "raised", "dead"}

(* The stages at which dispatch is suspended at an await. *)
Running == {"pending", "post", "accepted", "failing"}

Absent == [status |-> "absent", attempts |-> 0]

(* stop_after_attempt looks at the number only after an attempt was made. *)
MaxAttempts == IF WebhookMaxRetries > 1 THEN WebhookMaxRetries ELSE 1

TypeOK ==
    /\ stage \in [Requests -> Stages]
    /\ event \in [Requests -> Events \cup {"none"}]
    /\ session \in [Requests -> {"usable", "broken"}]
    /\ attempts \in [Requests -> 0..MaxAttempts]
    /\ deliveries \in [Requests \X Events ->
                         [status : {"absent", "PENDING", "DELIVERED", "FAILED"},
                          attempts : 0..MaxAttempts]]
    /\ received \in [Requests \X Events -> 0..MaxAttempts]

Init ==
    /\ stage = [r \in Requests |-> "idle"]
    /\ event = [r \in Requests |-> "none"]
    /\ session = [r \in Requests |-> "usable"]
    /\ attempts = [r \in Requests |-> 0]
    /\ deliveries = [d \in Requests \X Events |-> Absent]
    /\ received = [d \in Requests \X Events |-> 0]

-----------------------------------------------------------------------------
(* Sessions *)

CommitSucceeds(r) == session[r] = "usable" /\ UNCHANGED session

(* The commit raises, and so will every later one of this session. *)
CommitFails(r) ==
    /\ DatabaseMayFail \/ session[r] = "broken"
    /\ session' = [session EXCEPT ![r] = "broken"]

(* A commit that raised may have been applied, unless the session never sent it. *)
MayHaveApplied(r) == session[r] = "usable"

-----------------------------------------------------------------------------
(* dispatch *)

Goto(r, s) == stage' = [stage EXCEPT ![r] = s]

Delivery(r) == <<r, event[r]>>

(* The row of the current delivery becomes `status`, with the local attempts. *)
Write(r, status) ==
    deliveries' = [deliveries EXCEPT ![Delivery(r)] =
                     [status |-> status, attempts |-> attempts[r]]]

(* execute calls dispatch for event e. *)
Dispatch(r, e) ==
    /\ stage[r] \in {"idle", "raised"}
    /\ Goto(r, "pending")
    /\ event' = [event EXCEPT ![r] = e]
    /\ attempts' = [attempts EXCEPT ![r] = 0]
    /\ UNCHANGED <<session, deliveries, received>>

(* One commit of the delivery row: on success go to `next`, else to `onError`. *)
Commit(r, status, next, onError) ==
    /\ \/ CommitSucceeds(r) /\ Write(r, status) /\ Goto(r, next)
       \/ /\ CommitFails(r)
          /\ UNCHANGED deliveries \/ (MayHaveApplied(r) /\ Write(r, status))
          /\ Goto(r, onError)
    /\ UNCHANGED <<event, attempts, received>>

(* Mutant: a failing commit of the row does not stop the delivery. *)
RecordPendingBestEffort(r) ==
    /\ stage[r] = "pending"
    /\ Commit(r, "PENDING", "post", "post")

(* The PENDING row is committed before the first POST. *)
RecordPending(r) ==
    /\ stage[r] = "pending"
    /\ Commit(r, "PENDING", "post", "raised")

(* The receiver got one more copy, or none. *)
Receives(r, n) == received' = [received EXCEPT ![Delivery(r)] = @ + n]

(* A POST that was answered with success. *)
PostAccepted(r) ==
    /\ stage[r] = "post"
    /\ attempts' = [attempts EXCEPT ![r] = @ + 1]
    /\ Receives(r, 1)
    /\ Goto(r, "accepted")
    /\ UNCHANGED <<event, session, deliveries>>

(* Mutant: one more attempt than stop_after_attempt allows. *)
RetriesLeftOffByOne(r) == attempts'[r] <= WebhookMaxRetries

(* The attempt just made was not the last one. *)
RetriesLeft(r) == attempts'[r] < WebhookMaxRetries

(* Mutant: error answers are not told from success. *)
PostRetryableUnchecked(r) ==
    /\ stage[r] = "post"
    /\ attempts' = [attempts EXCEPT ![r] = @ + 1]
    /\ \E n \in {0, 1} : Receives(r, n)
    /\ Goto(r, "accepted")
    /\ UNCHANGED <<event, session, deliveries>>

(* A POST that ended in a RequestError or an error status; the receiver may *)
(* have got it all the same.                                                *)
PostRetryable(r) ==
    /\ stage[r] = "post"
    /\ attempts' = [attempts EXCEPT ![r] = @ + 1]
    /\ \E n \in {0, 1} : Receives(r, n)
    /\ Goto(r, IF RetriesLeft(r) THEN "post" ELSE "failing")
    /\ UNCHANGED <<event, session, deliveries>>

(* A POST that raised anything else: not retried, and never sent. *)
PostFatal(r) ==
    /\ stage[r] = "post"
    /\ attempts' = [attempts EXCEPT ![r] = @ + 1]
    /\ Goto(r, "failing")
    /\ UNCHANGED <<event, session, deliveries, received>>

(* A failing commit of DELIVERED lands in the except block. *)
RecordDelivered(r) ==
    /\ stage[r] = "accepted"
    /\ Commit(r, "DELIVERED", "returned", "failing")

(* Mutant: the except block rolls the session back first. *)
RecordFailedAfterRollback(r) ==
    /\ stage[r] = "failing"
    /\ Write(r, "FAILED")
    /\ Goto(r, "returned")
    /\ session' = [session EXCEPT ![r] = "usable"]
    /\ UNCHANGED <<event, attempts, received>>

(* except Exception *)
RecordFailed(r) ==
    /\ stage[r] = "failing"
    /\ Commit(r, "FAILED", "returned", "raised")

(* The process dies or the task is cancelled: no except block runs. *)
Crash(r) ==
    /\ stage[r] \in Running
    /\ Goto(r, "dead")
    /\ UNCHANGED <<event, session, attempts, deliveries, received>>

(* A commit of the caller's, on the same session, fails. *)
CallerCommitFails(r) ==
    /\ stage[r] \notin Running
    /\ session' = [session EXCEPT ![r] = "broken"]
    /\ UNCHANGED <<stage, event, attempts, deliveries, received>>

(* Mutant: the final status of an accepted delivery is never recorded. *)
ProgressForgetting(r) ==
    \/ RecordPending(r)
    \/ PostAccepted(r) \/ PostRetryable(r) \/ PostFatal(r)
    \/ RecordFailed(r)

(* What dispatch does next. *)
Progress(r) ==
    \/ RecordPending(r)
    \/ PostAccepted(r) \/ PostRetryable(r) \/ PostFatal(r)
    \/ RecordDelivered(r)
    \/ RecordFailed(r)

Next ==
    \E r \in Requests :
        \/ \E e \in Events : Dispatch(r, e)
        \/ Progress(r)
        \/ Crash(r)
        \/ CallerCommitFails(r)

Spec == Init /\ [][Next]_vars

(* A POST has httpx's timeout; that a commit ends, if only in an error, is   *)
(* assumed: session.py gives its statements no timeout.                      *)
FairSpec == Spec /\ \A r \in Requests : WF_vars(Progress(r))

-----------------------------------------------------------------------------
(* Properties *)

(* The record is written ahead: the receiver never gets an event of which   *)
(* webhook_deliveries has no row, whatever commit fails (webhook.py:87).    *)
RecordedBeforePosted == \A d \in DOMAIN received : received[d] > 0 => deliveries[d] # Absent

(* A row that says DELIVERED was received, and its attempts cover every copy. *)
DeliveredMeansReceived ==
    \A d \in DOMAIN deliveries :
        deliveries[d].status = "DELIVERED" => received[d] \in 1..deliveries[d].attempts

(* A row is settled once: no later step changes DELIVERED or FAILED, not    *)
(* even the except block entered because the DELIVERED commit raised after  *)
(* it was applied (webhook.py:132, :150).                                   *)
SettledForGood ==
    [][\A d \in DOMAIN deliveries :
         deliveries[d].status \in {"DELIVERED", "FAILED"}
            => deliveries'[d] = deliveries[d]]_vars

(* A delivery that was begun is settled, unless its session broke or its    *)
(* worker died: the two ways a row stays PENDING.                           *)
EverySettles ==
    \A r \in Requests :
        stage[r] = "post" ~>
            \/ stage[r] = "returned"
            \/ session[r] = "broken"
            \/ stage[r] = "dead"
=============================================================================
