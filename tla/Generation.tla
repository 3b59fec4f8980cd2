----------------------------- MODULE Generation -----------------------------
(***************************************************************************)
(* GenerationService.execute (app/services/generation.py) for concurrent   *)
(* requests that share one database: provider call, audit row, webhook     *)
(* dispatch, and the except block that audits and announces a failure.     *)
(*                                                                         *)
(* The audit table's primary key is the request id, which the client may   *)
(* choose (X-Request-ID): two requests can carry the same one.  The        *)
(* provider's retries are hidden behind one outcome; Upstream has them.    *)
(***************************************************************************)
EXTENDS Integers, FiniteSets

CONSTANTS
    Requests, WebhookMaxRetries, DatabaseMayFail,  \* as in Webhook
    Ids,              \* request ids in use
    FailureStatuses   \* HTTP statuses of the exceptions generate() can raise

ASSUME GenerationAssumption ==
    /\ WebhookMaxRetries \in Int
    /\ DatabaseMayFail \in BOOLEAN
    /\ FailureStatuses \subseteq {500, 502, 503, 504}

VARIABLES
    stage, event, session, attempts, deliveries, received,   \* as in Webhook
    pc,         \* where each request is in execute
    id,         \* its request id
    hooked,     \* whether it has a webhook_url
    result,     \* what the provider call ended in: 200 or a failure's status
    raised,     \* status of the exception execute is handling
    audit,      \* the generation_requests table, by id
    response    \* status answered to the client; 0 before

dispatchVars == <<stage, event, session, attempts, deliveries, received>>
executeVars == <<pc, id, hooked, result, raised, audit, response>>
vars == <<dispatchVars, executeVars>>

Hook == INSTANCE Webhook

NoRow == [owner |-> "none", status |-> "absent"]

AuditRow == [owner : Requests \cup {"none"}, status : {"absent", "success", "failed"}]

TypeOK ==
    /\ Hook!TypeOK
    /\ pc \in [Requests -> {"idle", "provider", "success", "dispatch", "except", "done", "dead"}]
    /\ id \in [Requests -> Ids]
    /\ hooked \in [Requests -> BOOLEAN]
    /\ result \in [Requests -> {0, 200} \cup FailureStatuses]
    /\ raised \in [Requests -> {0, 500} \cup FailureStatuses]
    /\ audit \in [Ids -> AuditRow]
    /\ response \in [Requests -> {0, 200, 422, 500} \cup FailureStatuses]

(* The choice of id and webhook_url is the client's; it is made here. *)
Init ==
    /\ Hook!Init
    /\ pc = [r \in Requests |-> "idle"]
    /\ id \in [Requests -> Ids]
    /\ hooked \in [Requests -> BOOLEAN]
    /\ result = [r \in Requests |-> 0]
    /\ raised = [r \in Requests |-> 0]
    /\ audit = [i \in Ids |-> NoRow]
    /\ response = [r \in Requests |-> 0]

-----------------------------------------------------------------------------
Goto(r, l) == pc' = [pc EXCEPT ![r] = l]

(* execute returns or raises, and the client is answered. *)
Answer(r, status) ==
    /\ Goto(r, "done")
    /\ response' = [response EXCEPT ![r] = status]

(* resolve finds no provider: raised before the try block. *)
Unroutable(r) ==
    /\ pc[r] = "idle"
    /\ Answer(r, 422)
    /\ UNCHANGED <<dispatchVars, id, hooked, result, raised, audit>>

(* resolve finds a provider, and its generate is called. *)
CallProvider(r) ==
    /\ pc[r] = "idle"
    /\ Goto(r, "provider")
    /\ UNCHANGED <<dispatchVars, id, hooked, result, raised, audit, response>>

ProviderReturns(r) ==
    /\ pc[r] = "provider"
    /\ result' = [result EXCEPT ![r] = 200]
    /\ Goto(r, "success")
    /\ UNCHANGED <<dispatchVars, id, hooked, raised, audit, response>>

(* execute's except block is entered with an exception of this status. *)
Except(r, status) ==
    /\ Goto(r, "except")
    /\ raised' = [raised EXCEPT ![r] = status]

ProviderRaises(r) ==
    /\ pc[r] = "provider"
    /\ \E status \in FailureStatuses :
          /\ result' = [result EXCEPT ![r] = status]
          /\ Except(r, status)
    /\ UNCHANGED <<dispatchVars, id, hooked, audit, response>>

-----------------------------------------------------------------------------
(* The audit row *)

(* Mutant: the row of an earlier request with this id is replaced. *)
InsertReplacing(r, status) ==
    audit' = [audit EXCEPT ![id[r]] = [owner |-> r, status |-> status]]

(* Mutant: the insert yields to an earlier row with this id. *)
InsertOrIgnore(r, status) ==
    audit' = IF audit[id[r]] = NoRow
             THEN [audit EXCEPT ![id[r]] = [owner |-> r, status |-> status]]
             ELSE audit

(* INSERT into generation_requests: the primary key must be new. *)
Insert(r, status) ==
    /\ audit[id[r]] = NoRow
    /\ audit' = [audit EXCEPT ![id[r]] = [owner |-> r, status |-> status]]

(* The commit of the audit row goes through. *)
Audited(r, status) == Hook!CommitSucceeds(r) /\ Insert(r, status)

(* It raises: the session is broken already, the id is taken, or the database *)
(* fails, before or after it applied the insert.                              *)
AuditRaises(r, status) ==
    /\ session' = [session EXCEPT ![r] = "broken"]
    /\ \/ session[r] = "broken" /\ UNCHANGED audit
       \/ audit[id[r]] # NoRow /\ UNCHANGED audit
       \/ DatabaseMayFail /\ Hook!MayHaveApplied(r) /\ (UNCHANGED audit \/ Insert(r, status))

(* Mutant: the client is answered at once, and dispatch is left to go on. *)
AnnounceInBackground(r, e, status) ==
    /\ response' = [response EXCEPT ![r] = status]
    /\ \/ hooked[r] /\ Hook!Dispatch(r, e) /\ Goto(r, "dispatch")
       \/ ~hooked[r] /\ UNCHANGED dispatchVars /\ Goto(r, "done")

(* With a webhook_url dispatch is called, otherwise execute ends. *)
Announce(r, e, status) ==
    \/ hooked[r] /\ Hook!Dispatch(r, e) /\ Goto(r, "dispatch") /\ UNCHANGED response
    \/ ~hooked[r] /\ UNCHANGED dispatchVars /\ Answer(r, status)

(* The provider answered: audit the success, then announce it. *)
AuditSuccess(r) ==
    /\ pc[r] = "success"
    /\ \/ Audited(r, "success") /\ Announce(r, "completed", 200) /\ UNCHANGED raised
       \/ /\ AuditRaises(r, "success")
          /\ Except(r, 500)
          /\ UNCHANGED <<stage, event, attempts, deliveries, received, response>>
    /\ UNCHANGED <<id, hooked, result>>

(* Mutant: the except block rolls the session back before it audits. *)
AuditFailureAfterRollback(r) ==
    /\ pc[r] = "except"
    /\ IF audit[id[r]] = NoRow THEN Insert(r, "failed") ELSE UNCHANGED audit
    /\ session' = [session EXCEPT ![r] = "usable"]
    /\ \/ /\ hooked[r] /\ Goto(r, "dispatch") /\ UNCHANGED response
          /\ stage' = [stage EXCEPT ![r] = "pending"]
          /\ event' = [event EXCEPT ![r] = "failed"]
          /\ attempts' = [attempts EXCEPT ![r] = 0]
       \/ ~hooked[r] /\ Answer(r, raised[r]) /\ UNCHANGED <<stage, event, attempts>>
    /\ UNCHANGED <<id, hooked, result, raised, deliveries, received>>

(* except Exception: audit the failure, announce it, raise again. *)
AuditFailure(r) ==
    /\ pc[r] = "except"
    /\ \/ Audited(r, "failed") /\ Announce(r, "failed", raised[r])
       \/ /\ AuditRaises(r, "failed")
          /\ Answer(r, 500)
          /\ UNCHANGED <<stage, event, attempts, deliveries, received>>
    /\ UNCHANGED <<id, hooked, result, raised>>

-----------------------------------------------------------------------------
(* The dispatch *)

DispatchStep(r) ==
    /\ pc[r] = "dispatch"
    /\ Hook!Progress(r)
    /\ UNCHANGED executeVars

(* Mutant: the answer does not wait for the failure to be raised again. *)
DispatchReturnsOK(r) ==
    /\ pc[r] = "dispatch"
    /\ stage[r] = "returned"
    /\ Answer(r, 200)
    /\ UNCHANGED <<dispatchVars, id, hooked, result, raised, audit>>

(* Its verdict is ignored: delivered or not, execute returns or raises again. *)
DispatchReturns(r) ==
    /\ pc[r] = "dispatch"
    /\ stage[r] = "returned"
    /\ Answer(r, IF event[r] = "completed" THEN 200 ELSE raised[r])
    /\ UNCHANGED <<dispatchVars, id, hooked, result, raised, audit>>

(* A commit of dispatch's raised: in the try block that is one more failure of *)
(* the generation, in the except block it replaces the one being handled.      *)
DispatchRaises(r) ==
    /\ pc[r] = "dispatch"
    /\ stage[r] = "raised"
    /\ \/ event[r] = "completed" /\ Except(r, 500) /\ UNCHANGED response
       \/ event[r] = "failed" /\ Answer(r, 500) /\ UNCHANGED raised
    /\ UNCHANGED <<dispatchVars, id, hooked, result, audit>>

(* The process dies or the task is cancelled at an await. *)
Crash(r) ==
    /\ pc[r] \in {"provider", "success", "except", "dispatch"}
    /\ Goto(r, "dead")
    /\ IF stage[r] \in Hook!Running THEN Hook!Crash(r) ELSE UNCHANGED dispatchVars
    /\ UNCHANGED <<id, hooked, result, raised, audit, response>>

(* Mutant: a dispatch that raised is not followed up. *)
ProgressUnanswered(r) ==
    \/ ProviderReturns(r) \/ ProviderRaises(r)
    \/ AuditSuccess(r) \/ AuditFailure(r)
    \/ DispatchStep(r) \/ DispatchReturns(r)

(* What a request that reached its provider does next. *)
Progress(r) ==
    \/ ProviderReturns(r) \/ ProviderRaises(r)
    \/ AuditSuccess(r) \/ AuditFailure(r)
    \/ DispatchStep(r) \/ DispatchReturns(r) \/ DispatchRaises(r)

Next ==
    \E r \in Requests :
        \/ Unroutable(r) \/ CallProvider(r)
        \/ Progress(r)
        \/ Crash(r)

Spec == Init /\ [][Next]_vars

(* Provider calls and POSTs have httpx's timeouts; that a commit ends, if only *)
(* in an error, is assumed: session.py gives its statements no timeout.        *)
FairSpec == Spec /\ \A r \in Requests : WF_vars(Progress(r))

-----------------------------------------------------------------------------
(* Properties *)

Owns(r, status) == audit[id[r]] = [owner |-> r, status |-> status]

(* The audit log tells what happened: a success row was written by a request *)
(* whose provider answered, a failed one by a request whose provider did not *)
(* - although the except block also runs when the success commit, or a       *)
(* commit of dispatch's, raised (generation.py:77).                          *)
AuditTruthful ==
    \A i \in Ids : audit[i] # NoRow =>
        LET r == audit[i].owner
        IN  /\ id[r] = i
            /\ result[r] # 0
            /\ audit[i].status = "success" <=> result[r] = 200

(* The audit log is append-only, also when a request id is used again. *)
AuditAppendOnly ==
    [][\A i \in Ids : audit[i] # NoRow => audit'[i] = audit[i]]_vars

(* Nothing is announced that is not on record: every delivery row, and so   *)
(* every POST, belongs to the request that owns the audit row of its id and *)
(* says the same as that row (webhook_deliveries.request_id is a foreign    *)
(* key, but would accept the row of another request with the same id).      *)
AnnouncedIsAudited ==
    \A r \in Requests :
        /\ deliveries[<<r, "completed">>] # Hook!Absent => Owns(r, "success")
        /\ deliveries[<<r, "failed">>] # Hook!Absent => Owns(r, "failed")

(* A request announces one outcome: its receiver never gets both             *)
(* generation.completed and generation.failed.                               *)
OneOutcome ==
    \A r \in Requests : ~ \A e \in Hook!Events : received[<<r, e>>] > 0

(* The client is told what the provider call came to, unless a commit of    *)
(* its request failed: then it is told 500.  In particular a 200 is audited *)
(* and a failed delivery does not change the answer.                        *)
AnswerHonest ==
    \A r \in Requests : (pc[r] = "done" /\ result[r] # 0) =>
        /\ session[r] = "usable" =>
              /\ response[r] = result[r]
              /\ \/ Owns(r, "success") /\ result[r] = 200
                 \/ Owns(r, "failed") /\ result[r] # 200
        /\ session[r] = "broken" => response[r] = 500

(* Seen from the webhook service, execute is a caller that dispatches when  *)
(* no dispatch is running and never revives a session.                      *)
CallsWebhookProperly == Hook!Spec

(* What the receiver of a request was told. *)
Told == [r \in Requests |-> {e \in Hook!Events : received[<<r, e>>] > 0}]

L == INSTANCE Ledger WITH verdict <- result, log <- audit, told <- Told, answer <- response

(* Sessions, commits that raise and dispatch's retries are details: seen    *)
(* from outside, verdicts are recorded once, told only when recorded, and   *)
(* answered last, and nothing happens for a request after its answer       *)
(* (generation.py:49-112).                                                  *)
ImplementsLedger == L!Spec

(* Every request that reached its provider is answered, or its worker died. *)
EveryRequestAnswered ==
    \A r \in Requests : pc[r] = "provider" ~> pc[r] \in {"done", "dead"}

(* "An audit record is written to generation_requests" with status success  *)
(* or failed (docs/architecture.md:96), "Audit log for each incoming LLM    *)
(* generation request" (app/models/generation.py:16): every request whose   *)
(* provider was called and that was answered has a row of its own.          *)
EveryAnswerAudited ==
    \A r \in Requests : (pc[r] = "done" /\ result[r] # 0) => audit[id[r]].owner = r
=============================================================================
