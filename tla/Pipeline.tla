------------------------------ MODULE Pipeline ------------------------------
(***************************************************************************)
(* POST /v1/generate from the parsed request to its answer: dependencies   *)
(* (app/api/dependencies.py, app/db/session.py), limiter, execute, and the *)
(* exception handlers (app/api/errors.py), for requests that present one   *)
(* API key and share the database connection pool.                         *)
(*                                                                         *)
(* What the limiter decides and what the provider, the commits and the     *)
(* webhook's receiver answer is a choice here; the modules RateLimiter,    *)
(* Upstream, Generation and Webhook look inside.  A session takes a        *)
(* connection from the pool at its first statement and gives it back when  *)
(* its transaction ends, so what matters is who holds one at each await.   *)
(***************************************************************************)
EXTENDS Integers, FiniteSets

CONSTANTS
    Requests,   \* handler invocations
    PoolSize,   \* connections of the engine's pool, overflow included
    FailOpen    \* those handled under rate_limit_redis_failure_policy = "fail_open"

ASSUME PipelineAssumption ==
    /\ IsFiniteSet(Requests)
    /\ PoolSize \in Nat \ {0}
    /\ FailOpen \subseteq Requests

VARIABLES
    pc,            \* where each request is
    connections,   \* the requests whose session holds a connection
    keyActive,     \* is_active of the row in api_keys
    cameRevoked,   \* history: the requests that arrived after the key was revoked
    charged,       \* history: what each request was charged by the limiter
    degraded,      \* the requests let in without a verdict of the limiter
    called,        \* history: the requests whose provider was called
    result,        \* what generate returned or raised
    reply          \* the value or the exception a request ended in

vars == <<pc, connections, keyActive, cameRevoked, charged, degraded, called, result, reply>>

(* Suspended until the pool has a connection: for the SELECT of the key, *)
(* for the PENDING row of a delivery, for its final status.              *)
Waiting == {"awaitLookup", "awaitRecord", "awaitSettle"}

(* Suspended at an await with the session's transaction open. *)
Holding == {"lookup", "limiter", "route", "provider", "audit", "record", "settle"}

Over == {"done", "dead"}

Failures == {"UpstreamTimeoutError", "UpstreamUnavailableError", "UpstreamBadRequestError",
             "ProviderConfigurationError", "Exception"}

(* How validation refuses a body.  errors() can hold what JSONResponse      *)
(* cannot serialise: the ValueError of our own validators for a blank       *)
(* content or model, the raw bytes of a body that was not sent as JSON, or  *)
(* a NaN.                                                                   *)
Invalid == {"RequestValidationError", "UnserialisableError"}

Replies == Failures \cup Invalid \cup {"LLMResponse", "HTTPException", "UnauthorizedError",
                                      "InvalidRequestError", "Limited", "FailClosed"}

TypeOK ==
    /\ pc \in [Requests -> {"idle", "post"} \cup Waiting \cup Holding \cup Over]
    /\ connections \subseteq Requests
    /\ Cardinality(connections) <= PoolSize
    /\ keyActive \in BOOLEAN
    /\ cameRevoked \subseteq Requests
    /\ charged \in [Requests -> 0..1]
    /\ degraded \subseteq Requests
    /\ called \subseteq Requests
    /\ result \in [Requests -> Failures \cup {"none", "LLMResponse"}]
    /\ reply \in [Requests -> Replies \cup {"none"}]

Init ==
    /\ pc = [r \in Requests |-> "idle"]
    /\ connections = {}
    /\ keyActive = TRUE
    /\ cameRevoked = {}
    /\ charged = [r \in Requests |-> 0]
    /\ degraded = {}
    /\ called = {}
    /\ result = [r \in Requests |-> "none"]
    /\ reply = [r \in Requests |-> "none"]

-----------------------------------------------------------------------------
Goto(r, label) == pc' = [pc EXCEPT ![r] = label]

(* Mutant: get_db does not close the session of a request that failed. *)
AnswerWithoutClose(r, value) ==
    /\ Goto(r, "done")
    /\ reply' = [reply EXCEPT ![r] = value]
    /\ connections' = IF value = "LLMResponse" THEN connections \ {r} ELSE connections

(* The handler ends in `value`; get_db commits or rolls back, and closes. *)
Answer(r, value) ==
    /\ Goto(r, "done")
    /\ reply' = [reply EXCEPT ![r] = value]
    /\ connections' = connections \ {r}

-----------------------------------------------------------------------------
(* Dependencies *)

(* The middlewares pass the request on.  FastAPI may find the body not to be *)
(* JSON, or not to be text, or get_current_client no key in the headers.     *)
Arrive(r) ==
    /\ pc[r] = "idle"
    /\ cameRevoked' = IF keyActive THEN cameRevoked ELSE cameRevoked \cup {r}
    /\ \/ Goto(r, "awaitLookup") /\ UNCHANGED <<reply, connections>>
       \/ \E e \in {"RequestValidationError", "HTTPException", "UnauthorizedError"} : Answer(r, e)
    /\ UNCHANGED <<keyActive, charged, degraded, called, result>>

(* Where a session that waits for a connection goes on. *)
Resumes == [awaitLookup |-> "lookup", awaitRecord |-> "record", awaitSettle |-> "settle"]

(* The pool hands r a connection. *)
Connect(r) ==
    /\ pc[r] \in Waiting
    /\ Cardinality(connections) < PoolSize
    /\ connections' = connections \cup {r}
    /\ Goto(r, Resumes[pc[r]])
    /\ UNCHANGED <<keyActive, cameRevoked, charged, degraded, called, result, reply>>

(* The pool's timeout is over, or the database cannot be reached.  A dispatch *)
(* that raises in the try block leads to the except block, whose own commit   *)
(* raises on the same session.                                                *)
ConnectFails(r) ==
    /\ pc[r] \in Waiting
    /\ Answer(r, "Exception")
    /\ UNCHANGED <<keyActive, cameRevoked, charged, degraded, called, result>>

(* Mutant: is_active is not looked at. *)
LookupUnchecked(r) ==
    /\ pc[r] = "lookup"
    /\ \/ Goto(r, "limiter") /\ UNCHANGED <<reply, connections>>
       \/ \E e \in Invalid \cup {"Exception"} : Answer(r, e)
    /\ UNCHANGED <<keyActive, cameRevoked, charged, degraded, called, result>>

(* The SELECT answers or raises; after it the body is validated, and only a *)
(* valid one reaches the endpoint.                                          *)
Lookup(r) ==
    /\ pc[r] = "lookup"
    /\ \/ keyActive /\ Goto(r, "limiter") /\ UNCHANGED <<reply, connections>>
       \/ keyActive /\ \E e \in Invalid : Answer(r, e)
       \/ ~keyActive /\ Answer(r, "UnauthorizedError")
       \/ Answer(r, "Exception")
    /\ UNCHANGED <<keyActive, cameRevoked, charged, degraded, called, result>>

-----------------------------------------------------------------------------
(* The endpoint: the limiter comes after validation and before routing, so a *)
(* request whose model nobody serves is charged.                             *)

Charge(r) == charged' = [charged EXCEPT ![r] = @ + 1]

LetIn(r) == Goto(r, "route") /\ UNCHANGED <<reply, connections>>

(* Mutant: the request is recorded before the requests are counted. *)
VerdictOnRecorded(r) ==
    /\ Charge(r)
    /\ LetIn(r) \/ Answer(r, "Limited")
    /\ UNCHANGED degraded

(* check_rate_limit counted: charge and admit, or refuse. *)
Verdict(r) ==
    /\ \/ Charge(r) /\ LetIn(r)
       \/ UNCHANGED charged /\ Answer(r, "Limited")
    /\ UNCHANGED degraded

(* A RedisError, perhaps after the charge: the failure policy. *)
RedisFails(r) ==
    /\ UNCHANGED charged \/ Charge(r)
    /\ \/ r \in FailOpen /\ degraded' = degraded \cup {r} /\ LetIn(r)
       \/ r \notin FailOpen /\ Answer(r, "FailClosed") /\ UNCHANGED degraded

Limit(r) ==
    /\ pc[r] = "limiter"
    /\ Verdict(r) \/ RedisFails(r)
    /\ UNCHANGED <<keyActive, cameRevoked, called, result>>

(* Mutant: an unknown model is replaced and the request handled once more. *)
RouteAgain(r) ==
    /\ pc[r] = "route"
    /\ \/ Goto(r, "provider") /\ called' = called \cup {r}
       \/ Goto(r, "limiter") /\ UNCHANGED called
    /\ UNCHANGED <<connections, keyActive, cameRevoked, charged, degraded, result, reply>>

(* resolve: raises for an unknown model, otherwise generate is called. *)
Route(r) ==
    /\ pc[r] = "route"
    /\ \/ Goto(r, "provider") /\ called' = called \cup {r} /\ UNCHANGED <<reply, connections>>
       \/ Answer(r, "InvalidRequestError") /\ UNCHANGED called
    /\ UNCHANGED <<keyActive, cameRevoked, charged, degraded, result>>

ProviderEnds(r) ==
    /\ pc[r] = "provider"
    /\ \E value \in Failures \cup {"LLMResponse"} : result' = [result EXCEPT ![r] = value]
    /\ Goto(r, "audit")
    /\ UNCHANGED <<connections, keyActive, cameRevoked, charged, degraded, called, reply>>

(* A commit ends the transaction: the connection is free while execute goes on. *)
Release(r, label) ==
    /\ Goto(r, label)
    /\ connections' = connections \ {r}
    /\ UNCHANGED reply

(* Mutant: the delivery row has a session of its own while r's stays open. *)
AuditHoldingOn(r) ==
    /\ pc[r] = "audit"
    /\ \/ Goto(r, "awaitRecord") /\ UNCHANGED <<reply, connections>>
       \/ Answer(r, result[r])
       \/ Answer(r, "Exception")
    /\ UNCHANGED <<keyActive, cameRevoked, charged, degraded, called, result>>

(* The audit commit; if it raises, the except block's commit raises as well. *)
Audit(r) ==
    /\ pc[r] = "audit"
    /\ \/ Release(r, "awaitRecord")
       \/ Answer(r, result[r])
       \/ Answer(r, "Exception")
    /\ UNCHANGED <<keyActive, cameRevoked, charged, degraded, called, result>>

(* dispatch: the PENDING row *)
Record(r) ==
    /\ pc[r] = "record"
    /\ Release(r, "post") \/ Answer(r, "Exception")
    /\ UNCHANGED <<keyActive, cameRevoked, charged, degraded, called, result>>

(* dispatch: the POSTs, delivered or given up *)
Post(r) ==
    /\ pc[r] = "post"
    /\ Goto(r, "awaitSettle")
    /\ UNCHANGED <<connections, keyActive, cameRevoked, charged, degraded, called, result, reply>>

(* dispatch: the row's final status *)
Settle(r) ==
    /\ pc[r] = "settle"
    /\ Answer(r, result[r]) \/ Answer(r, "Exception")
    /\ UNCHANGED <<keyActive, cameRevoked, charged, degraded, called, result>>

-----------------------------------------------------------------------------
(* The client goes away or the worker stops: the task is cancelled at an      *)
(* await, no except block catches it, and get_db's finally closes the session. *)
Cancel(r) ==
    /\ pc[r] \notin {"idle", "route"} \cup Over
    /\ Goto(r, "dead")
    /\ connections' = connections \ {r}
    /\ UNCHANGED charged \/ (pc[r] = "limiter" /\ Charge(r))
    /\ UNCHANGED <<keyActive, cameRevoked, degraded, called, result, reply>>

(* An operator sets is_active to false. *)
Revoke ==
    /\ keyActive
    /\ keyActive' = FALSE
    /\ UNCHANGED <<pc, connections, cameRevoked, charged, degraded, called, result, reply>>

(* What a handler does next once it has what it waits for. *)
Progress(r) ==
    \/ Lookup(r) \/ Limit(r) \/ Route(r) \/ ProviderEnds(r)
    \/ Audit(r) \/ Record(r) \/ Post(r) \/ Settle(r)

Next ==
    \/ \E r \in Requests :
          Arrive(r) \/ Connect(r) \/ ConnectFails(r) \/ Progress(r) \/ Cancel(r)
    \/ Revoke

Spec == Init /\ [][Next]_vars

(* Provider calls and POSTs have httpx's timeouts.  That the database answers, *)
(* if only with an error, is assumed: session.py gives its statements no       *)
(* timeout.  The pool serves waiters in order of arrival, so one that could be *)
(* served again and again is served; its timeout is not owed.                  *)
FairSpec ==
    /\ Spec
    /\ \A r \in Requests : WF_vars(Progress(r)) /\ SF_vars(Connect(r))

-----------------------------------------------------------------------------
(* Answers *)

(* What the exception handlers make of a reply; the handler of validation *)
(* errors itself raises on an UnserialisableError and leaves it to the    *)
(* last one, which answers whatever nobody else did.                      *)
StatusCode ==
    [LLMResponse |-> 200, UnauthorizedError |-> 401, RequestValidationError |-> 422,
     UnserialisableError |-> 500, HTTPException |-> 400,
     InvalidRequestError |-> 422, Limited |-> 429, FailClosed |-> 429,
     UpstreamTimeoutError |-> 504, UpstreamUnavailableError |-> 503,
     UpstreamBadRequestError |-> 502, ProviderConfigurationError |-> 500,
     Exception |-> 500]

RateLimitHeaders == {"X-RateLimit-Limit", "X-RateLimit-Remaining", "X-RateLimit-Reset"}

(* The headers of r's answer.  The handler of Exception runs outside of the *)
(* middlewares, so nobody adds the request id to what it returns.           *)
Headers(r) ==
    CASE reply[r] \in {"Exception", "UnserialisableError"} -> {}
      [] reply[r] = "Limited"     -> {"X-Request-ID", "Retry-After"}
      [] reply[r] = "LLMResponse" ->
            {"X-Request-ID"} \cup RateLimitHeaders
            \cup (IF r \in degraded THEN {"X-RateLimit-Degraded"} ELSE {})
      [] OTHER                    -> {"X-Request-ID"}

-----------------------------------------------------------------------------
(* Properties *)

(* Nobody keeps a connection he does not use: a request that is over has    *)
(* returned its own, one that waits for the pool holds none, and neither    *)
(* does one that is posting to a receiver, however slow (session.py:50-61,  *)
(* webhook.py:87).  Redis and the provider are called with one held.        *)
ConnectionsReturned ==
    \A r \in connections : pc[r] \in Holding

(* Where a request can be before the limiter charged it. *)
Before == {"idle", "awaitLookup", "lookup", "limiter"}

(* Why the properties of admission hold at every step. *)
Admission ==
    \A r \in Requests :
        \* a request that came after the revocation gets no further than the SELECT
        /\ r \in cameRevoked =>
              ~keyActive /\ pc[r] \in {"awaitLookup", "lookup"} \cup Over /\ r \notin called
        /\ pc[r] \in Before => charged[r] = 0 /\ r \notin called
        /\ pc[r] = "route" => r \notin called
        \* whoever got past the limiter has leave to
        /\ pc[r] \notin Before \cup Over \/ r \in called =>
              charged[r] = 1 \/ r \in degraded \cap FailOpen
        /\ pc[r] \notin Before \cup Over \cup {"route"} => r \in called
        /\ pc[r] \in {"audit", "post", "record", "settle", "awaitRecord", "awaitSettle"} =>
              result[r] # "none"
        /\ reply[r] # "none" => pc[r] = "done"

(* A provider is called only on behalf of a key that was active when the    *)
(* request came, and only once the limiter charged the request or, under    *)
(* fail_open, was not available (dependencies.py:65, generate.py:50-63).    *)
CalledWithLeave ==
    \A r \in called :
        /\ r \notin cameRevoked
        /\ charged[r] = 1 \/ r \in degraded \cap FailOpen

(* The charge of r, or the leave to go without one. *)
Admittance(r) == charged[r] = 1 \/ r \in degraded \cap FailOpen

(* What an answer says of the quota and of the provider's bill (the order   *)
(* of generate.py:43-66).  Whoever has no key, is told that the body is     *)
(* invalid or that the quota is used up was not charged; whoever asks for a *)
(* model nobody serves was, like whoever was served; under fail_closed      *)
(* Redis may have charged whom it did not answer.  A provider was called    *)
(* for a response or an upstream error, and for no refusal.                 *)
AnswerTellsCost ==
    \A r \in Requests :
        /\ reply[r] \in Invalid \cup {"HTTPException", "UnauthorizedError", "Limited"} =>
              charged[r] = 0 /\ r \notin called
        /\ reply[r] = "InvalidRequestError" => Admittance(r) /\ r \notin called
        /\ reply[r] = "FailClosed" => r \notin FailOpen \cup called
        /\ reply[r] \in {"LLMResponse"} \cup (Failures \ {"Exception"}) =>
              Admittance(r) /\ r \in called

(* Every request that asks for a connection is answered, or its client is   *)
(* gone, even if the pool never times out: waiters hold nothing that        *)
(* another one waits for.                                                   *)
EveryRequestServed ==
    \A r \in Requests : pc[r] = "awaitLookup" ~> pc[r] \in Over

(* "An HTTP 429 Too Many Requests is returned along with Retry-After,       *)
(* X-RateLimit-Limit, X-RateLimit-Remaining, and X-RateLimit-Reset headers" *)
(* (docs/architecture.md:79, and the example of docs/demo.md:112-114).      *)
LimitedIsExplained ==
    \A r \in Requests :
        reply[r] = "Limited" => {"Retry-After"} \cup RateLimitHeaders \subseteq Headers(r)

(* "422: Invalid Request - Validation failure" (generate.py:28), with which *)
(* the handler of RequestValidationError answers (errors.py:50-51): an      *)
(* invalid body is the client's error, never the server's.                  *)
InvalidIsClientError ==
    \A r \in Requests : reply[r] \in Invalid => StatusCode[reply[r]] = 422
=============================================================================
