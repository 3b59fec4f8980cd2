# A TLA+ model of the LLM gateway

The gateway (`app/`) accepts `POST /v1/generate`, authenticates the client,
limits its rate in Redis, calls a model provider with retries, writes an audit
row and, when the request has a `webhook_url`, delivers a signed event. This
directory models what is hard to test there: handlers that interleave at every
`await`, replies that are lost, commits that fail half way, processes that die.

## Inventory

| Component | State | Operations | Hard behaviour | What makes it correct |
|---|---|---|---|---|
| Rate limiter (`services/rate_limiter.py`, `api/v1/generate.py`) | a sorted set and its TTL per API key, in Redis | `check_rate_limit`: two pipelines; the endpoint's 429 | count and add are separate; clocks of several hosts; Redis fails, expires, restarts | quota per window, nothing forgotten early, refusals earned, sound `Retry-After`, no pipeline sent twice |
| Generation service (`services/generation.py`) | `generation_requests`, keyed by a request id the client may choose; the request's database session | `execute` with its try and except blocks | a failure inside the failure handler; two requests with one id; ambiguous commits | audit log truthful and append-only, one announced outcome, honest answer |
| Webhook delivery (`services/webhook.py`) | `webhook_deliveries`; attempts | `dispatch`: PENDING row, POST loop, final status | lost replies, a DELIVERED commit that raises, crash between row and status | recorded before posted, DELIVERED means received, settled once |
| Database session and pool (`db/session.py`) | engine and session maker singletons, connection pool, one session per request | `get_db`, `close_db_engine` | a connection is held from authentication to the audit commit | pool never starves, sessions end, the engine is disposed of |
| Upstream calls (`providers/base.py`) | the attempt counter, the adapter's HTTP client | `generate`, `get_client`, `_handle_http_error`, `is_transient_error` | what is retried and what a mixed sequence of failures ends in | permanent failures end at once, attempts bounded |
| Adapters and routing (`providers/*.py`) | none | `resolve`, `_call_provider` | model prefixes, finish reasons, token counts, system prompts, bodies of odd shape | the conversation kept, truncation told, tokens that add up |
| Request pipeline (`api/dependencies.py`, `api/errors.py`, `core/exceptions.py`, `schemas/`) | none of its own | authentication, validation, exception handlers | order of the checks, stale `client` row, headers of errors | no provider called without leave, an answer tells what was charged, a status per exception |
| Lifecycle (`main.py`, `dependencies.py`) | shared Redis client, engine | `lifespan`, `get_redis` | `_redis_client` is imported by value; globals created on first use | what was opened is closed, or at least not opened again |
| Correlation and logging (`core/correlation.py`, `middleware/`) | a context variable | `sanitize_request_id` | ids that clients repeat | one id per request |
| Key administration (`scripts/create_api_key.py`) | `api_keys` | `create_key` | limit 0, repeated names, failures around the commit | a key means what the tool says, shown keys exist |
| System endpoints (`api/v1/system.py`) | none | health, readiness, metrics | reads while requests commit; failures that are swallowed | the numbers of a scrape add up |
| Settings, logging, migrations | none | reads | none | not modelled |

How they interact: the endpoint calls the limiter, then `execute`; `execute`
calls the provider's `generate`, commits the audit row on the request's session
and calls `dispatch`, which commits on the same session; Redis, the provider,
the webhook's receiver and the database are outside the process and can fail at
every call. `PROJECT.json` lists the hazards, each at its line, with the
properties that would catch it.

## Modules

| Module | Models | Reads as |
|---|---|---|
| `RateLimiter` | the limiter and the endpoint's 429, for one API key | a worker is a handler in flight; one action per pipeline, because `MULTI/EXEC` is atomic and the handler is suspended only there |
| `SlidingWindow` | what the limiter promises | charges enter while there is capacity and leave when their window is over or the store is lost |
| `MCRateLimiter` | clock skews for TLC | |
| `RateLimiterProofs` | theorems about `RateLimiter` | |
| `Webhook` | `dispatch` | `stage` is the place in `dispatch`; one action per commit and per POST |
| `Generation` | `execute`, for requests that share the database | `pc` is the place in `execute`; takes `Webhook`'s actions through `INSTANCE` |
| `Ledger` | what the generation service promises: verdicts, a log, what receivers were told, answers | no sessions, no deliveries, no retries; an action may do two things at once, because a commit and the answer behind it are one step of `Generation` |
| `WebhookProofs`, `GenerationProofs` | theorems about them | |
| `Upstream` | the retry loop of one provider call | `trail` is the list of attempt outcomes |
| `Adapters` | routing, the three payloads, the reading of a body | operators without state; a body has the same fields in all three dialects |
| `ProviderCall` | one call: `Upstream`'s loop around the adapter its model selects | `sent` is what was posted, `clients` what `get_client` opened |
| `MCProviderCall` | outcomes, calls and bodies for TLC | a representative of every class |
| `Induction` | induction and recursion over the natural numbers | lemmas; about sets and functions, so that they can be used |
| `AdapterProofs` | lemmas about `Adapters` | what `SelectSeq` keeps of a conversation, the type of what `Normalised` returns |
| `ProviderCallProofs` | theorems about `ProviderCall` | |
| `Pipeline` | `POST /v1/generate` end to end, for one API key | `pc` is the await a request is at; `connections` says whose session holds one of the pool's; answers carry a status and headers |
| `PipelineProofs` | theorems about `Pipeline` | |
| `MCUpstream` | a representative of every class of status | |
| `Lifecycle` | a process from start to shutdown and again, with requests and probes | globals hold the number of the object they refer to, 0 is `None` |
| `KeyAdmin` | `create_key` at several terminals, for one name | `step` is the statement a run is at |
| `Operations` | `Lifecycle` and `KeyAdmin` side by side | a deployment; the tool has an engine of its own |
| `OperationsProofs` | theorems about `Operations` | |

Names follow the source (`clear_before` is `now[w] - Window`, `results[1]` is
`Cardinality(Survivors(w))`). Operators that begin with the comment "Mutant"
are plausible bugs; a property is worth keeping only if one of them breaks it.

### Correspondence worth knowing

* **Redis pipelines.** `ReadError` and `AddError` let Redis execute the
  pipeline although the reply is lost. redis-py may send a pipeline again after
  reconnecting; both are idempotent (same member), so one execution stands for
  several.
* **Time** is in ticks, `TicksPerSecond` to the second, so that `int()` loses
  something. `Skew[w]` is the host's clock minus Redis's.
* **Losses.** When Redis restarts without its data the limiter counts from
  nothing, but the requests it had counted were served. The history `losses`
  keeps each loss with its time and the charges it wiped out, so that
  `OverAdmissionBound` counts a window's charges across losses (`Recent` pairs a
  charge with its era, because the same member can be charged again).
* **Sessions.** A commit either succeeds, or raises before or after the database
  applied it. After it raised, SQLAlchemy refuses the session (also the
  attribute access `client_api_key.id` in the except block, because the failed
  flush expired the object); only `get_db` rolls back, when the handler is over.
  Therefore the except block of `execute` and that of `dispatch` raise in turn.
  Several properties hold for this reason alone, and the mutants that roll back
  first break them.
* **Views.** `Pipeline` looks at a request's whole way and leaves to choice what
  the limiter, the provider, the commits and the receiver answer; the other
  modules look inside those. Its stages after the audit are `Generation`'s and
  `Webhook`'s seen by the pool: a commit gives the connection back, the next
  statement asks for one again, and any failure of a commit ends in 500. In
  `Lifecycle` a generation is one step that leaves an audit row; that its status
  is one of two of the three the column's comment lists is `execute`'s doing.
* **FastAPI's order.** The body is parsed before the dependencies run (422, or 400
  when it is not even text), the key is looked up before the body is validated,
  the limiter runs in the endpoint, behind validation, and the handler of last
  resort answers outside of the middlewares. A validation error that holds
  something JSON has no form for is `UnserialisableError`.
* **Bodies.** What the adapters do with JSON is modelled by cases: a field can be
  left out (`dict.get` gives the default), `null` (most reads raise, some do
  not) or given. A body of which a read raises is outcome `"malformed"`: the
  exception is no provider error, is not retried and ends as 500.
* **Globals.** `get_engine`, `get_session_maker` and `get_redis` await nothing
  between looking at a global and assigning it, so each is part of the step
  that calls it. `lifespan` goes on behind its `yield` when no request is in
  flight, because the server waits for them. `main._redis_client` is a copy made
  at import; the invariant `mainRedis = 0` says what becomes of it.
* **Ids.** `Generation` lets every request choose its id, since
  `sanitize_request_id` keeps what the client sent.
* **Crash** stands for a dead worker and for `CancelledError`, which no except
  block here catches. Its session is gone; its committed rows stay.

## Runs

| Run | Bounds | Shows |
|---|---|---|
| `limiter_race` | 2 workers, one of them a tick ahead, limit 1, window of 4 ticks (2 s), clock 1..7, one loss of data | `OverAdmissionBound`, `NoEarlyEviction`, `RejectionJustified`, `RetryAfterWithinSecond`, `ImplementsSlidingWindow`, `NoWayBack` |
| `limiter_atomic_claim` | 2 workers, limit 1 | violation: the documented quota (`QuotaExact`) is exceeded when both count before either adds |
| `limiter_zero_claim` | limit 0 | violation: a key the tool calls "Global Default" is refused |
| `webhook_alone` | one request, 3 attempts, any caller | `RecordedBeforePosted`, `DeliveredMeansReceived`, `SettledForGood`, `EverySettles` |
| `generation_pair` | 2 requests, 2 ids, 2 attempts per delivery, 2 failure statuses, any commit may fail | `AuditTruthful`, `AnnouncedIsAudited`, `OneOutcome`, `AnswerHonest`, `AuditAppendOnly`, `CallsWebhookProperly`, `ImplementsLedger`, `EveryRequestAnswered` |
| `generation_audit_claim` | 2 requests with one id, a database that never fails | violation: a served request leaves no audit row |
| `upstream_retry` | 3 attempts, 13 outcomes, 5 model names with a key and 3 without, 4 conversations, about 60 bodies | `PermanentFailsFast`, `UnavailableMeansExhausted`, `ConversationKept`, `CutShortIsTold`, `TotalCoversParts`, `OneClientPerCall` |
| `upstream_listed_claim` | 3 attempts, 13 outcomes | violation: a 404 is retried |
| `pipeline_pool` | 2 requests, a pool of 1, one of them fail-open and one fail-closed, revocation at any moment | `ConnectionsReturned`, `CalledWithLeave`, `AnswerTellsCost`, `EveryRequestServed` |
| `pipeline_headers_claim` | the same | violation: a 429 lacks the documented headers |
| `pipeline_blank_claim` | the same | violation: a blank content or model is answered 500 |
| `operations` | 2 requests in flight, 2 lives of the process, 1 row of each status, 2 terminals | `EnginesReleased`, `OneRedisClient`, `ScrapeAddsUp`, `ShownIsStored` |

Why the bounds are enough. The race needs two workers and one slot. Seven ticks
let an entry be charged, a second one be charged while the first still counts,
and the windows and TTLs of both run out at different times. One loss of data
between charges is enough to fill a window twice: the bound, `2 * Capacity`, is
reached. A pool of one and
two requests are the least at which somebody waits while another holds; the
proofs of `PipelineProofs` cover every other size. Two requests with two ids
contain both the shared and the private id; every commit failure is a choice of
its own, so one request runs through all combinations of them. Three attempts
are the default of both retry settings; two already separate the first, a
middle and the last attempt of a delivery. The bodies vary one thing at a time
around a plain one - shape of the list and its first element, reason, counts,
usage - because no adapter's reading of one depends on another, but for the
total, whose default is the sum of the two counts; these three vary together.
The conversations have none, one and two system prompts, also between turns. A
server enters `lifespan` once; a process that enters it again, as an embedding
program or Starlette's `TestClient` makes it do, is what `close_db_engine` resets
its globals for. Two lives are the least at which something kept from the first
can be wrong in the second. One row of each status lets a scrape overlap commits of
either kind, before and after its query.

`CHECK_DEADLOCK FALSE` stands where requests are finite in number and the model
stops when all are answered: `webhook_alone`, `generation_*`, `upstream_*`, `pipeline_*`.

### Fairness

`FairSpec` of `Webhook`, `Generation` and `Pipeline` asks weak fairness of each
handler's own next step: the event loop resumes it, and what it waits for ends.
Provider calls and POSTs have httpx's timeouts. That the database ends a
statement or a commit, if only in an error, is assumed: `session.py` gives its
statements no timeout; nor has the Redis client a `socket_timeout`. A server that
takes a request and never answers is outside these assumptions, and nothing in
the code ends such a wait. Crashes, cancellations and failures are never owed. The limiter has no
fairness and no liveness property: `NoWayBack` says that a check has at most three
steps, not when it takes them. In `Pipeline` the pool is strongly fair, because SQLAlchemy's queue serves waiters in order of arrival, and its
timeout is never owed: requests are served without it.

## What is proved

In all proofs the only assumptions are those on the constants, each named after
its module (`LimiterAssumption`, `PipelineAssumption`, `WebhookAssumption`,
`GenerationAssumption`, `UpstreamAssumption`, `ProviderCallAssumption`,
`LifecycleAssumption`, `KeyAdminAssumption`).

`RateLimiterProofs` proves, for every number of workers, limit (0 and negative
ones included), window, resolution, skew and policy:

* `TypeCorrect`: `TypeOK`.
* `Invariant`: `TypeOK /\ Accounting`, the inductive invariant. `OverAdmissionBound`
  alone is not inductive: a worker at "add" will charge whatever happens.
  `Accounting` therefore counts those workers as holding a slot
  (`Cardinality(zset) + Cardinality(Adding) <= Capacity`); a worker that finds
  room has at most `|Workers| - 1` others beside it. `NoEarlyEviction` needs
  that no stamp is later than the fastest clock and that the TTL outlives the
  window of every stored entry. `PastEras` keeps, of each loss, that what it wiped
  out was within `Capacity` and not stamped later than the loss allows; so a loss
  older than the window has nothing left in it, which is why only those the window
  spans count in the bound.
* `AdmissionBounded`: a window holds at most `Capacity` charges, and as many again
  for each loss in it. The proof numbers the charges of each era below `Capacity`
  and so injects `Recent` into eras and numbers (`RecentEras` leaves out the eras
  that ended before the window). `SerialQuotaExact`: with one worker the documented quota is
  exact in every window without a loss, so interleaving and losses are all that
  break it. `EvictionSafe`: nothing is forgotten early.
* `RefusalsJustified`: a refused request had `Limit` charges behind it, from its
  window's start to the moment it was counted. The upper end cannot be the
  request's own `now`: it is sampled before the await, and a request that is
  overtaken is refused for charges later than that.
* `RetryAfterSound`: `RetryAfterWithinSecond`. `Truncates` says what `int()` loses and
  `WaitMissesByLess` what two truncated times lose together.
* `SlidingWindowImplemented`: `Spec => Quota!Spec`; an `AddMember` is an `Admit`
  because the worker's reserved slot leaves the set below `Capacity`, and
  pruning and expiry are `Forget` and `Pass`.
* `ChecksEnd`: `NoWayBack`. A check that moves has fewer steps ahead, so it is over
  after three; a failed pipeline is not sent again.

`PipelineProofs` proves, for every number of requests, size of the pool and
assignment of the failure policy, `TypeCorrect`, `PoolNotLeaked`,
`CallsHaveLeave` and `AnswersTellCost`. `ConnectionsReturned` and `TypeOK` (which
bounds the pool and the charges) come from an invariant that adds `Admission`:
where a request can be before it was charged, that whoever is past the limiter
has leave and whoever is past routing called its provider, and that one that came after the revocation is no further than the
`SELECT`. `Admission` is proved per request, once for the one that steps
(`OwnStep`) and once for all others (`OthersStay`).
Two more theorems are the safety half of `EveryRequestServed`. `PoolNotDeadlocked`:
whoever waits finds a free connection or one held by a request that does not
wait. `RequestsGoForward`: a step moves one request, and that one to a later
stage. A fair pool and fair handlers do the rest, and only that is left to TLC.

`WebhookProofs` proves all safety properties of `webhook_alone`, for any number
of requests and attempts. Its `IInv` adds to them, per request (`Course`), what
the table and the receiver hold at each stage: nothing was recorded before
"pending" is left, a usable session at "failing" finds its row PENDING, and
whoever raised has a broken session. That last part makes `SettledForGood` true:
the except block writes only to a PENDING row, because on a broken session it
cannot write. `DispatchEnds` gives a running dispatch a measure, `Left`, of at most
`MaxAttempts + 3`, that each of its moves lowers.

`GenerationProofs` proves all safety properties of `generation_pair`, and the
refinements `CallsWebhookProperly` and `ImplementsLedger`, for any set of requests and ids. Its `IInv` has
`WebhookProofs`'s invariant as its first part: `Generation` reads `Webhook` through
an instance, `SameService` shows that instance and the one the proofs were made
about to be equal, and `ServiceStep` then carries the invariant along every step,
because each one refines a step of `Webhook`. What `Generation` adds is `Local`,
where a request's result, event and answer can be at each `pc`, and `Owned`, that
an audit row belongs to one request, although ids can repeat. Three results rest on it:

* `LedgerImplemented`. `Ledger` gives an answer only to a request that has none, so
  the mapping needs one fact more, `Silent`: whoever is not done was not
  answered. A commit that was applied and raised is a `Record`; a receiver that
  is told again is a stutter; 500 is always a permitted answer, anything else is
  one only with the row on record.
* `ExecuteEnds`: a request moves to a later phase of `execute`, or its dispatch comes
  nearer to its end in the measure of `DispatchEnds`. This is what
  `EveryRequestAnswered` needs besides fairness.
* `DistinctIdsAreAudited`: the claim that `generation_audit_claim` refutes is true for
  requests with ids of their own and commits that do not fail. So a repeated id
  is all that can break it there. Its invariant, `Undisturbed`, says that no session
  breaks and that no row is in the way of a request that has yet to insert its own.

`ProviderCallProofs` shows first that a call implements `Upstream`
(`LoopImplemented`: adapter, bodies and clients only choose among its outcomes),
then the loop's properties and `OneClientPerCall`, `CutShortIsTold` and
`TotalCoversParts` for every budget, every body and every count. `TypeCorrect` includes that whatever an
adapter can read becomes a well-formed `LLMResponse`.

`ConversationsAreKept` is about conversations of any length. What the payloads keep
is `SelectSeq`'s work, which the library defines by recursion on the sequence, so the
proof is by induction over the messages. The provers cannot use the library's
induction theorems, whose parameter is an operator; `Induction` derives the
principle for sets and functions from a fact without one, that strict inclusion is
well-founded on the subsets of a finite set. `AdapterProofs` uses it to show that
selecting roles yields messages of those roles only (`OfRolesType`), all of a list
that has no others (`OfRolesAll`), and nothing of a list that has only others
(`OfRolesNone`).

`OperationsProofs` proves all properties of `operations`, for any finite number of
requests in flight and terminals, any number of lives and rows. `ProcessInv` says
that nothing is open or in flight outside of a life, which creates one engine at
most, that sessions are on the current engine, that the open Redis client is the
one requests use, that no audit row has the third status, and that what a scrape
has read adds up; `KeyInv` counts the runs that are about to show a key with what was shown.

### Only model-checked

* The three liveness properties (`EverySettles`, `EveryRequestAnswered`,
  `EveryRequestServed`): fairness and `ENABLED` are beyond the
  prover. `DispatchEnds`, `ExecuteEnds`, `PoolNotDeadlocked` and `RequestsGoForward` prove
  what they need besides: that there is no way back and nobody waits in a circle.

Every other property of a passing run is a theorem.

## Disagreements found

1. The limiter counts and adds in two pipelines; the documentation calls the
   four steps one atomic pipeline (`docs/architecture.md:158`). The excess is
   bounded by the other requests in flight.
2. A stored limit of 0 blocks a key that `create_api_key.py:47` reports as
   "Global Default".
3. A repeated `X-Request-ID` reaches the provider and ends as 500 without an
   audit row.
4. Every unexpected status is retried; the docstring and the matrix list others.
5. 429 answers lack the `X-RateLimit-*` headers `docs/architecture.md:79` promises.
6. A blank content or model is answered 500: the handler of validation errors
   fails on the `ValueError` object that pydantic puts into `errors()`, as it does
   on the raw bytes of a body not sent as JSON and on a NaN.

Also seen, without a run:

* The delivery row is written after the generation, the diagram has it before
  (`docs/architecture.md:205`). `Retry-After` can be short by less than a second.
  Unhandled errors are answered without `X-Request-ID`.
* The documents put rate limiting before validation (`generate.py:36-38`,
  `docs/architecture.md:76-83`); FastAPI validates the body before it calls the
  endpoint, in which the limiter runs. So an invalid request is not charged,
  while a valid one for a model nobody serves is charged and answered 422.
  `AnswerTellsCost` states what the code does.
* A loss of Redis's data gives every key a fresh quota within the same window
  (`LossesInWindow`); no document says what a restart does.
* `_redis_client` in `main.py:42` is never the client that was opened, so the
  "Redis pools" of the comment at `main.py:39` are not cleaned up.
* Anthropic's `max_tokens` and `tool_use` are passed through, though
  `docs/architecture.md:148` calls finish reasons standardized.
* Gemini gets only the last of several system prompts (`gemini.py:51`);
  `ConversationKept` grants it that. A prompt that Gemini blocked, a body without
  candidates, is answered 200 with "stop", like the empty answers of OpenAI;
  `CutShortIsTold` excepts them.
* The alias `default`, and `Gemini` in other than lower case, is routed to Gemini
  and sent as typed; the 404 is retried and told as 503. A name that begins with
  `models/` never passes `resolve`, so `gemini.py:36` is not reached.
* A third key of one name makes the tool fail (`create_api_key.py:26`,
  `scalar_one_or_none`) where it means to warn.
* `/metrics` reports zeros when its query fails (`system.py:104`). The status
  `timeout` of `models/generation.py:29` is written by nothing; were it, `/metrics`
  would not add up.
* `MAX_REQUEST_SIZE_BYTES` is read by nothing, though `docs/architecture.md:252`
  says bodies are capped.

## Not modelled

HMAC, hashing, log redaction, sampling parameters and settings parsing (no
state); backoff times (no property depends on them); `/health` (no state, no
dependency); the averages of `/metrics`; migrations and examples. Rows the
database itself refuses for their length. How long a shutdown may wait for the
requests in flight: the server is given no limit.

## Plan

1. Done: every component but correlation, of which only the ids and the header
   are modelled; proofs of all safety properties and of the refinements.
2. Correlation ids and the middlewares' order as a module of their own: the
   context variable against concurrent requests, headers on every kind of answer.
3. `Pipeline` against `RateLimiter`, `Generation` and `ProviderCall`: its stages
   as the abstract views they are meant to be.
