---------------------------- MODULE RateLimiter ----------------------------
(***************************************************************************)
(* The Redis sliding-window limiter of app/services/rate_limiter.py as the *)
(* generate endpoint (app/api/v1/generate.py) uses it, for one API key.    *)
(* Keys share nothing: every Redis command names ratelimit:<key hash>.     *)
(*                                                                         *)
(* A worker is one handler invocation in flight.  check_rate_limit awaits  *)
(* twice, once per MULTI/EXEC pipeline, so each pipeline is one atomic     *)
(* action and the steps of different workers interleave between them.      *)
(*                                                                         *)
(* Time is counted in ticks, TicksPerSecond to the second, so that int()   *)
(* of a timestamp really loses a fraction.                                 *)
(***************************************************************************)
EXTENDS Integers, FiniteSets, Sequences

CONSTANTS
    Workers,         \* handler invocations that can be in flight together
    Limit,           \* limit_override or settings.rate_limit_per_minute
    WindowSeconds,   \* window_seconds
    TicksPerSecond,  \* resolution of the modelled clock
    Salts,           \* the values random.randint can return
    Skew,            \* Skew[w]: host clock of w minus Redis's clock, in ticks
    MaxSkew,         \* no host is further than this from Redis's clock
    FailOpen,        \* rate_limit_redis_failure_policy = "fail_open"
    MaxClock,        \* bound on the clock
    MaxRestarts      \* bound on the number of times Redis loses its data

(* --rate-limit and RATE_LIMIT_PER_MINUTE are plain ints: Limit may be 0 or less. *)
ASSUME LimiterAssumption ==
    /\ IsFiniteSet(Workers) /\ Workers # {}
    /\ Limit \in Int
    /\ WindowSeconds \in Nat \ {0}
    /\ TicksPerSecond \in Nat \ {0}
    /\ MaxSkew \in Nat
    /\ Skew \in [Workers -> (-MaxSkew)..MaxSkew]
    /\ FailOpen \in BOOLEAN
    /\ MaxClock \in Nat
    /\ MaxRestarts \in Nat

VARIABLES
    clock,       \* Redis's clock, the reference time
    zset,        \* the sorted set at ratelimit:<key>; {} when the key is absent
    expiresAt,   \* when the key's TTL runs out (meaningless while zset = {})
    pc,          \* where each worker is in its handler
    now,         \* check_rate_limit's local `now`
    outcome,     \* what check_rate_limit returned or raised
    resetAt,     \* the time reset_epoch is truncated from
    retryAfter,  \* the Retry-After that the last step answered; 0 if it answered none
    charged,     \* history: every member ZADDed since Redis last lost its data
    losses       \* history: when Redis lost its data, and which charges with it

redis == <<zset, expiresAt, charged>>
vars == <<clock, zset, expiresAt, pc, now, outcome, resetAt, retryAfter, charged, losses>>

Window == WindowSeconds * TicksPerSecond

Member == [score : Int, salt : Salts]

HostClock(w) == clock + Skew[w]

(* int() of a nonnegative timestamp *)
ToSeconds(t) == t \div TicksPerSecond

TypeOK ==
    /\ clock \in Int
    /\ zset \in SUBSET Member /\ IsFiniteSet(zset)
    /\ charged \in SUBSET Member
    /\ expiresAt \in Int
    /\ pc \in [Workers -> {"idle", "read", "add", "respond"}]
    /\ now \in [Workers -> Int]
    /\ outcome \in [Workers -> {"none", "allowed", "degraded", "limited", "closed"}]
    /\ resetAt \in [Workers -> Int]
    /\ retryAfter \in Nat
    /\ losses \in Seq([at : Int, charged : SUBSET Member])
    /\ Len(losses) <= MaxRestarts

Init ==
    /\ clock = MaxSkew
    /\ zset = {}
    /\ expiresAt = 0
    /\ pc = [w \in Workers |-> "idle"]
    /\ now = [w \in Workers |-> 0]
    /\ outcome = [w \in Workers |-> "none"]
    /\ resetAt = [w \in Workers |-> 0]
    /\ retryAfter = 0
    /\ charged = {}
    /\ losses = <<>>

-----------------------------------------------------------------------------
(* check_rate_limit *)

Goto(w, label) == pc' = [pc EXCEPT ![w] = label]

(* The step answers no Retry-After. *)
NoHeader == retryAfter' = 0

(* Return (or raise) o with the reset time taken from t; the handler resumes. *)
Decide(w, o, t) ==
    /\ Goto(w, "respond")
    /\ outcome' = [outcome EXCEPT ![w] = o]
    /\ resetAt' = [resetAt EXCEPT ![w] = t]

(* A request enters the limiter and samples time.time(). *)
Start(w) ==
    /\ pc[w] = "idle"
    /\ Goto(w, "read")
    /\ now' = [now EXCEPT ![w] = HostClock(w)]
    /\ NoHeader
    /\ UNCHANGED <<clock, redis, losses, outcome, resetAt>>

(* What ZREMRANGEBYSCORE key -inf (now - window) leaves: the bound is inclusive. *)
Survivors(w) == {m \in zset : m.score > now[w] - Window}

(* Mutant: one too many. *)
HasRoomOffByOne(w) == Cardinality(Survivors(w)) <= Limit

(* ZCARD is below the limit. *)
HasRoom(w) == Cardinality(Survivors(w)) < Limit

(* First pipeline, with room: go on to the second one. *)
CountBelow(w) ==
    /\ pc[w] = "read"
    /\ HasRoom(w)
    /\ zset' = Survivors(w)
    /\ Goto(w, "add")
    /\ NoHeader
    /\ UNCHANGED <<clock, expiresAt, charged, losses, now, outcome, resetAt>>

(* reset_epoch of a refusal: when the oldest entry leaves, if there is one. *)
RefusalReset(w) ==
    LET S == Survivors(w)
    IN  IF S = {}
        THEN {now[w] + Window}
        ELSE {m.score + Window : m \in {o \in S : \A n \in S : o.score <= n.score}}

(* First pipeline, without room: refuse. *)
CountAtLimit(w) ==
    /\ pc[w] = "read"
    /\ ~HasRoom(w)
    /\ zset' = Survivors(w)
    /\ \E t \in RefusalReset(w) : Decide(w, "limited", t)
    /\ NoHeader
    /\ UNCHANGED <<clock, expiresAt, charged, losses, now>>

(* Mutant: a request is stored under the time it leaves the window. *)
ChargeStampedAhead(w, salt) ==
    LET m == [score |-> now[w] + Window, salt |-> salt]
    IN  /\ zset' = zset \cup {m}
        /\ charged' = charged \cup {m}
        /\ expiresAt' = clock + Window + TicksPerSecond

(* Mutant: the spare second is taken from the TTL instead of added to it. *)
ChargeShortTTL(w, salt) ==
    LET m == [score |-> now[w], salt |-> salt]
    IN  /\ zset' = zset \cup {m}
        /\ charged' = charged \cup {m}
        /\ expiresAt' = clock + Window - TicksPerSecond

(* The second pipeline as Redis executes it: ZADD and EXPIRE window + 1. *)
Charge(w, salt) ==
    LET m == [score |-> now[w], salt |-> salt]
    IN  /\ zset' = zset \cup {m}
        /\ charged' = charged \cup {m}
        /\ expiresAt' = clock + Window + TicksPerSecond

(* Second pipeline: record the request and allow it. *)
AddMember(w) ==
    /\ pc[w] = "add"
    /\ \E salt \in Salts : Charge(w, salt)
    /\ Decide(w, "allowed", now[w] + Window)
    /\ NoHeader
    /\ UNCHANGED <<clock, losses, now>>

(* Mutant: a failed pipeline sends the check back to its start. *)
FailurePolicyRetries(w) == Goto(w, "read") /\ UNCHANGED <<outcome, resetAt>>

(* except RedisError: the failure policy decides. *)
FailurePolicy(w) ==
    Decide(w, IF FailOpen THEN "degraded" ELSE "closed", now[w] + Window)

(* The first pipeline fails; Redis may have executed it before the reply was lost. *)
ReadError(w) ==
    /\ pc[w] = "read"
    /\ zset' \in {zset, Survivors(w)}
    /\ FailurePolicy(w)
    /\ NoHeader
    /\ UNCHANGED <<clock, expiresAt, charged, losses, now>>

(* The second pipeline fails, before or after Redis executed it. *)
AddError(w) ==
    /\ pc[w] = "add"
    /\ UNCHANGED redis \/ \E salt \in Salts : Charge(w, salt)
    /\ FailurePolicy(w)
    /\ NoHeader
    /\ UNCHANGED <<clock, losses, now>>

-----------------------------------------------------------------------------
(* The endpoint *)

(* Mutant: without the minimum. *)
RetryAfterUnclamped(w) == ToSeconds(resetAt[w]) - ToSeconds(HostClock(w))

(* Mutant: measured from the sample taken before the pipelines. *)
RetryAfterStale(w) ==
    LET wait == ToSeconds(resetAt[w]) - ToSeconds(now[w])
    IN  IF wait > 1 THEN wait ELSE 1

(* max(1, reset_epoch - int(time.time())) *)
RetryAfter(w) ==
    LET wait == ToSeconds(resetAt[w]) - ToSeconds(HostClock(w))
    IN  IF wait > 1 THEN wait ELSE 1

(* The check's locals go out of scope. *)
Leave(w) ==
    /\ Goto(w, "idle")
    /\ now' = [now EXCEPT ![w] = 0]
    /\ outcome' = [outcome EXCEPT ![w] = "none"]
    /\ resetAt' = [resetAt EXCEPT ![w] = 0]

(* The endpoint acts on the result: a refusal is answered 429 with Retry-After; *)
(* a fail-closed refusal carries no retry_after.                                *)
Respond(w) ==
    /\ pc[w] = "respond"
    /\ retryAfter' = IF outcome[w] = "limited" THEN RetryAfter(w) ELSE 0
    /\ Leave(w)
    /\ UNCHANGED <<clock, redis, losses>>

(* The worker process dies, or the task is cancelled, at an await. *)
Crash(w) ==
    /\ pc[w] # "idle"
    /\ Leave(w)
    /\ NoHeader
    /\ UNCHANGED <<clock, redis, losses>>

-----------------------------------------------------------------------------
(* Redis and time *)

(* Certainly within the window, whichever host asks. *)
InWindow(m) == m.score > clock + MaxSkew - Window

(* Time passes; a key whose TTL has run out is gone. *)
Tick ==
    /\ clock < MaxClock
    /\ clock' = clock + 1
    /\ zset' = IF clock + 1 >= expiresAt THEN {} ELSE zset
    /\ NoHeader
    /\ UNCHANGED <<expiresAt, charged, losses, pc, now, outcome, resetAt>>

(* Redis restarts without its data; the requests it had counted were served, *)
(* and those still within the window are remembered here.                    *)
RedisRestart ==
    /\ Len(losses) < MaxRestarts
    /\ losses' = Append(losses, [at |-> clock, charged |-> {m \in charged : InWindow(m)}])
    /\ zset' = {}
    /\ charged' = {}
    /\ NoHeader
    /\ UNCHANGED <<clock, expiresAt, pc, now, outcome, resetAt>>

(* What a started handler does next when nothing fails. *)
Progress(w) ==
    \/ CountBelow(w)
    \/ CountAtLimit(w)
    \/ AddMember(w)
    \/ Respond(w)

Next ==
    \/ \E w \in Workers :
          Start(w) \/ Progress(w) \/ ReadError(w) \/ AddError(w) \/ Crash(w)
    \/ Tick
    \/ RedisRestart

Spec == Init /\ [][Next]_vars

-----------------------------------------------------------------------------
(* Properties *)

(* Workers that saw a free slot and have not charged it yet. *)
Adding == {w \in Workers : pc[w] = "add"}

(* What a check-then-add limiter can guarantee: every worker but the last   *)
(* one to look may be holding a slot it saw free.                           *)
Capacity == IF Limit > 0 THEN Limit + Cardinality(Workers) - 1 ELSE 0

(* What was charged between one loss of Redis's data and the next; the last *)
(* era is the present one.                                                  *)
ChargedIn(era) == IF era <= Len(losses) THEN losses[era].charged ELSE charged

(* What was charged, in whichever era, and is certainly within the window. *)
Recent ==
    UNION {{era} \X {m \in ChargedIn(era) : InWindow(m)} : era \in 1..(Len(losses) + 1)}

(* The losses the window spans. *)
LossesInWindow == {era \in 1..Len(losses) : losses[era].at > clock - Window}

(* The race between the two pipelines (rate_limiter.py:69 and :79) admits   *)
(* at most one request per other worker beyond the limit: whatever is       *)
(* delayed or crashes, a window holds no more charges than Capacity, and as *)
(* many again for each time Redis lost its data in it, for what is lost was *)
(* served and is no longer counted.                                         *)
OverAdmissionBound == Cardinality(Recent) <= Capacity * (1 + Cardinality(LossesInWindow))

(* A request that was charged is still counted for as long as it is in the  *)
(* window: neither another worker's stale or fast clock in                  *)
(* ZREMRANGEBYSCORE nor the key's TTL removes it too soon.                  *)
NoEarlyEviction == {m \in charged : InWindow(m)} \subseteq zset

(* What Redis lost at a time was charged by then, and was no more than a    *)
(* window can hold.                                                         *)
PastEras ==
    \A era \in 1..Len(losses) :
        LET old == losses[era]
        IN  /\ old.at <= clock
            /\ IsFiniteSet(old.charged)
            /\ \A m \in old.charged : m.score <= old.at + MaxSkew
            /\ Cardinality({m \in old.charged : InWindow(m)}) <= Capacity

(* Why the two invariants above hold at every step. *)
Accounting ==
    /\ IsFiniteSet(charged)
    /\ zset \subseteq charged
    \* a slot seen free is reserved in effect until its worker charges it
    /\ Cardinality(zset) + Cardinality(Adding) <= Capacity
    \* nothing carries a stamp from the future of every host
    /\ \A m \in charged : m.score <= clock + MaxSkew
    /\ \A w \in Workers : pc[w] # "idle" => now[w] <= clock + MaxSkew
    \* the TTL outlives the window of every entry, not only of the last one
    /\ \A m \in zset : m.score <= expiresAt + MaxSkew - Window - TicksPerSecond
    /\ NoEarlyEviction
    /\ PastEras

(* The quota as the documentation states it: never more than Limit charges  *)
(* within one window (docs/architecture.md:158, rate_limiter.py:55).        *)
QuotaExact == Cardinality(Recent) <= (IF Limit > 0 THEN Limit ELSE 0)

(* Limit charges lie between the start of the window that w's own sample of *)
(* the time opens and the present, by the fastest host's clock.             *)
Earned(w) ==
    Cardinality({m \in charged :
                   now[w] - Window < m.score /\ m.score <= clock + MaxSkew}) >= Limit

(* A 429 is earned: a request is refused only if Limit requests were        *)
(* charged after `now` - window (rate_limiter.py:61) and no later than the  *)
(* moment it is counted.  `now` is sampled before the await, so a request   *)
(* that is overtaken is refused for charges later than its own `now` too;   *)
(* one that is not overtaken, with hosts that agree, only for its window's. *)
RejectionJustified ==
    [][\A w \in Workers :
         (pc[w] = "read" /\ pc'[w] = "respond" /\ outcome'[w] = "limited") => Earned(w)]_vars

(* The 429 handler's step, seen from outside. *)
Refuses(w) ==
    pc[w] = "respond" /\ outcome[w] = "limited" /\ pc'[w] = "idle" /\ retryAfter' # 0

(* When a client that waits Retry-After comes back, on the host's clock. *)
ComesBack(w) == HostClock(w) + retryAfter' * TicksPerSecond

(* Retry-After misses the moment the awaited entry leaves the window by     *)
(* less than a second either way, or is the minimum of one second.          *)
RetryAfterWithinSecond ==
    [][\A w \in Workers : Refuses(w) =>
         /\ ComesBack(w) > resetAt[w] - TicksPerSecond
         /\ \/ ComesBack(w) < resetAt[w] + TicksPerSecond
            \/ retryAfter' = 1]_vars

(* create_api_key.py:47 reports a key made with --rate-limit 0 as having the *)
(* "Global Default": such a key is not refused before anything was charged.  *)
ZeroMeansDefault ==
    [][\A w \in Workers : (Limit = 0 /\ charged = {}) => outcome'[w] # "limited"]_vars

(* The limiter is a sliding window of Capacity charges. *)
Quota == INSTANCE SlidingWindow
           WITH time <- clock, live <- zset, losses <- Len(losses)

(* The limiter implements the sliding window: whatever the interleaving, no *)
(* charge is admitted beyond Capacity, and none is dropped before its       *)
(* window is over unless Redis loses its data.                              *)
ImplementsSlidingWindow == Quota!Spec

(* How many awaits a check still has before it. *)
Ahead == [read |-> 3, add |-> 2, respond |-> 1, idle |-> 0]

(* A check only goes forward: neither a failed pipeline nor the failure     *)
(* policy (rate_limiter.py:104-132) sends it back to a pipeline it has      *)
(* sent, so that none is charged twice or checked without end.              *)
NoWayBack ==
    [][\A w \in Workers :
         pc[w] # "idle" /\ pc'[w] # pc[w] => Ahead[pc'[w]] < Ahead[pc[w]]]_vars
=============================================================================
