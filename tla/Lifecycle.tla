----------------------------- MODULE Lifecycle -----------------------------
(***************************************************************************)
(* One gateway process from start to shutdown: lifespan (app/main.py), the *)
(* module globals it opens on first use - engine and session maker         *)
(* (app/db/session.py), Redis client (app/api/dependencies.py) - and the   *)
(* requests that use them, among them the probes of app/api/v1/system.py.  *)
(*                                                                         *)
(* Globals hold the number of the object they refer to; 0 is None.  What   *)
(* Pipeline says of a generation is here one step that leaves a row.       *)
(* Between the look at a global and its assignment nothing is awaited, so  *)
(* a getter is part of the step that calls it.                             *)
(***************************************************************************)
EXTENDS Integers, FiniteSets

CONSTANTS
    Handlers,   \* requests that can be in flight at once
    MaxLives,   \* bound: how often the process enters lifespan
    MaxRows     \* bound: audit rows of each status

ASSUME LifecycleAssumption ==
    /\ IsFiniteSet(Handlers)
    /\ MaxLives \in Nat
    /\ MaxRows \in Nat

VARIABLES
    life,         \* where the process is in lifespan
    lives,        \* how often it entered it
    engine,       \* session._engine
    maker,        \* the engine session._session_maker is bound to
    engines,      \* how many engines were created
    pools,        \* the engines with open connections
    redisClient,  \* dependencies._redis_client
    mainRedis,    \* main._redis_client, copied by `from ... import` at start-up
    clients,      \* the open Redis clients
    opened,       \* how many Redis clients were created
    stage,        \* where each handler is
    kind,         \* which endpoint it serves
    session,      \* the engine its database session is bound to
    read,         \* the counts it will answer with
    rows          \* audit rows: how many there are of each status

globals == <<engine, maker, engines, redisClient, opened>>
process == <<life, lives, mainRedis>>
vars == <<process, globals, pools, clients, stage, kind, session, read, rows>>

Kinds == {"generate", "ready", "metrics"}

(* What the comment on the column lists. *)
Statuses == {"success", "failed", "timeout"}

(* What service_metrics starts from, and answers when its query raised. *)
Zeros == [success |-> 0, failed |-> 0, total |-> 0]
Counts == [success : 0..MaxRows, failed : 0..MaxRows, total : 0..3 * MaxRows]

TypeOK ==
    /\ life \in {"down", "up", "stopping", "disposed"}
    /\ lives \in 0..MaxLives
    /\ engines \in 0..lives /\ engine \in 0..engines /\ maker \in 0..engines
    /\ pools \subseteq 1..engines
    /\ opened \in Nat /\ redisClient \in 0..opened /\ mainRedis = 0
    /\ clients \subseteq 1..opened
    /\ stage \in [Handlers -> {"idle", "redis", "query", "ping", "keys"}]
    /\ kind \in [Handlers -> Kinds]
    /\ session \in [Handlers -> 0..engines]
    /\ read \in [Handlers -> Counts]
    /\ rows \in [Statuses -> 0..MaxRows]

Init ==
    /\ life = "down" /\ lives = 0
    /\ engine = 0 /\ maker = 0 /\ engines = 0 /\ pools = {}
    /\ redisClient = 0 /\ mainRedis = 0 /\ clients = {} /\ opened = 0
    /\ stage = [h \in Handlers |-> "idle"]
    /\ kind = [h \in Handlers |-> "generate"]
    /\ session = [h \in Handlers |-> 0]
    /\ read = [h \in Handlers |-> Zeros]
    /\ rows = [status \in Statuses |-> 0]

-----------------------------------------------------------------------------
(* lifespan *)

(* The server enters lifespan and begins to accept requests. *)
Startup ==
    /\ life = "down" /\ lives < MaxLives
    /\ life' = "up" /\ lives' = lives + 1
    /\ UNCHANGED <<mainRedis, globals, pools, clients, stage, kind, session, read, rows>>

(* The server is told to stop: it accepts no more requests. *)
Stop ==
    /\ life = "up"
    /\ life' = "stopping"
    /\ UNCHANGED <<lives, mainRedis, globals, pools, clients, stage, kind, session, read, rows>>

(* Mutant: the session maker survives its engine. *)
CloseDbEngineKeepsMaker ==
    /\ pools' = pools \ {engine}
    /\ engine' = 0
    /\ UNCHANGED maker

(* close_db_engine *)
CloseDbEngine ==
    /\ pools' = pools \ {engine}
    /\ engine' = 0
    /\ maker' = IF engine # 0 THEN 0 ELSE maker

(* Requests in flight are waited for; then lifespan goes on behind its yield. *)
Dispose ==
    /\ life = "stopping" /\ \A h \in Handlers : stage[h] = "idle"
    /\ CloseDbEngine
    /\ life' = "disposed"
    /\ UNCHANGED <<lives, mainRedis, engines, redisClient, opened, clients,
                   stage, kind, session, read, rows>>

(* Mutant: the client is forgotten where it is used, but not closed. *)
ShutdownForgets ==
    /\ life = "disposed"
    /\ redisClient' = 0
    /\ life' = "down"
    /\ UNCHANGED <<lives, mainRedis, engine, maker, engines, opened, clients, pools,
                   stage, kind, session, read, rows>>

(* main's own _redis_client is closed and forgotten. *)
Shutdown ==
    /\ life = "disposed"
    /\ clients' = clients \ {mainRedis}
    /\ mainRedis' = 0
    /\ life' = "down"
    /\ UNCHANGED <<lives, globals, pools, stage, kind, session, read, rows>>

-----------------------------------------------------------------------------
(* Dependencies *)

(* Mutant: get_engine without its look at the global. *)
GetSessionMakerAlways ==
    /\ engines' = engines + 1
    /\ engine' = engines + 1
    /\ maker' = engine'

(* get_session_maker, and get_engine inside it. *)
GetSessionMaker ==
    /\ engines' = IF maker = 0 /\ engine = 0 THEN engines + 1 ELSE engines
    /\ engine' = IF maker = 0 /\ engine = 0 THEN engines + 1 ELSE engine
    /\ maker' = IF maker = 0 THEN engine' ELSE maker

(* A request arrives; get_db makes its session. *)
Arrive(h, k) ==
    /\ life = "up" /\ stage[h] = "idle"
    /\ GetSessionMaker
    /\ session' = [session EXCEPT ![h] = maker']
    /\ kind' = [kind EXCEPT ![h] = k]
    /\ stage' = [stage EXCEPT ![h] = "redis"]
    /\ UNCHANGED <<process, redisClient, opened, pools, clients, read, rows>>

(* get_redis, after which the endpoint runs. *)
GetRedis(h) ==
    /\ stage[h] = "redis"
    /\ IF redisClient = 0
       THEN opened' = opened + 1 /\ redisClient' = opened + 1 /\ clients' = clients \cup {opened + 1}
       ELSE UNCHANGED <<opened, redisClient, clients>>
    /\ stage' = [stage EXCEPT ![h] = "query"]
    /\ UNCHANGED <<process, engine, maker, engines, pools, kind, session, read, rows>>

(* The session takes a connection of its engine's pool, or cannot. *)
Connect(h) == pools' = pools \cup {session[h]}

(* The request is over and its locals with it. *)
Leave(h) ==
    /\ stage' = [stage EXCEPT ![h] = "idle"]
    /\ kind' = [kind EXCEPT ![h] = "generate"]
    /\ session' = [session EXCEPT ![h] = 0]
    /\ read' = [read EXCEPT ![h] = Zeros]

(* A request that is turned away on its way, or cancelled. *)
Refuse(h) ==
    /\ stage[h] # "idle"
    /\ Connect(h) \/ UNCHANGED pools
    /\ Leave(h)
    /\ UNCHANGED <<process, globals, clients, rows>>

(* A generation leaves its audit row. *)
Generate(h) ==
    /\ stage[h] = "query" /\ kind[h] = "generate"
    /\ Connect(h)
    /\ \E status \in {"success", "failed"} :
          rows[status] < MaxRows /\ rows' = [rows EXCEPT ![status] = @ + 1]
    /\ Leave(h)
    /\ UNCHANGED <<process, globals, clients>>

-----------------------------------------------------------------------------
(* /ready and /metrics *)

(* All rows, and those of two statuses, in one statement: one snapshot. *)
SelectCount ==
    [success |-> rows["success"], failed |-> rows["failed"],
     total |-> rows["success"] + rows["failed"] + rows["timeout"]]

(* Mutant: the rows are counted by a statement of their own. *)
QueryInTwo(h) ==
    /\ stage[h] = "query" /\ kind[h] = "metrics"
    /\ Connect(h)
    /\ \/ read' = [read EXCEPT ![h] = [SelectCount EXCEPT !.total = 0]] /\ UNCHANGED stage
       \/ /\ read' = [read EXCEPT ![h].total = SelectCount.total]
          /\ stage' = [stage EXCEPT ![h] = "keys"]
    /\ UNCHANGED <<process, globals, clients, kind, session, rows>>

(* The endpoint's statement runs, or raises and leaves the zeros; that of    *)
(* readiness_check reads no rows.                                            *)
Query(h) ==
    /\ stage[h] = "query" /\ kind[h] # "generate"
    /\ \/ kind[h] = "metrics" /\ Connect(h) /\ read' = [read EXCEPT ![h] = SelectCount]
       \/ (Connect(h) \/ UNCHANGED pools) /\ UNCHANGED read
    /\ stage' = [stage EXCEPT ![h] = IF kind[h] = "ready" THEN "ping" ELSE "keys"]
    /\ UNCHANGED <<process, globals, clients, kind, session, rows>>

(* readiness_check: redis.ping() answers or raises.  The verdict, 503 unless *)
(* both dependencies answered, is no part of the state.                      *)
PingRedis(h) ==
    /\ stage[h] = "ping"
    /\ Leave(h)
    /\ UNCHANGED <<process, globals, pools, clients, rows>>

(* service_metrics: redis.keys() answers or raises, and the counts are sent. *)
Keys(h) ==
    /\ stage[h] = "keys"
    /\ Leave(h)
    /\ UNCHANGED <<process, globals, pools, clients, rows>>

Progress(h) ==
    \/ GetRedis(h) \/ Refuse(h) \/ Generate(h) \/ Query(h) \/ PingRedis(h) \/ Keys(h)

Next ==
    \/ Startup \/ Stop \/ Dispose \/ Shutdown
    \/ \E h \in Handlers : Progress(h) \/ \E k \in Kinds : Arrive(h, k)

Spec == Init /\ [][Next]_vars

-----------------------------------------------------------------------------
(* Properties *)

(* Shutdown closes what was opened last: every session in flight is on the  *)
(* engine that shutdown will dispose of, and a process that is down holds   *)
(* no database connection, also when lifespan is entered again              *)
(* (session.py:66-70).                                                      *)
EnginesReleased ==
    /\ \A h \in Handlers : stage[h] # "idle" => session[h] = engine /\ engine # 0
    /\ pools \subseteq {engine}
    /\ life = "down" => pools = {}

(* main's shutdown closes a _redis_client that is always None (main.py:9,   *)
(* :42), so the client stays open; but it is not forgotten either: however  *)
(* often lifespan is entered, the process holds at most one, and it is the  *)
(* one requests use.                                                        *)
OneRedisClient ==
    /\ Cardinality(clients) <= 1
    /\ redisClient # 0 => redisClient \in clients
    /\ \A h \in Handlers : stage[h] \in {"query", "ping", "keys"} => redisClient # 0

(* The numbers a scrape of /metrics sends add up, whatever generations end  *)
(* while it runs: one statement reads all three, and no row has the third   *)
(* status that the column's comment lists and /metrics has no number for    *)
(* (system.py:90-95, generation.py:57, :78, models/generation.py:29).       *)
ScrapeAddsUp ==
    \A h \in Handlers : stage[h] = "keys" =>
        read[h].total = read[h].success + read[h].failed
=============================================================================
