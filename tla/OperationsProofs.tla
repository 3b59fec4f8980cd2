-------------------------- MODULE OperationsProofs --------------------------
(***************************************************************************)
(* What holds of a gateway process and of the key tool beside it, for any  *)
(* number of requests in flight, restarts, audit rows and terminals.       *)
(***************************************************************************)
EXTENDS Operations, FiniteSetTheorems, TLAPS

(* Before start-up and behind the disposal nothing is in flight or open, and *)
(* an engine is created at most once between them.                           *)
Lifespan ==
    /\ life \in {"down", "disposed"} =>
          pools = {} /\ \A h \in Handlers : stage[h] = "idle"
    /\ life = "up" /\ engine = 0 => engines < lives
    /\ maker \in {0, engine}

(* The open client is the one requests use. *)
ClientKnown == clients = IF redisClient = 0 THEN {} ELSE {redisClient}

(* Nobody writes the third status. *)
NoThirdStatus == rows["timeout"] = 0

(* Nothing has been read, or all of it at once. *)
ReadsAddUp == \A h \in Handlers : read[h].total = read[h].success + read[h].failed

ProcessInv ==
    /\ TypeOK
    /\ Lifespan
    /\ ClientKnown
    /\ NoThirdStatus
    /\ EnginesReleased
    /\ \A h \in Handlers : stage[h] \in {"query", "ping", "keys"} => redisClient # 0
    /\ ReadsAddUp

KeyInv == KeyTypeOK /\ ShownIsStored

-----------------------------------------------------------------------------
(* The process *)

LEMMA ProcessInitially == Init => ProcessInv
BY LifecycleAssumption
DEF Init, ProcessInv, TypeOK, Lifespan, ClientKnown, NoThirdStatus, EnginesReleased, ReadsAddUp,
    Kinds, Counts, Statuses, Zeros

(* A client that is open is one client. *)
LEMMA ClientIsOne == ProcessInv => OneRedisClient
<1> SUFFICES ASSUME ProcessInv PROVE OneRedisClient
  OBVIOUS
<1>1. Cardinality(clients) <= 1
  <2>1. CASE redisClient = 0
    BY <2>1, FS_EmptySet DEF ProcessInv, ClientKnown
  <2>2. CASE redisClient # 0
    BY <2>2, FS_Singleton DEF ProcessInv, ClientKnown
  <2> QED
    BY <2>1, <2>2
<1> QED
  BY <1>1 DEF ProcessInv, ClientKnown, OneRedisClient

LEMMA LifespanStep ==
    ASSUME ProcessInv, Startup \/ Stop \/ Dispose \/ Shutdown
    PROVE  ProcessInv'
<1>1. CASE Startup \/ Stop
  <2>1. TypeOK'
    <3>1. /\ life' \in {"up", "stopping"} /\ lives' \in 0..MaxLives /\ engines' \in 0..lives'
          /\ UNCHANGED <<mainRedis, globals, pools, clients, stage, kind, session, read,
                         rows>>
      BY <1>1, LifecycleAssumption DEF ProcessInv, TypeOK, Startup, Stop, globals
    <3> QED
      BY <3>1 DEF ProcessInv, TypeOK, globals, Counts, Kinds
  <2>2. Lifespan'
    BY <1>1, LifecycleAssumption DEF ProcessInv, TypeOK, Lifespan, Startup, Stop, globals
  <2> QED
    BY <1>1, <2>1, <2>2
    DEF ProcessInv, Startup, Stop, globals, ClientKnown, NoThirdStatus, EnginesReleased,
        ReadsAddUp
<1>2. CASE Dispose
  <2>1. /\ pools' = {} /\ engine' = 0 /\ maker' = 0 /\ life' = "disposed"
        /\ \A h \in Handlers : stage[h] = "idle"
    BY <1>2 DEF Dispose, CloseDbEngine, ProcessInv, TypeOK, Lifespan, EnginesReleased
  <2>2. UNCHANGED <<lives, mainRedis, engines, redisClient, opened, clients,
                    stage, kind, session, read, rows>>
    BY <1>2 DEF Dispose
  <2>3. TypeOK'
    BY <2>1, <2>2 DEF ProcessInv, TypeOK, Counts, Kinds
  <2> QED
    BY <2>1, <2>2, <2>3
    DEF ProcessInv, Lifespan, ClientKnown, NoThirdStatus, EnginesReleased, ReadsAddUp
<1>3. CASE Shutdown
  <2>1. clients' = clients /\ mainRedis' = 0 /\ life' = "down" /\ life = "disposed"
    BY <1>3 DEF Shutdown, ProcessInv, TypeOK, ClientKnown
  <2>2. UNCHANGED <<lives, globals, pools, stage, kind, session, read, rows>>
    BY <1>3 DEF Shutdown
  <2>3. TypeOK'
    BY <2>1, <2>2 DEF ProcessInv, TypeOK, Counts, Kinds, globals
  <2> QED
    BY <2>1, <2>2, <2>3
    DEF ProcessInv, Lifespan, ClientKnown, NoThirdStatus, EnginesReleased, ReadsAddUp,
        globals
<1> QED
  BY <1>1, <1>2, <1>3

LEMMA ArriveStep ==
    ASSUME ProcessInv, NEW h \in Handlers, NEW k \in Kinds, Arrive(h, k)
    PROVE  ProcessInv'
<1>1. /\ life = "up" /\ stage[h] = "idle"
      /\ stage' = [stage EXCEPT ![h] = "redis"]
      /\ kind' = [kind EXCEPT ![h] = k] /\ session' = [session EXCEPT ![h] = maker']
      /\ UNCHANGED <<process, redisClient, opened, pools, clients, read, rows>>
  BY DEF Arrive
<1>2. /\ engines' \in 0..lives /\ engine' \in 1..engines' /\ maker' = engine'
      /\ engines <= engines' /\ (engine # 0 => engine' = engine)
      /\ pools \subseteq {engine'} /\ pools \subseteq 1..engines'
  <2>1. engine = 0 => pools = {} /\ engines < lives
    BY <1>1 DEF ProcessInv, TypeOK, EnginesReleased, Lifespan
  <2> QED
    BY <2>1, LifecycleAssumption
    DEF Arrive, GetSessionMaker, ProcessInv, TypeOK, Lifespan, EnginesReleased
<1>3. TypeOK'
  <2>1. session' \in [Handlers -> 0..engines']
    BY <1>1, <1>2, LifecycleAssumption DEF ProcessInv, TypeOK
  <2> QED
    BY <1>1, <1>2, <2>1, LifecycleAssumption DEF ProcessInv, TypeOK, process, Counts, Kinds
<1>4. EnginesReleased'
  <2>1. \A g \in Handlers : stage'[g] # "idle" => session'[g] = engine' /\ engine' # 0
    BY <1>1, <1>2 DEF ProcessInv, TypeOK, EnginesReleased
  <2> QED
    BY <1>1, <1>2, <2>1 DEF EnginesReleased, process
<1>5. Lifespan' /\ ClientKnown' /\ NoThirdStatus' /\ ReadsAddUp'
  BY <1>1, <1>2
  DEF ProcessInv, TypeOK, Lifespan, ClientKnown, NoThirdStatus, ReadsAddUp, process
<1>6. \A g \in Handlers : stage'[g] \in {"query", "ping", "keys"} => redisClient' # 0
  BY <1>1 DEF ProcessInv, TypeOK
<1> QED
  BY <1>3, <1>4, <1>5, <1>6 DEF ProcessInv

(* A handler that goes on, or leaves, on its own engine. *)
LEMMA HandlerStep ==
    ASSUME ProcessInv, NEW h \in Handlers, stage[h] # "idle",
           UNCHANGED <<process, engine, maker, engines>>,
           pools' = pools \/ Connect(h),
           stage' \in [Handlers -> {"idle", "redis", "query", "ping", "keys"}],
           \A g \in Handlers : stage'[g] # "idle" => stage[g] # "idle" /\ session'[g] = session[g]
    PROVE  /\ EnginesReleased' /\ Lifespan'
           /\ pools' \subseteq 1..engines'
<1>1. session[h] = engine /\ engine # 0 /\ engine \in 1..engines
  BY LifecycleAssumption DEF ProcessInv, TypeOK, EnginesReleased
<1>2. life \notin {"down", "disposed"}
  BY DEF ProcessInv, Lifespan
<1>3. pools' \subseteq {engine} /\ pools' \subseteq 1..engines
  BY <1>1 DEF Connect, ProcessInv, TypeOK, EnginesReleased
<1> QED
  BY <1>1, <1>2, <1>3 DEF ProcessInv, EnginesReleased, Lifespan, process

(* Leaving frees all the handler's locals. *)
LEMMA LeaveStep ==
    ASSUME ProcessInv, NEW h \in Handlers, stage[h] # "idle", Leave(h),
           UNCHANGED <<process, globals, clients>>, pools' = pools \/ Connect(h),
           \/ UNCHANGED rows
           \/ \E status \in {"success", "failed"} :
                 rows[status] < MaxRows /\ rows' = [rows EXCEPT ![status] = @ + 1]
    PROVE  ProcessInv'
<1>1. rows' \in [Statuses -> 0..MaxRows] /\ rows'["timeout"] = 0
  BY LifecycleAssumption DEF ProcessInv, TypeOK, NoThirdStatus, Statuses
<1>2. /\ stage' = [stage EXCEPT ![h] = "idle"]
      /\ \A g \in Handlers \ {h} :
            /\ stage'[g] = stage[g] /\ session'[g] = session[g] /\ read'[g] = read[g]
      /\ stage'[h] = "idle"
      /\ stage' \in [Handlers -> {"idle", "redis", "query", "ping", "keys"}]
  BY DEF Leave, ProcessInv, TypeOK
<1>3. EnginesReleased' /\ Lifespan' /\ pools' \subseteq 1..engines'
  BY <1>2, HandlerStep DEF globals
<1>4. NoThirdStatus' /\ ReadsAddUp'
  <2>1. \A g \in Handlers : read'[g] = read[g] \/ read'[g] = Zeros
    BY DEF Leave, ProcessInv, TypeOK
  <2> QED
    BY <1>1, <2>1 DEF ProcessInv, NoThirdStatus, ReadsAddUp, Zeros
<1>5. TypeOK'
  <2>1. /\ kind' \in [Handlers -> Kinds] /\ session' \in [Handlers -> 0..engines']
        /\ read' \in [Handlers -> Counts]
    BY LifecycleAssumption
    DEF Leave, ProcessInv, TypeOK, globals, Kinds, Counts, Zeros
  <2> QED
    BY <1>1, <1>2, <1>3, <2>1 DEF ProcessInv, TypeOK, process, globals, Kinds, Counts
<1>6. ClientKnown' /\ \A g \in Handlers : stage'[g] \in {"query", "ping", "keys"} => redisClient' # 0
  BY <1>2 DEF ProcessInv, ClientKnown, globals
<1> QED
  BY <1>3, <1>4, <1>5, <1>6 DEF ProcessInv

LEMMA GetRedisStep ==
    ASSUME ProcessInv, NEW h \in Handlers, GetRedis(h)
    PROVE  ProcessInv'
<1>1. /\ stage[h] = "redis" /\ stage' = [stage EXCEPT ![h] = "query"]
      /\ UNCHANGED <<process, engine, maker, engines, pools, kind, session, read, rows>>
  BY DEF GetRedis
<1>2. /\ redisClient' # 0 /\ redisClient' \in 0..opened' /\ opened' \in Nat
      /\ clients' \subseteq 1..opened' /\ clients' = {redisClient'}
  <2>1. opened \in Nat /\ redisClient \in 0..opened /\ clients \subseteq 1..opened
    BY DEF ProcessInv, TypeOK
  <2>2. CASE redisClient = 0
    <3>1. opened' = opened + 1 /\ redisClient' = opened + 1 /\ clients' = {opened + 1}
      BY <2>2 DEF GetRedis, ProcessInv, ClientKnown
    <3> QED
      BY <2>1, <3>1
  <2>3. CASE redisClient # 0
    <3>1. UNCHANGED <<opened, redisClient, clients>> /\ clients = {redisClient}
      BY <2>3 DEF GetRedis, ProcessInv, ClientKnown
    <3> QED
      BY <2>1, <2>3, <3>1
  <2> QED
    BY <2>2, <2>3
<1>3. EnginesReleased' /\ Lifespan' /\ pools' \subseteq 1..engines'
  BY <1>1, HandlerStep DEF ProcessInv, TypeOK
<1>4. NoThirdStatus' /\ ReadsAddUp'
  BY <1>1 DEF ProcessInv, NoThirdStatus, ReadsAddUp
<1>5. TypeOK'
  BY <1>1, <1>2, <1>3 DEF ProcessInv, TypeOK, process, Kinds, Counts
<1>6. ClientKnown' /\ \A g \in Handlers : stage'[g] \in {"query", "ping", "keys"} => redisClient' # 0
  BY <1>2 DEF ClientKnown
<1> QED
  BY <1>3, <1>4, <1>5, <1>6 DEF ProcessInv

LEMMA QueryStep ==
    ASSUME ProcessInv, NEW h \in Handlers, Query(h)
    PROVE  ProcessInv'
<1>1. /\ stage[h] = "query" /\ \E s \in {"ping", "keys"} : stage' = [stage EXCEPT ![h] = s]
      /\ pools' = pools \/ Connect(h)
      /\ UNCHANGED <<process, globals, clients, kind, session, rows>>
  BY DEF Query
<1>2. read' = read \/ read' = [read EXCEPT ![h] = SelectCount]
  BY DEF Query
<1>3. /\ SelectCount \in Counts
      /\ SelectCount.total = SelectCount.success + SelectCount.failed
  BY LifecycleAssumption DEF SelectCount, Counts, Statuses, ProcessInv, TypeOK, NoThirdStatus
<1>4. EnginesReleased' /\ Lifespan' /\ pools' \subseteq 1..engines'
  BY <1>1, HandlerStep DEF globals, ProcessInv, TypeOK
<1>5. TypeOK'
  <2>1. read' \in [Handlers -> Counts]
    BY <1>2, <1>3 DEF ProcessInv, TypeOK
  <2> QED
    BY <1>1, <1>4, <2>1 DEF ProcessInv, TypeOK, process, globals, Kinds, Counts
<1>6. NoThirdStatus'
  BY <1>1 DEF ProcessInv, NoThirdStatus
<1>7. ReadsAddUp'
  <2>1. \A g \in Handlers : read'[g] = read[g] \/ read'[g] = SelectCount
    BY <1>2 DEF ProcessInv, TypeOK
  <2> QED
    BY <1>3, <2>1 DEF ProcessInv, ReadsAddUp
<1>8. ClientKnown' /\ \A g \in Handlers : stage'[g] \in {"query", "ping", "keys"} => redisClient' # 0
  BY <1>1 DEF ProcessInv, TypeOK, ClientKnown, globals
<1> QED
  BY <1>4, <1>5, <1>6, <1>7, <1>8 DEF ProcessInv

LEMMA ProcessStep == ProcessInv /\ [Next]_vars => ProcessInv'
<1> SUFFICES ASSUME ProcessInv, [Next]_vars PROVE ProcessInv'
  OBVIOUS
<1>1. ASSUME NEW h \in Handlers, Refuse(h) \/ Generate(h) \/ PingRedis(h) \/ Keys(h)
      PROVE  ProcessInv'
  BY <1>1, LeaveStep DEF Refuse, Generate, PingRedis, Keys, process, globals
<1>2. CASE UNCHANGED vars
  BY <1>2
  DEF vars, process, globals, ProcessInv, TypeOK, Lifespan, ClientKnown, NoThirdStatus,
      EnginesReleased, ReadsAddUp, Counts, Kinds
<1> QED
  BY <1>1, <1>2, LifespanStep, ArriveStep, GetRedisStep, QueryStep DEF Next, Progress

-----------------------------------------------------------------------------
(* The tool *)

(* The terminals that have committed a row and show its key next. *)
Showing == {t \in Terminals : step[t] = "refresh"}

LEMMA ShowingMoves ==
    ASSUME KeyTypeOK, NEW t \in Terminals, NEW s \in {"idle", "select", "commit", "refresh"},
           Goto(t, s)
    PROVE  /\ Cardinality(Showing) \in Nat /\ Cardinality(Showing') \in Nat
           /\ step[t] = "refresh" /\ s # "refresh" =>
                 Cardinality(Showing') = Cardinality(Showing) - 1
           /\ step[t] # "refresh" /\ s = "refresh" =>
                 Cardinality(Showing') = Cardinality(Showing) + 1
           /\ step[t] # "refresh" /\ s # "refresh" =>
                 Cardinality(Showing') = Cardinality(Showing)
<1>1. IsFiniteSet(Showing) /\ IsFiniteSet(Showing')
  BY KeyAdminAssumption, FS_Subset DEF Showing
<1>2. Cardinality(Showing) \in Nat /\ Cardinality(Showing') \in Nat
  BY <1>1, FS_CardinalityType
<1>3. step' = [step EXCEPT ![t] = s] /\ step \in [Terminals -> {"idle", "select", "commit", "refresh"}]
  BY DEF Goto, KeyTypeOK
<1>4. ASSUME step[t] = "refresh", s # "refresh"
      PROVE  Cardinality(Showing') = Cardinality(Showing) - 1
  <2>1. Showing' = Showing \ {t} /\ t \in Showing
    BY <1>3, <1>4 DEF Showing
  <2> QED
    BY <1>1, <2>1, FS_RemoveElement
<1>5. ASSUME step[t] # "refresh", s = "refresh"
      PROVE  Cardinality(Showing') = Cardinality(Showing) + 1
  <2>1. Showing' = Showing \cup {t} /\ t \notin Showing
    BY <1>3, <1>5 DEF Showing
  <2> QED
    BY <1>1, <2>1, FS_AddElement
<1>6. ASSUME step[t] # "refresh", s # "refresh"
      PROVE  Cardinality(Showing') = Cardinality(Showing)
  <2>1. Showing' = Showing
    BY <1>3, <1>6 DEF Showing
  <2> QED
    BY <2>1
<1> QED
  BY <1>2, <1>4, <1>5, <1>6

LEMMA KeyInitially == KeyInit => KeyInv
<1> SUFFICES ASSUME KeyInit PROVE KeyInv
  OBVIOUS
<1>1. Showing = {} /\ Cardinality({}) = 0
  BY FS_EmptySet DEF KeyInit, Showing
<1> QED
  BY <1>1 DEF KeyInit, KeyInv, KeyTypeOK, ShownIsStored, Showing

LEMMA KeyStep == KeyInv /\ [KeyNext]_keyVars => KeyInv'
<1> SUFFICES ASSUME KeyInv, [KeyNext]_keyVars PROVE KeyInv'
  OBVIOUS
<1>1. KeyTypeOK /\ stored \in Nat /\ shown \in Nat /\ shown + Cardinality(Showing) <= stored
  BY DEF KeyInv, KeyTypeOK, ShownIsStored, Showing
<1>2. ASSUME NEW t \in Terminals, NEW s \in {"idle", "select", "commit", "refresh"}, Goto(t, s),
             stored' \in Nat, shown' \in Nat,
             shown' + Cardinality(Showing') <= stored'
      PROVE  KeyInv'
  <2>1. KeyTypeOK'
    BY <1>1, <1>2 DEF KeyTypeOK, Goto
  <2> QED
    BY <1>2, <2>1 DEF KeyInv, ShownIsStored, Showing
<1>3. ASSUME NEW t \in Terminals, Begin(t) \/ Select(t) PROVE KeyInv'
  <2>1. /\ step[t] \in {"idle", "select"} /\ UNCHANGED <<stored, shown>>
        /\ Goto(t, "select") \/ Goto(t, "commit")
    BY <1>3 DEF Begin, Select
  <2> QED
    BY <1>1, <1>2, <2>1, ShowingMoves
<1>4. ASSUME NEW t \in Terminals, Commit(t) PROVE KeyInv'
  <2>1. Goto(t, "refresh") /\ step[t] = "commit" /\ stored' = stored + 1 /\ shown' = shown
    BY <1>4 DEF Commit
  <2> QED
    BY <1>1, <1>2, <2>1, ShowingMoves
<1>5. ASSUME NEW t \in Terminals, CommitUnheard(t) PROVE KeyInv'
  <2>1. Goto(t, "idle") /\ step[t] = "commit" /\ stored' = stored + 1 /\ shown' = shown
    BY <1>5 DEF CommitUnheard
  <2> QED
    BY <1>1, <1>2, <2>1, ShowingMoves
<1>6. ASSUME NEW t \in Terminals, Show(t) PROVE KeyInv'
  <2>1. Goto(t, "idle") /\ step[t] = "refresh" /\ stored' = stored /\ shown' = shown + 1
    BY <1>6 DEF Show
  <2> QED
    BY <1>1, <1>2, <2>1, ShowingMoves
<1>7. ASSUME NEW t \in Terminals, Fail(t) PROVE KeyInv'
  <2>1. Goto(t, "idle") /\ stored' = stored /\ shown' = shown
    BY <1>7 DEF Fail
  <2> QED
    BY <1>1, <1>2, <2>1, ShowingMoves
<1>8. CASE UNCHANGED keyVars
  BY <1>8 DEF keyVars, KeyInv, KeyTypeOK, ShownIsStored
<1> QED
  BY <1>3, <1>4, <1>5, <1>6, <1>7, <1>8 DEF KeyNext, Run

-----------------------------------------------------------------------------

LEMMA Invariance == OpsSpec => [](ProcessInv /\ KeyInv)
<1>1. OpsInit => ProcessInv /\ KeyInv
  BY ProcessInitially, KeyInitially DEF OpsInit
<1>2. ProcessInv /\ KeyInv /\ [OpsNext]_<<vars, keyVars>> => (ProcessInv /\ KeyInv)'
  <2> SUFFICES ASSUME ProcessInv, KeyInv, [OpsNext]_<<vars, keyVars>>
               PROVE  ProcessInv' /\ KeyInv'
    OBVIOUS
  <2>1. [Next]_vars /\ [KeyNext]_keyVars
    BY DEF OpsNext
  <2> QED
    BY <2>1, ProcessStep, KeyStep
<1> QED
  BY <1>1, <1>2, PTL DEF OpsSpec

(* Every variable keeps its type: an engine is created at most once in each *)
(* life of the process.                                                     *)
THEOREM TypeCorrect == OpsSpec => []OpsTypeOK
<1>1. ProcessInv /\ KeyInv => OpsTypeOK
  BY DEF ProcessInv, KeyInv, OpsTypeOK
<1> QED
  BY <1>1, Invariance, PTL

(* Shutdown disposes of the engine that every session was bound to          *)
(* (session.py:66-70).                                                      *)
THEOREM NoEngineLeft == OpsSpec => []EnginesReleased
<1>1. ProcessInv => EnginesReleased
  BY DEF ProcessInv
<1> QED
  BY <1>1, Invariance, PTL

(* The Redis client that shutdown does not close is the only one there is.  *)
THEOREM OneClient == OpsSpec => []OneRedisClient
BY ClientIsOne, Invariance, PTL

(* The numbers a scrape sends add up: they are read at one moment, and no   *)
(* row has the status /metrics has no number for.                           *)
THEOREM ScrapesAddUp == OpsSpec => []ScrapeAddsUp
<1>1. ProcessInv => ScrapeAddsUp
  BY DEF ProcessInv, ReadsAddUp, ScrapeAddsUp
<1> QED
  BY <1>1, Invariance, PTL

(* No operator is shown a key that is not stored.                           *)
THEOREM ShownAreStored == OpsSpec => []ShownIsStored
<1>1. KeyInv => ShownIsStored
  BY DEF KeyInv
<1> QED
  BY <1>1, Invariance, PTL
=============================================================================
