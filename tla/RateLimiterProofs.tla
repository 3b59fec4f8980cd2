------------------------- MODULE RateLimiterProofs -------------------------
(***************************************************************************)
(* What holds of the limiter for every number of workers, every limit,     *)
(* window, clock resolution and skew, and for both failure policies.       *)
(***************************************************************************)
EXTENDS RateLimiter, FiniteSetTheorems, SequenceTheorems, TLAPS

(* The window is a positive number of ticks. *)
LEMMA WindowPositive == Window \in Nat /\ Window > 0
BY LimiterAssumption, SMT DEF Window

(* Seconds are integers. *)
LEMMA SecondsInt == ASSUME NEW t \in Int PROVE ToSeconds(t) \in Int
BY LimiterAssumption, SMT DEF ToSeconds

(* A clock reading is an integer. *)
LEMMA HostClockInt == ASSUME TypeOK, NEW w \in Workers PROVE HostClock(w) \in Int
BY LimiterAssumption, SMT DEF TypeOK, HostClock

(* Pruning keeps a finite set of members. *)
LEMMA SurvivorsSubset ==
    ASSUME TypeOK, NEW w \in Workers
    PROVE  /\ Survivors(w) \subseteq zset
           /\ Survivors(w) \in SUBSET Member
           /\ IsFiniteSet(Survivors(w))
           /\ Cardinality(Survivors(w)) \in Nat
           /\ Cardinality(Survivors(w)) <= Cardinality(zset)
<1>1. Survivors(w) \in SUBSET zset
  BY DEF Survivors
<1>2. IsFiniteSet(Survivors(w)) /\ Cardinality(Survivors(w)) <= Cardinality(zset)
  BY <1>1, FS_Subset DEF TypeOK
<1> QED
  BY <1>1, <1>2, FS_CardinalityType DEF TypeOK

(* A charge adds one well-formed member. *)
LEMMA ChargeType ==
    ASSUME TypeOK, NEW w \in Workers, NEW salt \in Salts, Charge(w, salt)
    PROVE  /\ zset' \in SUBSET Member /\ IsFiniteSet(zset')
           /\ charged' \in SUBSET Member
           /\ expiresAt' \in Int
<1> DEFINE m == [score |-> now[w], salt |-> salt]
<1>1. m \in Member
  BY DEF TypeOK, Member
<1>2. zset' = zset \cup {m} /\ charged' = charged \cup {m}
  BY DEF Charge
<1>3. IsFiniteSet(zset \cup {m})
  BY FS_AddElement DEF TypeOK
<1>4. expiresAt' \in Int
  BY WindowPositive, LimiterAssumption DEF Charge, TypeOK
<1> QED
  BY <1>1, <1>2, <1>3, <1>4 DEF TypeOK

(* A verdict leaves the worker's locals well typed. *)
LEMMA DecideType ==
    ASSUME TypeOK, NEW w \in Workers, NEW t \in Int,
           NEW o \in {"none", "allowed", "degraded", "limited", "closed"}, Decide(w, o, t)
    PROVE  /\ pc' \in [Workers -> {"idle", "read", "add", "respond"}]
           /\ outcome' \in [Workers -> {"none", "allowed", "degraded", "limited", "closed"}]
           /\ resetAt' \in [Workers -> Int]
BY DEF TypeOK, Decide, Goto

(* The failure policy is a verdict. *)
LEMMA FailurePolicyType ==
    ASSUME TypeOK, NEW w \in Workers, FailurePolicy(w)
    PROVE  /\ pc' \in [Workers -> {"idle", "read", "add", "respond"}]
           /\ outcome' \in [Workers -> {"none", "allowed", "degraded", "limited", "closed"}]
           /\ resetAt' \in [Workers -> Int]
<1>1. now[w] + Window \in Int
  BY WindowPositive DEF TypeOK
<1> QED
  BY <1>1, DecideType DEF FailurePolicy

(* Every step keeps every variable in its type. *)
LEMMA TypeStep == TypeOK /\ [Next]_vars => TypeOK'
<1> SUFFICES ASSUME TypeOK, [Next]_vars PROVE TypeOK'
  OBVIOUS
<1>1. ASSUME NEW w \in Workers, Start(w) PROVE TypeOK'
  BY <1>1, HostClockInt DEF Start, Goto, NoHeader, TypeOK, redis
<1>2. ASSUME NEW w \in Workers, CountBelow(w) PROVE TypeOK'
  BY <1>2, SurvivorsSubset DEF CountBelow, Goto, NoHeader, TypeOK
<1>3. ASSUME NEW w \in Workers, CountAtLimit(w) PROVE TypeOK'
  <2>1. PICK t \in RefusalReset(w) : Decide(w, "limited", t)
    BY <1>3 DEF CountAtLimit
  <2>2. t \in Int
    BY <2>1, WindowPositive, SurvivorsSubset DEF RefusalReset, TypeOK, Member
  <2> QED
    BY <1>3, <2>1, <2>2, DecideType, SurvivorsSubset DEF CountAtLimit, NoHeader, TypeOK
<1>4. ASSUME NEW w \in Workers, AddMember(w) PROVE TypeOK'
  <2>1. PICK salt \in Salts : Charge(w, salt)
    BY <1>4 DEF AddMember
  <2>2. now[w] + Window \in Int
    BY WindowPositive DEF TypeOK
  <2> QED
    BY <1>4, <2>1, <2>2, ChargeType, DecideType DEF AddMember, NoHeader, TypeOK
<1>5. ASSUME NEW w \in Workers, ReadError(w) PROVE TypeOK'
  BY <1>5, SurvivorsSubset, FailurePolicyType DEF ReadError, NoHeader, TypeOK
<1>6. ASSUME NEW w \in Workers, AddError(w) PROVE TypeOK'
  <2>1. CASE UNCHANGED redis
    BY <1>6, <2>1, FailurePolicyType DEF AddError, NoHeader, TypeOK, redis
  <2>2. CASE \E salt \in Salts : Charge(w, salt)
    BY <1>6, <2>2, FailurePolicyType, ChargeType DEF AddError, NoHeader, TypeOK
  <2> QED
    BY <1>6, <2>1, <2>2 DEF AddError
<1>7. ASSUME NEW w \in Workers, Respond(w) PROVE TypeOK'
  <2>1. RetryAfter(w) \in Nat
    <3>1. resetAt[w] \in Int /\ HostClock(w) \in Int
      BY HostClockInt DEF TypeOK
    <3> QED
      BY <3>1, SecondsInt DEF RetryAfter
  <2> QED
    BY <1>7, <2>1 DEF Respond, Leave, Goto, TypeOK, redis
<1>8. ASSUME NEW w \in Workers, Crash(w) PROVE TypeOK'
  BY <1>8 DEF Crash, Leave, Goto, NoHeader, TypeOK, redis
<1>9. CASE Tick
  <2>1. IsFiniteSet({})
    BY FS_EmptySet
  <2> QED
    BY <1>9, <2>1 DEF Tick, NoHeader, TypeOK
<1>10. CASE RedisRestart
  <2>1. IsFiniteSet({})
    BY FS_EmptySet
  <2> DEFINE lost == [at |-> clock, charged |-> {m \in charged : InWindow(m)}]
             Lost == [at : Int, charged : SUBSET Member]
  <2>2. lost \in Lost
    BY DEF TypeOK
  <2>3. losses' = Append(losses, lost) /\ losses \in Seq(Lost)
    BY <1>10 DEF RedisRestart, TypeOK
  <2>4. losses' \in Seq(Lost) /\ Len(losses') = Len(losses) + 1
    BY <2>2, <2>3, AppendProperties
  <2>5. Len(losses') <= MaxRestarts
    BY <1>10, <2>3, <2>4, LimiterAssumption, LenProperties DEF RedisRestart
  <2> QED
    BY <1>10, <2>1, <2>4, <2>5 DEF RedisRestart, NoHeader, TypeOK
<1>11. CASE UNCHANGED vars
  BY <1>11 DEF vars, TypeOK
<1> QED
  BY <1>1, <1>2, <1>3, <1>4, <1>5, <1>6, <1>7, <1>8, <1>9, <1>10, <1>11
  DEF Next, Progress

(* The initial state is well typed. *)
LEMMA TypeInit == Init => TypeOK
<1>1. IsFiniteSet({})
  BY FS_EmptySet
<1>2. <<>> \in Seq([at : Int, charged : SUBSET Member]) /\ Len(<<>>) = 0
  BY EmptySeq
<1> QED
  BY <1>1, <1>2, LimiterAssumption DEF Init, TypeOK

(* Type correctness: every variable of the limiter keeps its type. *)
THEOREM TypeCorrect == Spec => []TypeOK
BY TypeInit, TypeStep, PTL DEF Spec

-----------------------------------------------------------------------------
(* Accounting is inductive relative to TypeOK. *)

Inv == TypeOK /\ Accounting

(* Cardinalities of the two finite sets Accounting adds up. *)
LEMMA Sizes ==
    ASSUME TypeOK
    PROVE  /\ Cardinality(zset) \in Nat
           /\ IsFiniteSet(Adding) /\ Cardinality(Adding) \in Nat
           /\ Cardinality(Workers) \in Nat \ {0}
           /\ Capacity \in Int
<1>1. IsFiniteSet(Adding)
  BY LimiterAssumption, FS_Subset DEF Adding
<1>2. Cardinality(zset) \in Nat /\ Cardinality(Adding) \in Nat
  BY <1>1, FS_CardinalityType DEF TypeOK
<1>3. Cardinality(Workers) \in Nat \ {0}
  BY LimiterAssumption, FS_CardinalityType, FS_EmptySet
<1> QED
  BY <1>1, <1>2, <1>3, LimiterAssumption DEF Capacity

(* Adding shrinks by w when w leaves "add". *)
LEMMA AddingLoses ==
    ASSUME TypeOK, NEW w \in Workers, pc[w] = "add", NEW l \in {"idle", "read", "respond"}, Goto(w, l)
    PROVE  Cardinality(Adding') = Cardinality(Adding) - 1
<1>1. Adding' = Adding \ {w} /\ w \in Adding
  BY DEF Adding, Goto, TypeOK
<1> QED
  BY <1>1, Sizes, FS_RemoveElement

(* Adding does not grow when a worker goes elsewhere than to "add". *)
LEMMA AddingShrinks ==
    ASSUME TypeOK, NEW w \in Workers, NEW l \in {"idle", "read", "respond"}, Goto(w, l)
    PROVE  Cardinality(Adding') \in Nat /\ Cardinality(Adding') <= Cardinality(Adding)
<1>1. Adding' \in SUBSET Adding
  BY DEF Adding, Goto, TypeOK
<1>2. IsFiniteSet(Adding') /\ Cardinality(Adding') <= Cardinality(Adding)
  BY <1>1, Sizes, FS_Subset
<1> QED
  BY <1>2, FS_CardinalityType

(* A worker that finds room joins Adding while at least one slot is its own: *)
(* the others can hold at most |Workers| - 1.                                *)
LEMMA AddingJoins ==
    ASSUME TypeOK, NEW w \in Workers, pc[w] = "read", Goto(w, "add")
    PROVE  Cardinality(Adding') \in Nat /\ Cardinality(Adding') <= Cardinality(Workers)
<1>1. Adding' \in SUBSET Workers
  BY DEF Adding
<1>2. IsFiniteSet(Adding') /\ Cardinality(Adding') <= Cardinality(Workers)
  BY <1>1, LimiterAssumption, FS_Subset
<1> QED
  BY <1>2, FS_CardinalityType

(* A record of a loss is well typed. *)
LEMMA LossType ==
    ASSUME TypeOK, NEW era \in 1..Len(losses)
    PROVE  losses[era].at \in Int /\ losses[era].charged \in SUBSET Member
<1>1. losses[era] \in [at : Int, charged : SUBSET Member]
  BY ElementOfSeq DEF TypeOK
<1> QED
  BY <1>1

(* What is lost stays accounted for while neither the clock moves nor more is lost. *)
LEMMA PastUnchanged ==
    ASSUME PastEras, UNCHANGED <<clock, losses>> PROVE PastEras'
<1>1. Capacity' = Capacity
  BY DEF Capacity
<1> QED
  BY <1>1 DEF PastEras, InWindow

(* A charge that is executed while its worker leaves "add" keeps Accounting. *)
LEMMA ChargeAccounting ==
    ASSUME Inv, NEW w \in Workers, NEW salt \in Salts, pc[w] = "add", Charge(w, salt),
           Goto(w, "respond"), UNCHANGED <<clock, losses, now>>
    PROVE  Accounting'
<1> DEFINE m == [score |-> now[w], salt |-> salt]
<1> USE DEF Inv
<1>1. zset' = zset \cup {m} /\ charged' = charged \cup {m}
  BY DEF Charge
<1>2. m.score \in Int /\ m.score <= clock + MaxSkew /\ clock \in Int /\ expiresAt \in Int
  BY DEF Accounting, TypeOK
<1>3. IsFiniteSet(charged') /\ zset' \subseteq charged'
  BY <1>1, FS_AddElement DEF Accounting
<1>4. (Cardinality(zset) + Cardinality(Adding) <= Capacity)'
  <2>1. Cardinality(zset') <= Cardinality(zset) + 1 /\ Cardinality(zset') \in Nat
    <3>1. IsFiniteSet(zset)
      BY DEF TypeOK
    <3>2. Cardinality(zset \cup {m}) = IF m \in zset THEN Cardinality(zset)
                                                   ELSE Cardinality(zset) + 1
      BY <3>1, FS_AddElement
    <3> QED
      BY <1>1, <3>2, Sizes
  <2>2. Cardinality(Adding') = Cardinality(Adding) - 1
    BY AddingLoses
  <2>3. Capacity' = Capacity
    BY DEF Capacity
  <2> QED
    BY <2>1, <2>2, <2>3, Sizes DEF Accounting
<1>5. \A c \in charged' : c.score <= clock' + MaxSkew
  BY <1>1, <1>2 DEF Accounting
<1>6. \A v \in Workers : pc'[v] # "idle" => now'[v] <= clock' + MaxSkew
  BY DEF Accounting, Goto, TypeOK
<1>7. \A c \in zset' : c.score <= expiresAt' + MaxSkew - Window - TicksPerSecond
  <2>1. expiresAt' = clock + Window + TicksPerSecond
    BY DEF Charge
  <2>2. \A c \in zset' : c.score \in Int /\ c.score <= clock + MaxSkew
    BY <1>1, <1>2 DEF Accounting, TypeOK, Member
  <2> QED
    BY <1>2, <2>1, <2>2, WindowPositive, LimiterAssumption
<1>8. NoEarlyEviction'
  BY <1>1 DEF Accounting, NoEarlyEviction, InWindow
<1> QED
  BY <1>3, <1>4, <1>5, <1>6, <1>7, <1>8, PastUnchanged DEF Accounting

(* Pruning by a worker's own clock keeps Accounting, unless it joins Adding. *)
LEMMA PruneAccounting ==
    ASSUME Inv, NEW w \in Workers, pc[w] = "read", zset' \in {zset, Survivors(w)},
           UNCHANGED <<clock, expiresAt, charged, losses, now>>,
           NEW l \in {"add", "respond"}, Goto(w, l),
           (Cardinality(zset) + Cardinality(Adding) <= Capacity)'
    PROVE  Accounting'
<1> USE DEF Inv
<1>1. zset' \subseteq zset
  BY SurvivorsSubset
<1>2. IsFiniteSet(charged') /\ zset' \subseteq charged'
  BY <1>1 DEF Accounting
<1>3. \A c \in charged' : c.score <= clock' + MaxSkew
  BY DEF Accounting
<1>4. \A v \in Workers : pc'[v] # "idle" => now'[v] <= clock' + MaxSkew
  BY DEF Accounting, Goto, TypeOK
<1>5. \A c \in zset' : c.score <= expiresAt' + MaxSkew - Window - TicksPerSecond
  BY <1>1 DEF Accounting
<1>6. NoEarlyEviction'
  <2>1. now[w] \in Int /\ now[w] <= clock + MaxSkew /\ clock \in Int
    BY DEF Accounting, TypeOK
  <2>2. SUFFICES ASSUME NEW c \in charged, c.score > clock + MaxSkew - Window
                 PROVE  c \in zset'
    BY DEF NoEarlyEviction, InWindow
  <2>3. c \in zset /\ c.score \in Int
    BY <2>2 DEF Accounting, NoEarlyEviction, InWindow, TypeOK, Member
  <2>4. c.score > now[w] - Window
    BY <2>1, <2>2, <2>3, WindowPositive, LimiterAssumption
  <2> QED
    BY <2>3, <2>4 DEF Survivors
<1> QED
  BY <1>2, <1>3, <1>4, <1>5, <1>6, PastUnchanged DEF Accounting

(* Pruning while the worker goes elsewhere than to "add" frees slots only. *)
LEMMA PruneKeepsSlots ==
    ASSUME Inv, NEW w \in Workers, zset' \in {zset, Survivors(w)}, Goto(w, "respond")
    PROVE  (Cardinality(zset) + Cardinality(Adding) <= Capacity)'
<1> USE DEF Inv
<1>1. Cardinality(zset') \in Nat /\ Cardinality(zset') <= Cardinality(zset)
  BY SurvivorsSubset, Sizes
<1>2. Cardinality(Adding') \in Nat /\ Cardinality(Adding') <= Cardinality(Adding)
  BY AddingShrinks
<1>3. Capacity' = Capacity
  BY DEF Capacity
<1> QED
  BY <1>1, <1>2, <1>3, Sizes DEF Accounting

(* A step that touches neither Redis nor the clock keeps Accounting if it *)
(* sends no worker to "add" and samples no time later than the clock's.   *)
LEMMA LocalAccounting ==
    ASSUME Inv, NEW w \in Workers, UNCHANGED <<clock, redis, losses>>,
           NEW l \in {"idle", "read", "respond"}, Goto(w, l),
           \A v \in Workers : pc'[v] # "idle" => now'[v] <= clock + MaxSkew
    PROVE  Accounting'
<1> USE DEF Inv
<1>1. Cardinality(Adding') \in Nat /\ Cardinality(Adding') <= Cardinality(Adding)
  BY AddingShrinks
<1>2. Capacity' = Capacity
  BY DEF Capacity
<1>3. (Cardinality(zset) + Cardinality(Adding) <= Capacity)'
  BY <1>1, <1>2, Sizes DEF Accounting, redis
<1> QED
  BY <1>3, PastUnchanged DEF Accounting, redis, NoEarlyEviction, InWindow

(* Every step keeps the accounting. *)
LEMMA AccountingStep == Inv /\ [Next]_vars => Accounting'
<1> SUFFICES ASSUME Inv, [Next]_vars PROVE Accounting'
  OBVIOUS
<1> USE DEF Inv
<1>1. ASSUME NEW w \in Workers, Start(w) PROVE Accounting'
  <2>1. HostClock(w) <= clock + MaxSkew
    BY LimiterAssumption DEF HostClock, TypeOK
  <2>2. \A v \in Workers : pc'[v] # "idle" => now'[v] <= clock + MaxSkew
    BY <1>1, <2>1 DEF Start, Goto, TypeOK, Accounting
  <2> QED
    BY <1>1, <2>2, LocalAccounting DEF Start
<1>2. ASSUME NEW w \in Workers, CountBelow(w) PROVE Accounting'
  <2>1. Cardinality(zset') \in Nat /\ Cardinality(zset') < Limit
    BY <1>2, SurvivorsSubset DEF CountBelow, HasRoom
  <2>2. Cardinality(Adding') \in Nat /\ Cardinality(Adding') <= Cardinality(Workers)
    BY <1>2, AddingJoins DEF CountBelow
  <2>3. Capacity' = Limit + Cardinality(Workers) - 1
    BY <2>1, LimiterAssumption DEF Capacity
  <2>4. (Cardinality(zset) + Cardinality(Adding) <= Capacity)'
    BY <2>1, <2>2, <2>3, Sizes, LimiterAssumption
  <2> QED
    BY <1>2, <2>4, PruneAccounting DEF CountBelow
<1>3. ASSUME NEW w \in Workers, CountAtLimit(w) PROVE Accounting'
  BY <1>3, PruneKeepsSlots, PruneAccounting DEF CountAtLimit, Decide
<1>4. ASSUME NEW w \in Workers, AddMember(w) PROVE Accounting'
  BY <1>4, ChargeAccounting DEF AddMember, Decide
<1>5. ASSUME NEW w \in Workers, ReadError(w) PROVE Accounting'
  BY <1>5, PruneKeepsSlots, PruneAccounting DEF ReadError, FailurePolicy, Decide
<1>6. ASSUME NEW w \in Workers, AddError(w) PROVE Accounting'
  <2>1. CASE UNCHANGED redis
    <3>1. \A v \in Workers : pc'[v] # "idle" => now'[v] <= clock + MaxSkew
      BY <1>6 DEF AddError, FailurePolicy, Decide, Goto, TypeOK, Accounting
    <3> QED
      BY <1>6, <2>1, <3>1, LocalAccounting DEF AddError, FailurePolicy, Decide
  <2>2. CASE \E salt \in Salts : Charge(w, salt)
    BY <1>6, <2>2, ChargeAccounting DEF AddError, FailurePolicy, Decide
  <2> QED
    BY <1>6, <2>1, <2>2 DEF AddError
<1>7. ASSUME NEW w \in Workers, Respond(w) \/ Crash(w) PROVE Accounting'
  <2>1. Leave(w) /\ UNCHANGED <<clock, redis, losses>>
    BY <1>7 DEF Respond, Crash
  <2>2. \A v \in Workers : pc'[v] # "idle" => now'[v] <= clock + MaxSkew
    BY <2>1 DEF Leave, Goto, TypeOK, Accounting
  <2> QED
    BY <2>1, <2>2, LocalAccounting DEF Leave
<1>8. CASE Tick
  <2>1. Adding' = Adding /\ Capacity' = Capacity
    BY <1>8 DEF Tick, Adding, Capacity
  <2>2. zset' \in SUBSET zset /\ Cardinality(zset') \in Nat /\ Cardinality(zset') <= Cardinality(zset)
    BY <1>8, Sizes, FS_EmptySet DEF Tick, TypeOK
  <2>3. NoEarlyEviction'
    <3>1. SUFFICES ASSUME NEW c \in charged, c.score > clock + 1 + MaxSkew - Window
                   PROVE  c \in zset'
      BY <1>8 DEF Tick, NoEarlyEviction, InWindow
    <3>2. c.score \in Int /\ clock \in Int /\ expiresAt \in Int
      BY <3>1 DEF TypeOK, Member
    <3>3. c \in zset
      BY <3>1, <3>2, WindowPositive, LimiterAssumption
      DEF Accounting, NoEarlyEviction, InWindow
    <3>4. c.score <= expiresAt + MaxSkew - Window - TicksPerSecond
      BY <3>3 DEF Accounting
    <3>5. ~(clock + 1 >= expiresAt)
      BY <3>1, <3>2, <3>4, WindowPositive, LimiterAssumption
    <3> QED
      BY <1>8, <3>3, <3>5 DEF Tick
  <2>4. \A c \in charged' : c.score <= clock' + MaxSkew
    BY <1>8, LimiterAssumption DEF Tick, Accounting, TypeOK, Member
  <2>5. \A v \in Workers : pc'[v] # "idle" => now'[v] <= clock' + MaxSkew
    BY <1>8, LimiterAssumption DEF Tick, Accounting, TypeOK
  <2>6. IsFiniteSet(charged') /\ zset' \subseteq charged'
    BY <1>8, <2>2 DEF Tick, Accounting
  <2>7. \A c \in zset' : c.score <= expiresAt' + MaxSkew - Window - TicksPerSecond
    BY <1>8, <2>2 DEF Tick, Accounting
  <2>8. (Cardinality(zset) + Cardinality(Adding) <= Capacity)'
    BY <2>1, <2>2, Sizes DEF Accounting
  <2>9. PastEras'
    <3>1. SUFFICES ASSUME NEW era \in 1..Len(losses)
                   PROVE  LET old == losses[era]
                          IN  /\ old.at <= clock + 1
                              /\ IsFiniteSet(old.charged)
                              /\ \A m \in old.charged : m.score <= old.at + MaxSkew
                              /\ Cardinality({m \in old.charged :
                                               m.score > clock + 1 + MaxSkew - Window}) <= Capacity
      BY <1>8, <2>1 DEF Tick, PastEras, InWindow
    <3> DEFINE before == {m \in losses[era].charged : InWindow(m)}
               after == {m \in losses[era].charged : m.score > clock + 1 + MaxSkew - Window}
    <3>2. /\ losses[era].at <= clock /\ IsFiniteSet(losses[era].charged)
          /\ \A m \in losses[era].charged : m.score <= losses[era].at + MaxSkew
          /\ Cardinality(before) <= Capacity
      BY DEF Accounting, PastEras
    <3>3. after \in SUBSET before /\ before \in SUBSET losses[era].charged
      BY LossType, WindowPositive, LimiterAssumption DEF InWindow, TypeOK, Member
    <3>4. IsFiniteSet(before) /\ IsFiniteSet(after) /\ Cardinality(after) <= Cardinality(before)
      BY <3>2, <3>3, FS_Subset
    <3>5. Cardinality(before) \in Nat /\ Cardinality(after) \in Nat
      BY <3>4, FS_CardinalityType
    <3>6. Cardinality(after) <= Capacity
      BY <3>2, <3>4, <3>5, Sizes
    <3>7. losses[era].at <= clock + 1
      BY <3>2, LossType DEF TypeOK
    <3> QED
      BY <3>2, <3>6, <3>7
  <2> QED
    BY <2>3, <2>4, <2>5, <2>6, <2>7, <2>8, <2>9 DEF Accounting
<1>9. CASE RedisRestart
  <2>1. Adding' = Adding /\ Capacity' = Capacity
    BY <1>9 DEF RedisRestart, Adding, Capacity
  <2>2. Cardinality(zset') = 0 /\ IsFiniteSet(charged')
    BY <1>9, FS_EmptySet DEF RedisRestart
  <2>3. (Cardinality(zset) + Cardinality(Adding) <= Capacity)'
    BY <2>1, <2>2, Sizes DEF Accounting
  <2> DEFINE lost == [at |-> clock, charged |-> {m \in charged : InWindow(m)}]
             Lost == [at : Int, charged : SUBSET Member]
  <2>4. /\ Len(losses') = Len(losses) + 1 /\ Len(losses) \in Nat
        /\ \A era \in 1..Len(losses) : losses'[era] = losses[era]
        /\ losses'[Len(losses) + 1] = lost
    <3>1. lost \in Lost /\ losses \in Seq(Lost)
      BY DEF TypeOK
    <3>2. losses' = Append(losses, lost)
      BY <1>9 DEF RedisRestart
    <3> QED
      BY <3>1, <3>2, AppendProperties, LenProperties
  <2>5. /\ IsFiniteSet(lost.charged)
        /\ \A m \in lost.charged : m.score <= clock + MaxSkew
        /\ Cardinality({m \in lost.charged : InWindow(m)}) <= Capacity
    <3>1. lost.charged \in SUBSET zset /\ IsFiniteSet(zset)
      BY DEF Accounting, NoEarlyEviction, TypeOK
    <3>2. IsFiniteSet(lost.charged) /\ Cardinality(lost.charged) <= Cardinality(zset)
      BY <3>1, FS_Subset
    <3>3. {m \in lost.charged : InWindow(m)} = lost.charged /\ Cardinality(lost.charged) \in Nat
      BY <3>2, FS_CardinalityType
    <3>4. Cardinality(lost.charged) <= Capacity
      BY <3>2, <3>3, Sizes DEF Accounting
    <3>5. \A m \in lost.charged : m.score <= clock + MaxSkew
      BY DEF Accounting
    <3> QED
      BY <3>2, <3>3, <3>4, <3>5
  <2>6. PastEras'
    <3>1. SUFFICES ASSUME NEW era \in 1..(Len(losses) + 1)
                   PROVE  LET old == losses'[era]
                          IN  /\ old.at <= clock
                              /\ IsFiniteSet(old.charged)
                              /\ \A m \in old.charged : m.score <= old.at + MaxSkew
                              /\ Cardinality({m \in old.charged : InWindow(m)}) <= Capacity
      BY <1>9, <2>1, <2>4 DEF RedisRestart, PastEras, InWindow
    <3>2. CASE era \in 1..Len(losses)
      BY <3>2, <2>4 DEF Accounting, PastEras
    <3>3. CASE era = Len(losses) + 1
      <4>1. losses'[era] = lost /\ lost.at = clock /\ clock <= clock
        BY <3>3, <2>4 DEF TypeOK
      <4> QED
        BY <4>1, <2>5
    <3> QED
      BY <3>1, <3>2, <3>3, <2>4
  <2> QED
    BY <1>9, <2>2, <2>3, <2>6 DEF RedisRestart, Accounting, NoEarlyEviction
<1>10. CASE UNCHANGED vars
  <2>1. Adding' = Adding /\ Capacity' = Capacity
    BY <1>10 DEF vars, Adding, Capacity
  <2> QED
    BY <1>10, <2>1, PastUnchanged DEF vars, Accounting, NoEarlyEviction, InWindow
<1> QED
  BY <1>1, <1>2, <1>3, <1>4, <1>5, <1>6, <1>7, <1>8, <1>9, <1>10
  DEF Next, Progress

(* The accounting starts out right. *)
LEMMA AccountingInit == Init => Accounting
<1> SUFFICES ASSUME Init PROVE Accounting
  OBVIOUS
<1>1. TypeOK
  BY TypeInit
<1>2. Adding = {} /\ zset = {} /\ charged = {}
  BY DEF Init, Adding
<1>3. IsFiniteSet({}) /\ Cardinality({}) = 0
  BY FS_EmptySet
<1>4. 0 <= Capacity
  BY <1>1, Sizes, LimiterAssumption DEF Capacity
<1>5. Cardinality(zset) + Cardinality(Adding) <= Capacity
  BY <1>2, <1>3, <1>4, <1>1, Sizes
<1>6. PastEras
  <2>1. Len(losses) = 0
    BY EmptySeq DEF Init
  <2> QED
    BY <2>1 DEF PastEras
<1> QED
  BY <1>2, <1>3, <1>5, <1>6 DEF Init, Accounting, NoEarlyEviction

(* Type correctness and the accounting hold together in every behaviour. *)
THEOREM Invariant == Spec => []Inv
<1>1. Init => Inv
  BY TypeInit, AccountingInit DEF Inv
<1>2. Inv /\ [Next]_vars => Inv'
  BY TypeStep, AccountingStep DEF Inv
<1> QED
  BY <1>1, <1>2, PTL DEF Spec

(* No charge is forgotten while it is certainly within the window, however  *)
(* the workers' pruning and the key's TTL interleave and whatever the skew. *)
THEOREM EvictionSafe == Spec => []NoEarlyEviction
<1>1. Inv => NoEarlyEviction
  BY DEF Inv, Accounting
<1> QED
  BY <1>1, Invariant, PTL

(* Within each era at most Capacity charges are certainly within the window. *)
LEMMA EraBounded ==
    ASSUME Inv, NEW era \in 1..(Len(losses) + 1)
    PROVE  LET A == {m \in ChargedIn(era) : InWindow(m)}
           IN  IsFiniteSet(A) /\ Cardinality(A) \in Nat /\ Cardinality(A) <= Capacity
<1> DEFINE A == {m \in ChargedIn(era) : InWindow(m)}
<1> USE DEF Inv
<1>1. CASE era <= Len(losses)
  <2>1. era \in 1..Len(losses) /\ ChargedIn(era) = losses[era].charged
    BY <1>1, LenProperties DEF ChargedIn, TypeOK
  <2>2. IsFiniteSet(losses[era].charged) /\ Cardinality(A) <= Capacity
    BY <2>1 DEF Accounting, PastEras
  <2>3. A \in SUBSET losses[era].charged
    BY <2>1
  <2>4. IsFiniteSet(A)
    BY <2>2, <2>3, FS_Subset
  <2> QED
    BY <2>2, <2>4, FS_CardinalityType
<1>2. CASE ~(era <= Len(losses))
  <2>1. A \in SUBSET zset /\ IsFiniteSet(zset)
    BY <1>2 DEF ChargedIn, Accounting, NoEarlyEviction, TypeOK
  <2>2. IsFiniteSet(A) /\ Cardinality(A) <= Cardinality(zset)
    BY <2>1, FS_Subset
  <2>3. Cardinality(A) \in Nat
    BY <2>2, FS_CardinalityType
  <2> QED
    BY <2>2, <2>3, Sizes DEF Accounting
<1> QED
  BY <1>1, <1>2

(* A set of at most n elements can be numbered with 1..n. *)
LEMMA Numbering ==
    ASSUME NEW S, IsFiniteSet(S), NEW n \in Nat, Cardinality(S) <= n
    PROVE  \E f \in [S -> 1..n] : \A x, y \in S : f[x] = f[y] => x = y
<1>1. Cardinality(S) \in Nat /\ ExistsBijection(1..Cardinality(S), S)
  BY FS_CardinalityType
<1>2. PICK g \in Bijection(1..Cardinality(S), S) : TRUE
  BY <1>1 DEF ExistsBijection
<1>3. /\ g \in [1..Cardinality(S) -> S]
      /\ \A x \in S : \E i \in 1..Cardinality(S) : g[i] = x
  BY <1>2 DEF Bijection, Surjection, Injection
<1> DEFINE f == [x \in S |-> CHOOSE i \in 1..Cardinality(S) : g[i] = x]
<1>4. \A x \in S : f[x] \in 1..Cardinality(S) /\ g[f[x]] = x
  BY <1>3
<1>5. f \in [S -> 1..n]
  BY <1>1, <1>4
<1>6. \A x, y \in S : f[x] = f[y] => x = y
  BY <1>4
<1> HIDE DEF f
<1> QED
  BY <1>5, <1>6

(* The charges certainly within the window: a losing era that has any ended *)
(* within the window too.                                                   *)
LEMMA RecentEras ==
    ASSUME Inv, NEW p \in Recent
    PROVE  /\ p = <<p[1], p[2]>>
           /\ p[1] \in LossesInWindow \cup {Len(losses) + 1}
           /\ p[2] \in {m \in ChargedIn(p[1]) : InWindow(m)}
<1> USE DEF Inv
<1>1. PICK era \in 1..(Len(losses) + 1) : p \in {era} \X {m \in ChargedIn(era) : InWindow(m)}
  BY DEF Recent
<1>2. p = <<p[1], p[2]>> /\ p[1] = era /\ p[2] \in ChargedIn(era) /\ InWindow(p[2])
  BY <1>1
<1>3. CASE era \in 1..Len(losses)
  <2>1. p[2] \in losses[era].charged
    BY <1>2, <1>3, LenProperties DEF ChargedIn, TypeOK
  <2>2. p[2].score <= losses[era].at + MaxSkew
    BY <1>3, <2>1 DEF Accounting, PastEras
  <2>3. losses[era].at \in Int /\ p[2].score \in Int /\ clock \in Int
    BY <1>3, <2>1, LossType DEF TypeOK, Member
  <2> DEFINE score == p[2].score
             at == losses[era].at
  <2>4. at > clock - Window
    <3>1. score > clock + MaxSkew - Window
      BY <1>2 DEF InWindow
    <3>2. /\ score \in Int /\ at \in Int /\ clock \in Int /\ Window \in Int /\ MaxSkew \in Int
          /\ score <= at + MaxSkew
      BY <2>2, <2>3, WindowPositive, LimiterAssumption
    <3> HIDE DEF score, at
    <3> QED
      BY <3>1, <3>2
  <2> QED
    BY <1>2, <1>3, <2>4 DEF LossesInWindow
<1>4. CASE era = Len(losses) + 1
  BY <1>2, <1>4
<1> QED
  BY <1>3, <1>4, LenProperties DEF TypeOK

(* The check-then-add race never puts more than one charge per other worker *)
(* on top of the limit into one window, or into what is left of one after   *)
(* Redis lost its data: each loss forgets Capacity charges at the most.     *)
THEOREM AdmissionBounded == Spec => []OverAdmissionBound
<1>1. ASSUME Inv PROVE OverAdmissionBound
  <2> USE <1>1
  <2> DEFINE Eras == LossesInWindow \cup {Len(losses) + 1}
             In(era) == {m \in ChargedIn(era) : InWindow(m)}
  <2>1. Len(losses) \in Nat /\ Capacity \in Nat
    <3>1. IsFiniteSet(zset) /\ Len(losses) \in Nat
      BY LenProperties DEF Inv, TypeOK
    <3> QED
      BY <3>1, Sizes DEF Inv, Accounting
  <2>2. LossesInWindow \in SUBSET (1..Len(losses)) /\ IsFiniteSet(1..Len(losses))
    <3>1. LossesInWindow \in SUBSET (1..Len(losses))
      BY DEF LossesInWindow
    <3> QED
      BY <2>1, <3>1, FS_Interval
  <2>3. /\ IsFiniteSet(LossesInWindow) /\ Cardinality(LossesInWindow) \in Nat
        /\ ~(Len(losses) + 1 \in LossesInWindow)
    <3>1. IsFiniteSet(LossesInWindow)
      BY <2>2, FS_Subset
    <3>2. ~(Len(losses) + 1 \in LossesInWindow)
      BY <2>1, <2>2
    <3> QED
      BY <3>1, <3>2, FS_CardinalityType
  <2>4. IsFiniteSet(Eras) /\ Cardinality(Eras) = 1 + Cardinality(LossesInWindow)
    <3> HIDE DEF Eras
    <3>1. Eras = LossesInWindow \cup {Len(losses) + 1}
      BY DEF Eras
    <3> QED
      BY <2>3, <3>1, FS_AddElement
  <2>5. \A era \in Eras : \E f \in [In(era) -> 1..Capacity] :
                            \A x, y \in In(era) : f[x] = f[y] => x = y
    <3>1. ASSUME NEW era \in Eras PROVE era \in 1..(Len(losses) + 1)
      BY <2>1, <2>2
    <3> QED
      BY <3>1, <2>1, EraBounded, Numbering
  <2> DEFINE number == [era \in Eras |->
                          CHOOSE f \in [In(era) -> 1..Capacity] :
                             \A x, y \in In(era) : f[x] = f[y] => x = y]
             place == [p \in Recent |-> <<p[1], number[p[1]][p[2]]>>]
  <2>6. \A era \in Eras : /\ number[era] \in [In(era) -> 1..Capacity]
                          /\ \A x, y \in In(era) : number[era][x] = number[era][y] => x = y
    BY <2>5
  <2>7. \A p \in Recent : p = <<p[1], p[2]>> /\ p[1] \in Eras /\ p[2] \in In(p[1])
    BY RecentEras
  <2>8. place \in Injection(Recent, Eras \X (1..Capacity))
    <3> HIDE DEF number, Eras, In
    <3>1. place \in [Recent -> Eras \X (1..Capacity)]
      BY <2>6, <2>7
    <3>2. ASSUME NEW p \in Recent, NEW q \in Recent, place[p] = place[q] PROVE p = q
      <4>1. p[1] = q[1] /\ number[p[1]][p[2]] = number[p[1]][q[2]]
        BY <3>2
      <4>2. p[2] = q[2]
        BY <4>1, <2>6, <2>7
      <4> QED
        BY <4>1, <4>2, <2>7
    <3> QED
      BY <3>1, <3>2 DEF Injection, IsInjective
  <2>9. /\ IsFiniteSet(Eras \X (1..Capacity))
        /\ Cardinality(Eras \X (1..Capacity)) = Cardinality(Eras) * Capacity
    <3>1. IsFiniteSet(1..Capacity) /\ Cardinality(1..Capacity) = Capacity
      BY <2>1, FS_Interval
    <3> QED
      BY <2>4, <3>1, FS_Product
  <2>10. Cardinality(Recent) <= Cardinality(Eras) * Capacity
    BY <2>8, <2>9, FS_Injection
  <2>11. Cardinality(Eras) * Capacity = Capacity * (1 + Cardinality(LossesInWindow))
    BY <2>1, <2>3, <2>4
  <2> QED
    BY <2>10, <2>11 DEF OverAdmissionBound
<1> QED
  BY <1>1, Invariant, PTL

(* A gateway that handles one request at a time enforces the quota exactly, *)
(* unless Redis lost its data within the window.                            *)
THEOREM SerialQuotaExact ==
    ASSUME Cardinality(Workers) = 1
    PROVE  Spec => [](LossesInWindow = {} => QuotaExact)
<1>1. Capacity = IF Limit > 0 THEN Limit ELSE 0
  BY LimiterAssumption DEF Capacity
<1>2. OverAdmissionBound => (LossesInWindow = {} => QuotaExact)
  BY <1>1, FS_EmptySet, LimiterAssumption DEF OverAdmissionBound, QuotaExact
<1> QED
  BY <1>2, AdmissionBounded, PTL

(* A refusal is earned: Limit charges fall between the start of the window  *)
(* the refused request looked at and the moment it was counted.             *)
THEOREM RefusalsJustified == Spec => RejectionJustified
<1> DEFINE A == \A w \in Workers :
                  (pc[w] = "read" /\ pc'[w] = "respond" /\ outcome'[w] = "limited") => Earned(w)
<1>1. ASSUME Inv, [Next]_vars PROVE [A]_vars
  <2> SUFFICES ASSUME Next, NEW w \in Workers,
                      pc[w] = "read", pc'[w] = "respond", outcome'[w] = "limited"
               PROVE  Earned(w)
    BY <1>1
  <2> DEFINE W == {m \in charged : now[w] - Window < m.score /\ m.score <= clock + MaxSkew}
  <2>1. CountAtLimit(w)
    <3>1. ASSUME NEW v \in Workers, Start(v) \/ CountBelow(v) \/ Respond(v) \/ Crash(v)
          PROVE  FALSE
      BY <3>1, <1>1 DEF Start, CountBelow, Respond, Crash, Leave, Goto, Inv, TypeOK
    <3>2. ASSUME NEW v \in Workers, ReadError(v) PROVE FALSE
      BY <3>2, <1>1 DEF ReadError, FailurePolicy, Decide, Goto, Inv, TypeOK
    <3>3. ASSUME NEW v \in Workers, AddMember(v) \/ AddError(v) PROVE FALSE
      BY <3>3, <1>1 DEF AddMember, AddError, FailurePolicy, Decide, Goto, Inv, TypeOK
    <3>4. ASSUME NEW v \in Workers, CountAtLimit(v) PROVE v = w
      BY <3>4, <1>1 DEF CountAtLimit, Decide, Goto, Inv, TypeOK
    <3>5. ~Tick /\ ~RedisRestart
      BY DEF Tick, RedisRestart
    <3> QED
      BY <3>1, <3>2, <3>3, <3>4, <3>5 DEF Next, Progress
  <2>2. Survivors(w) \in SUBSET W
    BY <1>1, WindowPositive DEF Inv, Accounting, Survivors, TypeOK, Member
  <2>3. IsFiniteSet(W)
    <3>1. W \in SUBSET charged
      OBVIOUS
    <3> QED
      BY <1>1, <3>1, FS_Subset DEF Inv, Accounting
  <2>4. Cardinality(Survivors(w)) <= Cardinality(W) /\ Cardinality(W) \in Nat
    BY <2>2, <2>3, FS_Subset, FS_CardinalityType
  <2>5. Cardinality(Survivors(w)) >= Limit /\ Cardinality(Survivors(w)) \in Nat
    BY <1>1, <2>1, SurvivorsSubset, LimiterAssumption DEF CountAtLimit, HasRoom, Inv
  <2> QED
    BY <2>4, <2>5, LimiterAssumption DEF Earned
<1> QED
  BY <1>1, Invariant, PTL DEF RejectionJustified, Spec

-----------------------------------------------------------------------------
(* Retry-After *)

(* int() loses less than a second, and never goes beyond the time it is given. *)
LEMMA Truncates ==
    ASSUME NEW t \in Int
    PROVE  /\ ToSeconds(t) * TicksPerSecond <= t
           /\ t < ToSeconds(t) * TicksPerSecond + TicksPerSecond
BY LimiterAssumption DEF ToSeconds

(* The seconds between two times, each truncated and one at the least, miss *)
(* the time between them by less than a second.                             *)
LEMMA WaitMissesByLess ==
    ASSUME NEW w \in Workers, TypeOK
    PROVE  LET back == HostClock(w) + RetryAfter(w) * TicksPerSecond
           IN  /\ back > resetAt[w] - TicksPerSecond
               /\ back < resetAt[w] + TicksPerSecond \/ RetryAfter(w) = 1
<1> DEFINE end == ToSeconds(resetAt[w])
           start == ToSeconds(HostClock(w))
           d == TicksPerSecond
<1>1. resetAt[w] \in Int /\ HostClock(w) \in Int
  BY HostClockInt DEF TypeOK
<1>2. end \in Int /\ start \in Int /\ d \in Nat \ {0}
  BY <1>1, SecondsInt, LimiterAssumption
<1>3. /\ end * d <= resetAt[w] /\ resetAt[w] < end * d + d
      /\ start * d <= HostClock(w) /\ HostClock(w) < start * d + d
  BY <1>1, Truncates
<1>4. (end - start) * d = end * d - start * d /\ end * d \in Int /\ start * d \in Int
  BY <1>2
<1>5. CASE end - start > 1
  <2>1. RetryAfter(w) = end - start
    BY <1>5 DEF RetryAfter
  <2> HIDE DEF end, start, d
  <2> QED
    BY <1>1, <1>2, <1>3, <1>4, <2>1 DEF d
<1>6. CASE ~(end - start > 1)
  <2>1. RetryAfter(w) = 1
    BY <1>6 DEF RetryAfter
  <2>2. end * d <= start * d + d
    <3>1. end <= start + 1
      BY <1>2, <1>6
    <3> HIDE DEF end, start, d
    <3>2. end * d <= (start + 1) * d
      BY <1>2, <3>1
    <3> QED
      BY <1>2, <3>2
  <2> HIDE DEF end, start, d
  <2> QED
    BY <1>1, <1>2, <1>3, <1>4, <2>1, <2>2 DEF d
<1> QED
  BY <1>5, <1>6

(* A client that waits for Retry-After comes back less than a second from   *)
(* the time the awaited entry leaves the window, for every resolution of    *)
(* the clock and every skew of the hosts.                                   *)
THEOREM RetryAfterSound == Spec => RetryAfterWithinSecond
<1> DEFINE A == \A w \in Workers : Refuses(w) =>
                  /\ ComesBack(w) > resetAt[w] - TicksPerSecond
                  /\ \/ ComesBack(w) < resetAt[w] + TicksPerSecond
                     \/ retryAfter' = 1
<1>1. ASSUME TypeOK, [Next]_vars PROVE [A]_vars
  <2> SUFFICES ASSUME Next, NEW w \in Workers, Refuses(w)
               PROVE  /\ ComesBack(w) > resetAt[w] - TicksPerSecond
                      /\ \/ ComesBack(w) < resetAt[w] + TicksPerSecond
                         \/ retryAfter' = 1
    BY <1>1
  <2>1. pc[w] = "respond" /\ pc'[w] = "idle" /\ retryAfter' # 0
    BY DEF Refuses
  <2>2. ASSUME NEW v \in Workers, Start(v) \/ CountBelow(v) \/ CountAtLimit(v) \/ AddMember(v)
                                  \/ ReadError(v) \/ AddError(v) \/ Crash(v)
        PROVE  FALSE
    BY <2>1, <2>2 DEF Start, CountBelow, CountAtLimit, AddMember, ReadError, AddError, Crash, NoHeader
  <2>3. ~Tick /\ ~RedisRestart
    BY <2>1 DEF Tick, RedisRestart, NoHeader
  <2>4. PICK v \in Workers : Respond(v)
    BY <2>2, <2>3 DEF Next, Progress
  <2>5. v = w
    BY <1>1, <2>1, <2>4 DEF Respond, Leave, Goto, TypeOK
  <2>6. retryAfter' = RetryAfter(w)
    BY <2>4, <2>5 DEF Respond, Refuses
  <2> QED
    BY <1>1, <2>6, WaitMissesByLess DEF ComesBack
<1> QED
  BY <1>1, TypeCorrect, PTL DEF RetryAfterWithinSecond, Spec

-----------------------------------------------------------------------------
(* The sliding window *)

(* A charge is an admission of the sliding window, or repeats an entry. *)
LEMMA ChargeAdmits ==
    ASSUME Inv, NEW w \in Workers, NEW salt \in Salts, pc[w] = "add", Charge(w, salt),
           UNCHANGED <<clock, losses>>
    PROVE  Quota!Admit
<1> DEFINE m == [score |-> now[w], salt |-> salt]
<1>1. zset' = zset \cup {m} /\ m \in zset'
  BY DEF Charge
<1>2. m.score <= clock + MaxSkew
  BY DEF Inv, Accounting
<1>3. Cardinality(zset) < Capacity
  <2>1. TypeOK /\ Adding # {}
    BY DEF Inv, Adding
  <2>2. Cardinality(Adding) > 0
    BY <2>1, Sizes, FS_EmptySet
  <2> QED
    BY <2>1, <2>2, Sizes DEF Inv, Accounting
<1>4. \E x \in zset' : x.score <= clock + MaxSkew /\ zset' = zset \cup {x}
  <2>1. WITNESS m \in zset'
  <2> QED
    BY <1>1, <1>2
<1>5. Quota!Cardinality(zset) = Cardinality(zset)
  BY DEF Quota!Cardinality, Cardinality
<1> QED
  BY <1>3, <1>4, <1>5 DEF Quota!Admit

(* What a worker's pruning drops has left every host's window. *)
LEMMA PruneForgets ==
    ASSUME Inv, NEW w \in Workers, pc[w] = "read", zset' \in {zset, Survivors(w)},
           UNCHANGED <<clock, losses>>
    PROVE  Quota!Forget
<1>1. zset' \subseteq zset
  BY SurvivorsSubset DEF Inv
<1>2. ASSUME NEW m \in zset \ zset' PROVE m.score <= clock + MaxSkew - Window
  <2>1. ~(m.score > now[w] - Window)
    BY <1>2 DEF Survivors
  <2>2. now[w] <= clock + MaxSkew /\ m.score \in Int /\ now[w] \in Int /\ clock \in Int
    BY <1>2 DEF Inv, Accounting, TypeOK, Member
  <2> QED
    BY <2>1, <2>2, WindowPositive, LimiterAssumption
<1> QED
  BY <1>1, <1>2 DEF Quota!Forget, Quota!Keeps, Quota!Over

(* Every step of the limiter is a step of the sliding window or leaves it alone. *)
LEMMA QuotaStep == Inv /\ [Next]_vars => [Quota!Next]_(Quota!vars)
<1> SUFFICES ASSUME Inv, [Next]_vars PROVE [Quota!Next]_(Quota!vars)
  OBVIOUS
<1>1. ASSUME NEW w \in Workers, Start(w) \/ Respond(w) \/ Crash(w) PROVE UNCHANGED Quota!vars
  BY <1>1 DEF Start, Respond, Crash, redis, Quota!vars
<1>2. ASSUME NEW w \in Workers, CountBelow(w) \/ CountAtLimit(w) \/ ReadError(w)
      PROVE  Quota!Forget
  BY <1>2, PruneForgets DEF CountBelow, CountAtLimit, ReadError
<1>3. ASSUME NEW w \in Workers, AddMember(w) PROVE Quota!Admit
  BY <1>3, ChargeAdmits DEF AddMember
<1>4. ASSUME NEW w \in Workers, AddError(w) PROVE Quota!Admit \/ UNCHANGED Quota!vars
  <2>1. CASE UNCHANGED redis
    BY <1>4, <2>1 DEF AddError, redis, Quota!vars
  <2>2. CASE \E salt \in Salts : Charge(w, salt)
    BY <1>4, <2>2, ChargeAdmits DEF AddError
  <2> QED
    BY <1>4, <2>1, <2>2 DEF AddError
<1>5. CASE Tick
  <2>1. ASSUME NEW m \in zset \ zset' PROVE m.score <= clock' + MaxSkew - Window
    <3>1. clock' = clock + 1 /\ clock' >= expiresAt
      BY <1>5, <2>1 DEF Tick
    <3>2. m.score <= expiresAt + MaxSkew - Window - TicksPerSecond
      BY <2>1 DEF Inv, Accounting
    <3>3. m.score \in Int /\ clock \in Int /\ expiresAt \in Int
      BY <2>1 DEF Inv, TypeOK, Member
    <3> QED
      BY <3>1, <3>2, <3>3, WindowPositive, LimiterAssumption
  <2>2. zset' \subseteq zset /\ clock' = clock + 1 /\ losses' = losses
    BY <1>5 DEF Tick
  <2> QED
    BY <2>1, <2>2 DEF Quota!Next, Quota!Pass, Quota!Keeps, Quota!Over
<1>6. CASE RedisRestart
  <2>1. Len(losses') = Len(losses) + 1
    <3>1. [at |-> clock, charged |-> {m \in charged : InWindow(m)}] \in [at : Int, charged : SUBSET Member]
      BY DEF Inv, TypeOK
    <3> QED
      BY <1>6, <3>1, AppendProperties DEF RedisRestart, Inv, TypeOK
  <2> QED
    BY <1>6, <2>1 DEF RedisRestart, Quota!Next, Quota!Lose
<1>7. CASE UNCHANGED vars
  BY <1>7 DEF vars, Quota!vars
<1> QED
  BY <1>1, <1>2, <1>3, <1>4, <1>5, <1>6, <1>7 DEF Next, Progress, Quota!Next

(* The limiter implements a sliding window of Capacity charges. *)
THEOREM SlidingWindowImplemented == Spec => ImplementsSlidingWindow
<1>1. Init => Quota!Init
  BY LimiterAssumption, EmptySeq DEF Init, Quota!Init
<1> QED
  BY <1>1, QuotaStep, Invariant, PTL DEF Spec, Quota!Spec, ImplementsSlidingWindow

-----------------------------------------------------------------------------
(* Why every check ends *)

(* A check that moves has fewer awaits before it. *)
Forward == \A w \in Workers : pc[w] # "idle" /\ pc'[w] # pc[w] => Ahead[pc'[w]] < Ahead[pc[w]]

(* What a step of one worker to label does. *)
LEMMA GotoAhead ==
    ASSUME TypeOK, NEW w \in Workers, NEW label, Goto(w, label),
           pc[w] = "idle" \/ Ahead[label] < Ahead[pc[w]]
    PROVE  Forward
BY DEF TypeOK, Goto, Forward

(* No check goes back to a pipeline it has sent, also when one of them      *)
(* failed, and the failure policy sends none (rate_limiter.py:104-132): a   *)
(* check is over after three steps of its own at most.                      *)
THEOREM ChecksEnd == Spec => NoWayBack
<1>1. TypeOK /\ [Next]_vars => [Forward]_vars
  <2> SUFFICES ASSUME TypeOK, Next PROVE Forward
    OBVIOUS
  <2>1. ASSUME NEW w \in Workers, Start(w) PROVE Forward
    BY <2>1, GotoAhead DEF Start
  <2>2. ASSUME NEW w \in Workers, CountBelow(w) PROVE Forward
    BY <2>2, GotoAhead DEF CountBelow, Ahead
  <2>3. ASSUME NEW w \in Workers, CountAtLimit(w) PROVE Forward
    BY <2>3, GotoAhead DEF CountAtLimit, Decide, Ahead
  <2>4. ASSUME NEW w \in Workers, AddMember(w) PROVE Forward
    BY <2>4, GotoAhead DEF AddMember, Decide, Ahead
  <2>5. ASSUME NEW w \in Workers, ReadError(w) \/ AddError(w) PROVE Forward
    BY <2>5, GotoAhead DEF ReadError, AddError, FailurePolicy, Decide, Ahead
  <2>6. ASSUME NEW w \in Workers, Respond(w) PROVE Forward
    BY <2>6, GotoAhead DEF Respond, Leave, Ahead
  <2>7. ASSUME NEW w \in Workers, Crash(w) PROVE Forward
    <3>1. Ahead["idle"] < Ahead[pc[w]]
      BY <2>7 DEF Crash, TypeOK, Ahead
    <3> QED
      BY <2>7, <3>1, GotoAhead DEF Crash, Leave
  <2>8. CASE Tick \/ RedisRestart
    BY <2>8 DEF Tick, RedisRestart, Forward
  <2> QED
    BY <2>1, <2>2, <2>3, <2>4, <2>5, <2>6, <2>7, <2>8 DEF Next, Progress
<1> QED
  BY <1>1, TypeCorrect, PTL DEF Spec, NoWayBack, Forward
=============================================================================
