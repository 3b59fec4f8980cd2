--------------------------- MODULE PipelineProofs ---------------------------
(***************************************************************************)
(* What holds of the request pipeline for every number of requests, every  *)
(* size of the pool and every assignment of the failure policy.            *)
(***************************************************************************)
EXTENDS Pipeline, FiniteSetTheorems, TLAPS

PCs == {"idle", "post"} \cup Waiting \cup Holding \cup Over

(* The part of the type that Answer and Release touch. *)
PoolType ==
    /\ pc \in [Requests -> PCs]
    /\ connections \subseteq Requests
    /\ Cardinality(connections) <= PoolSize
    /\ reply \in [Requests -> Replies \cup {"none"}]

(* A pool with one connection more or less in use is a finite set still. *)
LEMMA PoolSizes ==
    ASSUME TypeOK, NEW r \in Requests
    PROVE  /\ IsFiniteSet(connections) /\ Cardinality(connections) \in Nat
           /\ Cardinality(connections \ {r}) <= PoolSize
           /\ Cardinality(connections) < PoolSize =>
                 Cardinality(connections \cup {r}) <= PoolSize
<1>1. IsFiniteSet(connections)
  BY PipelineAssumption, FS_Subset DEF TypeOK
<1>2. Cardinality(connections) \in Nat
  BY <1>1, FS_CardinalityType
<1>3. /\ IsFiniteSet(connections \ {r})
      /\ Cardinality(connections \ {r}) <= Cardinality(connections)
  BY <1>1, FS_Subset
<1>4. Cardinality(connections \ {r}) <= PoolSize
  BY <1>2, <1>3, FS_CardinalityType, PipelineAssumption DEF TypeOK
<1>5. Cardinality(connections \cup {r}) <= Cardinality(connections) + 1
  <2>1. CASE r \in connections
    <3>1. connections \cup {r} = connections
      BY <2>1
    <3>2. Cardinality(connections \cup {r}) = Cardinality(connections)
      BY <3>1, Zenon
    <3> QED
      BY <1>2, <3>2
  <2>2. CASE r \notin connections
    <3>1. Cardinality(connections \cup {r}) = Cardinality(connections) + 1
      BY <1>1, <2>2, FS_AddElement, Zenon
    <3> QED
      BY <1>2, <3>1
  <2> QED
    BY <2>1, <2>2
<1>6. Cardinality(connections \cup {r}) \in Nat
  BY <1>1, FS_AddElement, FS_CardinalityType
<1> QED
  BY <1>1, <1>2, <1>4, <1>5, <1>6, PipelineAssumption

(* Ending a request keeps the types. *)
LEMMA AnswerType ==
    ASSUME TypeOK, NEW r \in Requests, NEW value \in Replies \cup {"none"}, Answer(r, value)
    PROVE  PoolType'
BY PoolSizes DEF TypeOK, PoolType, PCs, Answer, Goto, Over

(* So does moving on with, or without, the connection. *)
LEMMA GotoType ==
    ASSUME TypeOK, NEW r \in Requests, NEW label \in PCs, Goto(r, label),
           connections' \in {connections, connections \ {r}}, UNCHANGED reply
    PROVE  PoolType'
BY PoolSizes DEF TypeOK, PoolType, PCs, Goto

(* A charge is one at a time, and made once: only before "route". *)
LEMMA ChargeType ==
    ASSUME TypeOK, NEW r \in Requests, charged[r] = 0, UNCHANGED charged \/ Charge(r)
    PROVE  charged' \in [Requests -> 0..1]
BY DEF TypeOK, Charge

LEMMA InitType == Init => TypeOK /\ ConnectionsReturned /\ Admission
<1> SUFFICES ASSUME Init PROVE TypeOK /\ ConnectionsReturned /\ Admission
  OBVIOUS
<1>1. Cardinality({}) = 0
  BY FS_EmptySet
<1>2. TypeOK
  BY <1>1, PipelineAssumption DEF Init, TypeOK
<1>3. ConnectionsReturned
  BY DEF Init, ConnectionsReturned
<1>4. Admission
  BY DEF Init, Admission, Before
<1> QED
  BY <1>2, <1>3, <1>4

(* Every step keeps every variable in its type. *)
LEMMA TypeStep == TypeOK /\ Admission /\ [Next]_vars => TypeOK'
<1> SUFFICES ASSUME TypeOK, Admission, [Next]_vars PROVE TypeOK'
  OBVIOUS
<1> USE DEF PCs, Waiting, Holding, Over
<1>1. ASSUME NEW r \in Requests, Arrive(r) PROVE TypeOK'
  <2>1. PoolType'
    <3>1. CASE Goto(r, "awaitLookup") /\ UNCHANGED <<reply, connections>>
      BY <3>1, GotoType
    <3>2. CASE \E e \in {"RequestValidationError", "HTTPException", "UnauthorizedError"} : Answer(r, e)
      BY <3>2, AnswerType DEF Replies, Invalid
    <3> QED
      BY <1>1, <3>1, <3>2 DEF Arrive
  <2> QED
    BY <1>1, <2>1 DEF Arrive, TypeOK, PoolType
<1>2. ASSUME NEW r \in Requests, Connect(r) PROVE TypeOK'
  <2>1. Resumes[pc[r]] \in Holding
    BY <1>2 DEF Connect, Resumes
  <2> QED
    BY <1>2, <2>1, PoolSizes DEF Connect, Goto, TypeOK
<1>3. ASSUME NEW r \in Requests, ConnectFails(r) PROVE TypeOK'
  <2>1. PoolType'
    BY <1>3, AnswerType DEF ConnectFails, Replies, Failures
  <2> QED
    BY <1>3, <2>1 DEF ConnectFails, TypeOK, PoolType
<1>4. ASSUME NEW r \in Requests, Lookup(r) PROVE TypeOK'
  <2>1. PoolType'
    <3>1. CASE Goto(r, "limiter") /\ UNCHANGED <<reply, connections>>
      BY <3>1, GotoType
    <3>2. CASE \E e \in Invalid \cup {"UnauthorizedError", "Exception"} : Answer(r, e)
      BY <3>2, AnswerType DEF Replies, Failures, Invalid
    <3> QED
      BY <1>4, <3>1, <3>2 DEF Lookup
  <2> QED
    BY <1>4, <2>1 DEF Lookup, TypeOK, PoolType
<1>5. ASSUME NEW r \in Requests, Limit(r) PROVE TypeOK'
  <2>1. PoolType'
    <3>1. CASE LetIn(r)
      BY <3>1, GotoType DEF LetIn
    <3>2. CASE Answer(r, "Limited") \/ Answer(r, "FailClosed")
      BY <3>2, AnswerType DEF Replies, Invalid
    <3> QED
      BY <1>5, <3>1, <3>2 DEF Limit, Verdict, RedisFails
  <2>2. charged' \in [Requests -> 0..1]
    <3>1. charged[r] = 0
      BY <1>5 DEF Limit, Admission, Before
    <3> QED
      BY <1>5, <3>1, ChargeType DEF Limit, Verdict, RedisFails
  <2>3. degraded' \subseteq Requests
    BY <1>5 DEF Limit, Verdict, RedisFails, TypeOK
  <2> QED
    BY <1>5, <2>1, <2>2, <2>3 DEF Limit, TypeOK, PoolType
<1>6. ASSUME NEW r \in Requests, Route(r) PROVE TypeOK'
  <2>1. PoolType'
    <3>1. CASE Goto(r, "provider") /\ UNCHANGED <<reply, connections>>
      BY <3>1, GotoType
    <3>2. CASE Answer(r, "InvalidRequestError")
      BY <3>2, AnswerType DEF Replies, Invalid
    <3> QED
      BY <1>6, <3>1, <3>2 DEF Route
  <2> QED
    BY <1>6, <2>1 DEF Route, TypeOK, PoolType
<1>7. ASSUME NEW r \in Requests, ProviderEnds(r) PROVE TypeOK'
  <2>1. PoolType'
    BY <1>7, GotoType DEF ProviderEnds
  <2>2. PICK value \in Failures \cup {"LLMResponse"} : result' = [result EXCEPT ![r] = value]
    BY <1>7 DEF ProviderEnds
  <2>3. result' \in [Requests -> Failures \cup {"none", "LLMResponse"}]
    BY <2>2 DEF TypeOK
  <2> QED
    BY <1>7, <2>1, <2>3 DEF ProviderEnds, TypeOK, PoolType
<1>8. ASSUME NEW r \in Requests, Audit(r) \/ Record(r) \/ Settle(r) PROVE TypeOK'
  <2>1. PoolType'
    <3>1. CASE Release(r, "awaitRecord") \/ Release(r, "post")
      BY <3>1, GotoType DEF Release
    <3>2. CASE Answer(r, result[r]) \/ Answer(r, "Exception")
      <4>1. result[r] \in Replies \cup {"none"}
        BY DEF TypeOK, Replies
      <4> QED
        BY <3>2, <4>1, AnswerType DEF Replies, Failures
    <3> QED
      BY <1>8, <3>1, <3>2 DEF Audit, Record, Settle
  <2> QED
    BY <1>8, <2>1 DEF Audit, Record, Settle, TypeOK, PoolType
<1>9. ASSUME NEW r \in Requests, Post(r) PROVE TypeOK'
  BY <1>9 DEF Post, Goto, TypeOK
<1>10. ASSUME NEW r \in Requests, Cancel(r) PROVE TypeOK'
  <2>1. PoolType'
    BY <1>10, GotoType DEF Cancel
  <2>2. charged' \in [Requests -> 0..1]
    <3>1. CASE pc[r] = "limiter"
      BY <1>10, <3>1, ChargeType DEF Cancel, Admission, Before
    <3>2. CASE pc[r] # "limiter"
      BY <1>10, <3>2 DEF Cancel, TypeOK
    <3> QED
      BY <3>1, <3>2
  <2> QED
    BY <1>10, <2>1, <2>2 DEF Cancel, TypeOK, PoolType
<1>11. CASE Revoke
  BY <1>11 DEF Revoke, TypeOK
<1>12. CASE UNCHANGED vars
  BY <1>12 DEF vars, TypeOK
<1> QED
  BY <1>1, <1>2, <1>3, <1>4, <1>5, <1>6, <1>7, <1>8, <1>9, <1>10, <1>11, <1>12
  DEF Next, Progress
-----------------------------------------------------------------------------
(* Connections *)

(* A session holds a connection only while it has something to do with it. *)
LEMMA HoldingStep == TypeOK /\ ConnectionsReturned /\ [Next]_vars => ConnectionsReturned'
<1> SUFFICES ASSUME TypeOK, ConnectionsReturned, [Next]_vars,
                    NEW q \in connections'
             PROVE  pc'[q] \in Holding
  BY DEF ConnectionsReturned
<1> USE DEF ConnectionsReturned, TypeOK, Goto
<1>1. ASSUME NEW r \in Requests, NEW value, Answer(r, value) PROVE pc'[q] \in Holding
  BY <1>1 DEF Answer
<1>2. ASSUME NEW r \in Requests, NEW label, Release(r, label) PROVE pc'[q] \in Holding
  BY <1>2 DEF Release
<1>3. ASSUME NEW r \in Requests, NEW label, Goto(r, label), UNCHANGED connections,
             label \in Holding \/ pc[r] \notin Holding
      PROVE  pc'[q] \in Holding
  BY <1>3
<1>4. ASSUME NEW r \in Requests, Arrive(r) PROVE pc'[q] \in Holding
  BY <1>4, <1>1, <1>3 DEF Arrive, Holding
<1>5. ASSUME NEW r \in Requests, Connect(r) PROVE pc'[q] \in Holding
  BY <1>5 DEF Connect, Resumes, Waiting, Holding
<1>6. ASSUME NEW r \in Requests, ConnectFails(r) PROVE pc'[q] \in Holding
  BY <1>6, <1>1 DEF ConnectFails
<1>7. ASSUME NEW r \in Requests, Lookup(r) PROVE pc'[q] \in Holding
  BY <1>7, <1>1, <1>3 DEF Lookup, Holding
<1>8. ASSUME NEW r \in Requests, Limit(r) PROVE pc'[q] \in Holding
  BY <1>8, <1>1, <1>3 DEF Limit, Verdict, RedisFails, LetIn, Holding
<1>9. ASSUME NEW r \in Requests, Route(r) \/ ProviderEnds(r) PROVE pc'[q] \in Holding
  BY <1>9, <1>1, <1>3 DEF Route, ProviderEnds, Holding
<1>10. ASSUME NEW r \in Requests, Audit(r) \/ Record(r) \/ Settle(r) PROVE pc'[q] \in Holding
  BY <1>10, <1>1, <1>2 DEF Audit, Record, Settle
<1>11. ASSUME NEW r \in Requests, Post(r) PROVE pc'[q] \in Holding
  BY <1>11, <1>3 DEF Post, Holding
<1>12. ASSUME NEW r \in Requests, Cancel(r) PROVE pc'[q] \in Holding
  BY <1>12 DEF Cancel
<1>13. CASE Revoke \/ UNCHANGED vars
  BY <1>13 DEF Revoke, vars
<1> QED
  BY <1>4, <1>5, <1>6, <1>7, <1>8, <1>9, <1>10, <1>11, <1>12, <1>13 DEF Next, Progress

-----------------------------------------------------------------------------
(* Admission *)

(* What Admission says of one request. *)
Admitted(q) ==
    /\ q \in cameRevoked =>
          ~keyActive /\ pc[q] \in {"awaitLookup", "lookup"} \cup Over /\ q \notin called
    /\ pc[q] \in Before => charged[q] = 0 /\ q \notin called
    /\ pc[q] = "route" => q \notin called
    /\ pc[q] \notin Before \cup Over \/ q \in called =>
          charged[q] = 1 \/ q \in degraded \cap FailOpen
    /\ pc[q] \notin Before \cup Over \cup {"route"} => q \in called
    /\ pc[q] \in {"audit", "post", "record", "settle", "awaitRecord", "awaitSettle"} =>
          result[q] # "none"
    /\ reply[q] # "none" => pc[q] = "done"

(* A step of one request leaves what is said of the others as it is. *)
LEMMA OthersStay ==
    ASSUME TypeOK, NEW r \in Requests, NEW q \in Requests, q # r, Admitted(q),
           Arrive(r) \/ Connect(r) \/ ConnectFails(r) \/ Progress(r) \/ Cancel(r)
    PROVE  Admitted(q)'
<1>1. /\ pc'[q] = pc[q] /\ charged'[q] = charged[q] /\ result'[q] = result[q]
      /\ reply'[q] = reply[q] /\ keyActive' = keyActive
      /\ q \in called' <=> q \in called
      /\ q \in cameRevoked' <=> q \in cameRevoked
      /\ q \in degraded' <=> q \in degraded
  <2> USE DEF TypeOK, Goto, Answer, Release
  <2>1. CASE Arrive(r) \/ Connect(r) \/ ConnectFails(r) \/ Lookup(r)
    BY <2>1 DEF Arrive, Connect, ConnectFails, Lookup
  <2>2. CASE Limit(r)
    BY <2>2 DEF Limit, Verdict, RedisFails, LetIn, Charge
  <2>3. CASE Route(r)
    BY <2>3 DEF Route
  <2>4. CASE ProviderEnds(r)
    BY <2>4 DEF ProviderEnds
  <2>5. CASE Audit(r) \/ Record(r) \/ Post(r) \/ Settle(r)
    BY <2>5 DEF Audit, Record, Post, Settle
  <2>6. CASE Cancel(r)
    BY <2>6 DEF Cancel, Charge
  <2> QED
    BY <2>1, <2>2, <2>3, <2>4, <2>5, <2>6 DEF Progress
<1> QED
  BY <1>1 DEF Admitted

(* A step of a request keeps what is said of it. *)
LEMMA OwnStep ==
    ASSUME TypeOK, NEW r \in Requests, Admitted(r),
           Arrive(r) \/ Connect(r) \/ ConnectFails(r) \/ Progress(r) \/ Cancel(r)
    PROVE  Admitted(r)'
<1> USE DEF TypeOK, Goto, Answer, Release, Admitted, Before, Over
<1>1. CASE Arrive(r)
  BY <1>1 DEF Arrive
<1>2. CASE Connect(r)
  BY <1>2 DEF Connect, Resumes, Waiting
<1>3. CASE ConnectFails(r)
  BY <1>3 DEF ConnectFails
<1>4. CASE Lookup(r)
  BY <1>4 DEF Lookup
<1>5. CASE Limit(r)
  BY <1>5 DEF Limit, Verdict, RedisFails, LetIn, Charge
<1>6. CASE Route(r)
  BY <1>6 DEF Route
<1>7. CASE ProviderEnds(r)
  BY <1>7 DEF ProviderEnds, Failures
<1>8. CASE Audit(r) \/ Record(r) \/ Post(r) \/ Settle(r)
  BY <1>8 DEF Audit, Record, Post, Settle
<1>9. CASE Cancel(r)
  BY <1>9 DEF Cancel, Charge
<1> QED
  BY <1>1, <1>2, <1>3, <1>4, <1>5, <1>6, <1>7, <1>8, <1>9 DEF Progress

LEMMA AdmissionStep == TypeOK /\ Admission /\ [Next]_vars => Admission'
<1> SUFFICES ASSUME TypeOK, Admission, [Next]_vars, NEW q \in Requests PROVE Admitted(q)'
  BY DEF Admission, Admitted
<1>1. Admitted(q)
  BY DEF Admission, Admitted
<1>2. CASE Revoke \/ UNCHANGED vars
  BY <1>1, <1>2 DEF Revoke, vars, Admitted
<1> QED
  BY <1>1, <1>2, OwnStep, OthersStay DEF Next
-----------------------------------------------------------------------------
(* Answers *)

(* What AnswerTellsCost says of one request. *)
Told(q) ==
    /\ reply[q] \in Invalid \cup {"HTTPException", "UnauthorizedError", "Limited"} =>
          charged[q] = 0 /\ q \notin called
    /\ reply[q] = "InvalidRequestError" => Admittance(q) /\ q \notin called
    /\ reply[q] = "FailClosed" => q \notin FailOpen \cup called
    /\ reply[q] \in {"LLMResponse"} \cup (Failures \ {"Exception"}) =>
          Admittance(q) /\ q \in called

(* The answer is the value the handler ended in. *)
LEMMA Answered ==
    ASSUME TypeOK, NEW r \in Requests, NEW value, Answer(r, value) PROVE reply'[r] = value
BY DEF Answer, TypeOK

(* A request that was not answered was told nothing. *)
LEMMA UntoldYet ==
    ASSUME NEW r \in Requests, reply'[r] = "none" PROVE Told(r)'
BY DEF Told, Invalid, Failures

(* An exception nobody foresaw tells nothing. *)
LEMMA ExceptionTellsNothing ==
    ASSUME NEW r \in Requests, reply'[r] = "Exception" PROVE Told(r)'
BY DEF Told, Invalid, Failures

(* An answer before the limiter's charge says that there is none. *)
LEMMA EarlyAnswer ==
    ASSUME TypeOK, NEW r \in Requests, charged'[r] = 0, r \notin called, UNCHANGED called,
           NEW value \in Invalid \cup {"HTTPException", "UnauthorizedError", "Limited"},
           Answer(r, value)
    PROVE  Told(r)'
BY Answered DEF Told, Invalid, Failures

LEMMA ToldStep == TypeOK /\ Admission /\ AnswerTellsCost /\ [Next]_vars => AnswerTellsCost'
<1> SUFFICES ASSUME TypeOK, Admission, AnswerTellsCost, [Next]_vars, NEW q \in Requests
             PROVE  Told(q)'
  BY DEF AnswerTellsCost, Told
<1>1. Told(q) /\ Admitted(q)
  BY DEF AnswerTellsCost, Told, Admission, Admitted
<1>2. ASSUME reply'[q] = reply[q], charged'[q] = charged[q],
             q \in called' <=> q \in called, q \in degraded' <=> q \in degraded
      PROVE  Told(q)'
  BY <1>1, <1>2 DEF Told, Admittance
<1>3. CASE Revoke \/ UNCHANGED vars
  BY <1>2, <1>3 DEF Revoke, vars
<1>4. ASSUME NEW r \in Requests, r # q,
             Arrive(r) \/ Connect(r) \/ ConnectFails(r) \/ Progress(r) \/ Cancel(r)
      PROVE  Told(q)'
  <2> USE DEF TypeOK, Goto, Answer, Release
  <2>1. CASE Arrive(r) \/ Connect(r) \/ ConnectFails(r) \/ Lookup(r)
    BY <1>2, <1>4, <2>1 DEF Arrive, Connect, ConnectFails, Lookup
  <2>2. CASE Limit(r) \/ Cancel(r)
    BY <1>2, <1>4, <2>2 DEF Limit, Verdict, RedisFails, LetIn, Charge, Cancel
  <2>3. CASE Route(r) \/ ProviderEnds(r)
    BY <1>2, <1>4, <2>3 DEF Route, ProviderEnds
  <2>4. CASE Audit(r) \/ Record(r) \/ Post(r) \/ Settle(r)
    BY <1>2, <1>4, <2>4 DEF Audit, Record, Post, Settle
  <2> QED
    BY <1>4, <2>1, <2>2, <2>3, <2>4 DEF Progress
<1>5. ASSUME Arrive(q) \/ Connect(q) \/ ConnectFails(q) \/ Progress(q) \/ Cancel(q)
      PROVE  Told(q)'
  <2>0. pc[q] # "done" => reply[q] = "none"
    BY <1>1 DEF Admitted
  <2>1. CASE Arrive(q)
    <3>1. reply[q] = "none" /\ charged[q] = 0 /\ q \notin called
      BY <1>1, <2>0, <2>1 DEF Arrive, Admitted, Before
    <3>2. CASE Goto(q, "awaitLookup") /\ UNCHANGED <<reply, connections>>
      BY <3>1, <3>2, UntoldYet
    <3>3. CASE \E e \in {"RequestValidationError", "HTTPException", "UnauthorizedError"} : Answer(q, e)
      BY <2>1, <3>1, <3>3, EarlyAnswer DEF Arrive, Invalid
    <3> QED
      BY <2>1, <3>2, <3>3 DEF Arrive
  <2>2. CASE Connect(q)
    BY <2>0, <2>2, UntoldYet DEF Connect, Waiting
  <2>3. CASE ConnectFails(q)
    BY <2>3, Answered, ExceptionTellsNothing DEF ConnectFails
  <2>4. CASE Lookup(q)
    <3>1. reply[q] = "none" /\ charged[q] = 0 /\ q \notin called
      BY <1>1, <2>0, <2>4 DEF Lookup, Admitted, Before
    <3>2. CASE Goto(q, "limiter") /\ UNCHANGED <<reply, connections>>
      BY <3>1, <3>2, UntoldYet
    <3>3. CASE \E e \in Invalid \cup {"UnauthorizedError"} : Answer(q, e)
      BY <2>4, <3>1, <3>3, EarlyAnswer DEF Lookup
    <3>4. CASE Answer(q, "Exception")
      BY <3>4, Answered, ExceptionTellsNothing
    <3> QED
      BY <2>4, <3>2, <3>3, <3>4 DEF Lookup
  <2>5. CASE Limit(q)
    <3>1. reply[q] = "none" /\ charged[q] = 0 /\ q \notin called /\ called' = called
      BY <1>1, <2>0, <2>5 DEF Limit, Admitted, Before
    <3>2. CASE LetIn(q)
      BY <3>1, <3>2, UntoldYet DEF LetIn
    <3>3. CASE UNCHANGED charged /\ Answer(q, "Limited")
      BY <3>1, <3>3, EarlyAnswer
    <3>4. CASE q \notin FailOpen /\ Answer(q, "FailClosed")
      <4>1. reply'[q] = "FailClosed"
        BY <3>4, Answered
      <4> QED
        BY <3>1, <3>4, <4>1 DEF Told, Invalid, Failures
    <3> QED
      BY <2>5, <3>2, <3>3, <3>4 DEF Limit, Verdict, RedisFails
  <2>6. CASE Route(q)
    <3>1. /\ reply[q] = "none" /\ q \notin called /\ Admittance(q)
          /\ UNCHANGED <<charged, degraded>>
      BY <1>1, <2>0, <2>6 DEF Route, Admitted, Admittance, Before, Over
    <3>2. CASE UNCHANGED reply
      BY <3>1, <3>2, UntoldYet
    <3>3. CASE Answer(q, "InvalidRequestError") /\ UNCHANGED called
      <4>1. reply'[q] = "InvalidRequestError" /\ Admittance(q)'
        BY <3>1, <3>3, Answered DEF Admittance
      <4> QED
        BY <3>1, <3>3, <4>1 DEF Told, Invalid, Failures
    <3> QED
      BY <2>6, <3>2, <3>3 DEF Route
  <2>7. CASE ProviderEnds(q) \/ Post(q)
    BY <2>0, <2>7, UntoldYet DEF ProviderEnds, Post
  <2>8. CASE Audit(q) \/ Record(q) \/ Settle(q)
    <3>1. /\ reply[q] = "none" /\ result[q] \in Failures \cup {"LLMResponse"}
          /\ q \in called /\ Admittance(q) /\ UNCHANGED <<charged, degraded, called>>
      BY <1>1, <2>0, <2>8
      DEF Audit, Record, Settle, Admitted, Admittance, Before, Over, TypeOK
    <3>2. CASE UNCHANGED reply
      BY <3>1, <3>2, UntoldYet
    <3>3. CASE Answer(q, "Exception")
      BY <3>3, Answered, ExceptionTellsNothing
    <3>4. CASE Answer(q, result[q])
      <4>1. reply'[q] = result[q] /\ Admittance(q)'
        BY <3>1, <3>4, Answered DEF Admittance
      <4> QED
        BY <3>1, <4>1 DEF Told, Invalid, Failures
    <3> QED
      BY <2>8, <3>2, <3>3, <3>4 DEF Audit, Record, Settle, Release
  <2>9. CASE Cancel(q)
    BY <2>0, <2>9, UntoldYet DEF Cancel, Over
  <2> QED
    BY <1>5, <2>1, <2>2, <2>3, <2>4, <2>5, <2>6, <2>7, <2>8, <2>9 DEF Progress
<1> QED
  BY <1>3, <1>4, <1>5 DEF Next

-----------------------------------------------------------------------------
(* The theorems *)

Inv == TypeOK /\ ConnectionsReturned /\ Admission /\ AnswerTellsCost

(* The inductive invariant of the pipeline. *)
THEOREM Invariant == Spec => []Inv
<1>1. Init => Inv
  BY InitType DEF Inv, Init, AnswerTellsCost, Invalid, Failures
<1>2. Inv /\ [Next]_vars => Inv'
  BY TypeStep, HoldingStep, AdmissionStep, ToldStep DEF Inv
<1> QED
  BY <1>1, <1>2, PTL DEF Spec

(* The types are right, the pool is never overdrawn, and no request is *)
(* charged twice.                                                      *)
THEOREM TypeCorrect == Spec => []TypeOK
BY Invariant, PTL DEF Inv

(* No request keeps a connection while it waits, posts, or is over. *)
THEOREM PoolNotLeaked == Spec => []ConnectionsReturned
BY Invariant, PTL DEF Inv

(* No provider is called without a valid key and the limiter's leave. *)
THEOREM CallsHaveLeave == Spec => []CalledWithLeave
<1>1. Inv => CalledWithLeave
  BY DEF Inv, TypeOK, Admission, CalledWithLeave
<1> QED
  BY <1>1, Invariant, PTL

(* Every answer but the one for an unforeseen exception tells whether the   *)
(* request was charged and whether its provider was called; that of a       *)
(* failed-closed limiter, the second only.                                  *)
THEOREM AnswersTellCost == Spec => []AnswerTellsCost
BY Invariant, PTL DEF Inv

-----------------------------------------------------------------------------
(* Why every request is served                                             *)
(*                                                                         *)
(* A run of the pipeline cannot be stuck for the pool's sake, and no       *)
(* request can go round in circles: with the fairness of FairSpec these    *)
(* two are what EveryRequestServed rests on.                               *)

(* A full pool has a connection in the hands of a request that is not      *)
(* itself waiting for one.                                                 *)
NoWaitForWaiters ==
    \A r \in Requests : pc[r] \in Waiting =>
        \/ Cardinality(connections) < PoolSize
        \/ \E q \in connections \ {r} : pc[q] \in Holding

(* No request ever waits on one that waits: of a pool of any size, shared  *)
(* by any number of requests, some connection is free or is in use.        *)
THEOREM PoolNotDeadlocked == Spec => []NoWaitForWaiters
<1>1. Inv => NoWaitForWaiters
  <2> SUFFICES ASSUME Inv, NEW r \in Requests, pc[r] \in Waiting,
                      ~(Cardinality(connections) < PoolSize)
               PROVE  \E q \in connections \ {r} : pc[q] \in Holding
    BY DEF NoWaitForWaiters
  <2>1. connections # {}
    <3>1. Cardinality({}) = 0
      BY FS_EmptySet
    <3> QED
      BY <3>1, PipelineAssumption
  <2>2. PICK q \in connections : pc[q] \in Holding
    BY <2>1 DEF Inv, ConnectionsReturned
  <2>3. q # r
    BY <2>2 DEF Waiting, Holding
  <2> QED
    BY <2>2, <2>3
<1> QED
  BY <1>1, Invariant, PTL

(* How far along a request is. *)
Rank ==
    [idle |-> 0, awaitLookup |-> 1, lookup |-> 2, limiter |-> 3, route |-> 4, provider |-> 5,
     audit |-> 6, awaitRecord |-> 7, record |-> 8, post |-> 9, awaitSettle |-> 10,
     settle |-> 11, done |-> 12, dead |-> 12]

(* A step moves at most one request, and that one forward. *)
OneMovesForward ==
    /\ \A r \in Requests : pc'[r] # pc[r] => Rank[pc'[r]] > Rank[pc[r]]
    /\ \A r, q \in Requests : pc'[r] # pc[r] /\ pc'[q] # pc[q] => r = q

OnlyForward == [][OneMovesForward]_vars

(* What a step that goes to a label does to the order. *)
LEMMA Forward ==
    ASSUME TypeOK, NEW r \in Requests, NEW label, Goto(r, label), Rank[label] > Rank[pc[r]]
    PROVE  OneMovesForward
BY DEF TypeOK, Goto, OneMovesForward

(* No request is handled twice or sent back to an earlier stage, so each    *)
(* takes at most twelve steps (generate.py:43-70 has no loop).              *)
THEOREM RequestsGoForward == Spec => OnlyForward
<1>1. Inv /\ [Next]_vars => [OneMovesForward]_vars
  <2> SUFFICES ASSUME TypeOK, Next PROVE OneMovesForward
    BY DEF Inv
  <2>1. ASSUME NEW r \in Requests, NEW label, Goto(r, label), Rank[label] > Rank[pc[r]]
        PROVE  OneMovesForward
    BY <2>1, Forward
  <2>2. ASSUME NEW r \in Requests, NEW value, Answer(r, value), Rank["done"] > Rank[pc[r]]
        PROVE  OneMovesForward
    BY <2>1, <2>2 DEF Answer
  <2>3. ASSUME NEW r \in Requests, Arrive(r) \/ ConnectFails(r) PROVE OneMovesForward
    BY <2>1, <2>2, <2>3 DEF Arrive, ConnectFails, Waiting, Rank
  <2>4. ASSUME NEW r \in Requests, Connect(r) PROVE OneMovesForward
    BY <2>1, <2>4 DEF Connect, Resumes, Waiting, Rank
  <2>5. ASSUME NEW r \in Requests, Lookup(r) PROVE OneMovesForward
    BY <2>1, <2>2, <2>5 DEF Lookup, Rank
  <2>6. ASSUME NEW r \in Requests, Limit(r) PROVE OneMovesForward
    BY <2>1, <2>2, <2>6 DEF Limit, Verdict, RedisFails, LetIn, Rank
  <2>7. ASSUME NEW r \in Requests, Route(r) \/ ProviderEnds(r) PROVE OneMovesForward
    BY <2>1, <2>2, <2>7 DEF Route, ProviderEnds, Rank
  <2>8. ASSUME NEW r \in Requests, Audit(r) \/ Record(r) \/ Post(r) \/ Settle(r) PROVE OneMovesForward
    BY <2>1, <2>2, <2>8 DEF Audit, Record, Post, Settle, Release, Rank
  <2>9. ASSUME NEW r \in Requests, Cancel(r) PROVE OneMovesForward
    <3>1. Rank["dead"] > Rank[pc[r]]
      BY <2>9 DEF Cancel, TypeOK, Waiting, Holding, Over, Rank
    <3> QED
      BY <2>1, <2>9, <3>1 DEF Cancel
  <2>10. CASE Revoke
    BY <2>10 DEF Revoke, OneMovesForward
  <2> QED
    BY <2>3, <2>4, <2>5, <2>6, <2>7, <2>8, <2>9, <2>10 DEF Next, Progress
<1> QED
  BY <1>1, Invariant, PTL DEF Spec, OnlyForward
=============================================================================
