-------------------------- MODULE GenerationProofs --------------------------
(***************************************************************************)
(* What holds of the generation service for every set of requests, ids and *)
(* failure statuses.  Seen from dispatch, execute is a caller that Webhook *)
(* allows for, so that all of WebhookProofs holds here too.                *)
(***************************************************************************)
EXTENDS Generation, TLAPS

(* Webhook with the theorems about it. *)
D == INSTANCE WebhookProofs

(* A request's event says what its audit row says and what its provider did. *)
EventAudited(r) ==
    /\ event[r] = "completed" => Owns(r, "success") /\ result[r] = 200
    /\ event[r] = "failed" => Owns(r, "failed") /\ result[r] # 200
    /\ event[r] # "none" => result[r] # 0

(* Where execute is, dispatch is, and what execute knows. *)
Course(r) ==
    /\ pc[r] \in {"idle", "provider", "success"} =>
          stage[r] = "idle" /\ session[r] = "usable"
    /\ pc[r] \in {"idle", "provider"} => result[r] = 0
    /\ pc[r] = "success" => result[r] = 200
    /\ stage[r] = "idle" <=> event[r] = "none"
    /\ pc[r] = "except" =>
          /\ stage[r] \in {"idle", "raised"}
          /\ result[r] # 0
          /\ session[r] = "usable" => raised[r] = result[r] /\ result[r] # 200
    /\ pc[r] = "dispatch" =>
          /\ stage[r] \notin {"idle", "dead"}
          /\ stage[r] = "returned" => session[r] = "usable"
          /\ event[r] = "failed" => raised[r] = result[r]
    /\ pc[r] # "dispatch" => stage[r] \notin Hook!Running

(* What AnnouncedIsAudited and AnswerHonest say of one request. *)
Announced(r) ==
    /\ deliveries[<<r, "completed">>] # Hook!Absent => Owns(r, "success")
    /\ deliveries[<<r, "failed">>] # Hook!Absent => Owns(r, "failed")

Honest(r) ==
    (pc[r] = "done" /\ result[r] # 0) =>
        /\ session[r] = "usable" =>
              /\ response[r] = result[r]
              /\ \/ Owns(r, "success") /\ result[r] = 200
                 \/ Owns(r, "failed") /\ result[r] # 200
        /\ session[r] = "broken" => response[r] = 500

Local(r) == Course(r) /\ EventAudited(r) /\ Announced(r) /\ Honest(r)

(* An audit row belongs to a request that was audited. *)
Owned == \A i \in Ids : audit[i] # NoRow => audit[i].owner \in Requests

PCs == {"idle", "provider", "success", "dispatch", "except", "done", "dead"}

OwnTypeOK ==
    /\ pc \in [Requests -> PCs]
    /\ id \in [Requests -> Ids]
    /\ hooked \in [Requests -> BOOLEAN]
    /\ result \in [Requests -> {0, 200} \cup FailureStatuses]
    /\ raised \in [Requests -> {0, 500} \cup FailureStatuses]
    /\ audit \in [Ids -> AuditRow]
    /\ response \in [Requests -> {0, 200, 422, 500} \cup FailureStatuses]

IInv ==
    /\ D!IInv
    /\ OwnTypeOK
    /\ \A r \in Requests : Local(r)
    /\ Owned
    /\ AuditTruthful

-----------------------------------------------------------------------------
(* The webhook service within *)

LEMMA SameService ==
    /\ Hook!Init <=> D!Init
    /\ Hook!Next <=> D!Next
    /\ Hook!vars = D!vars
    /\ Hook!TypeOK <=> D!TypeOK
<1>1. Hook!Init <=> D!Init
  BY DEF Hook!Init, D!Init, Hook!Events, D!Events, Hook!Absent, D!Absent
<1>2. Hook!Next <=> D!Next
  BY DEF Hook!Next, D!Next, Hook!Dispatch, D!Dispatch, Hook!Goto, D!Goto,
         Hook!Events, D!Events, Hook!Progress, D!Progress, Hook!Crash, D!Crash,
         Hook!CallerCommitFails, D!CallerCommitFails, Hook!Running, D!Running,
         Hook!RecordPending, D!RecordPending, Hook!PostAccepted, D!PostAccepted,
         Hook!PostRetryable, D!PostRetryable, Hook!PostFatal, D!PostFatal,
         Hook!RecordDelivered, D!RecordDelivered, Hook!RecordFailed, D!RecordFailed,
         Hook!Receives, D!Receives, Hook!Commit, D!Commit,
         Hook!CommitSucceeds, D!CommitSucceeds, Hook!CommitFails, D!CommitFails,
         Hook!MayHaveApplied, D!MayHaveApplied, Hook!Write, D!Write,
         Hook!Delivery, D!Delivery, Hook!RetriesLeft, D!RetriesLeft
<1>3. Hook!vars = D!vars
  BY DEF Hook!vars, D!vars
<1>4. Hook!TypeOK <=> D!TypeOK
  BY DEF Hook!TypeOK, D!TypeOK, Hook!Stages, D!Stages, Hook!Events, D!Events,
         Hook!MaxAttempts, D!MaxAttempts
<1> QED
  BY <1>1, <1>2, <1>3, <1>4

LEMMA ServiceAssumption == D!WebhookAssumption
BY GenerationAssumption DEF D!WebhookAssumption

(* Every step of execute's is a step that Webhook allows, or none of its. *)
LEMMA StepCallsWebhook == IInv /\ [Next]_vars => [Hook!Next]_Hook!vars
<1> SUFFICES ASSUME IInv, Next PROVE Hook!Next \/ UNCHANGED Hook!vars
  BY DEF vars, dispatchVars, Hook!vars
<1> USE DEF dispatchVars, executeVars, Hook!vars
<1>1. ASSUME NEW r \in Requests, NEW e \in Hook!Events, Hook!Dispatch(r, e) PROVE Hook!Next
  BY <1>1 DEF Hook!Next
<1>2. ASSUME NEW r \in Requests, NEW status \in {"success", "failed"},
             pc[r] # "dispatch", AuditRaises(r, status),
             UNCHANGED <<stage, event, attempts, deliveries, received>>
      PROVE  Hook!Next
  BY <1>2 DEF AuditRaises, Hook!Next, Hook!CallerCommitFails, IInv, Local, Course
<1>3. ASSUME NEW r \in Requests, AuditSuccess(r) PROVE Hook!Next \/ UNCHANGED Hook!vars
  BY <1>1, <1>2, <1>3 DEF AuditSuccess, Announce, Hook!Events
<1>4. ASSUME NEW r \in Requests, AuditFailure(r) PROVE Hook!Next \/ UNCHANGED Hook!vars
  BY <1>1, <1>2, <1>4 DEF AuditFailure, Announce, Hook!Events
<1>5. ASSUME NEW r \in Requests, DispatchStep(r) PROVE Hook!Next
  BY <1>5 DEF DispatchStep, Hook!Next
<1>6. ASSUME NEW r \in Requests, Crash(r) PROVE Hook!Next \/ UNCHANGED Hook!vars
  BY <1>6 DEF Crash, Hook!Next
<1> QED
  BY <1>3, <1>4, <1>5, <1>6
  DEF Next, Progress, Unroutable, CallProvider, ProviderReturns, ProviderRaises,
      DispatchReturns, DispatchRaises

LEMMA ServiceStep == IInv /\ [Next]_vars => D!IInv'
<1> SUFFICES ASSUME IInv, [Next]_vars PROVE D!IInv'
  OBVIOUS
<1>1. D!IInv /\ [D!Next]_D!vars => D!IInv'
  BY ServiceAssumption, D!StepKeepsIInv
<1>2. Hook!Next \/ UNCHANGED Hook!vars
  BY StepCallsWebhook
<1>3. D!Next \/ UNCHANGED D!vars
  BY <1>2, SameService DEF Hook!vars, D!vars
<1> QED
  BY <1>1, <1>3 DEF IInv

-----------------------------------------------------------------------------
(* Initial states *)

LEMMA Initially == Init => IInv
<1> SUFFICES ASSUME Init PROVE IInv
  OBVIOUS
<1>1. D!IInv
  BY SameService, ServiceAssumption, D!Initially DEF Init
<1>2. /\ stage = [r \in Requests |-> "idle"]
      /\ event = [r \in Requests |-> "none"]
      /\ session = [r \in Requests |-> "usable"]
      /\ deliveries = [d \in Requests \X Hook!Events |-> Hook!Absent]
  BY DEF Init, Hook!Init
<1>3. \A r \in Requests : Course(r) /\ EventAudited(r)
  BY <1>2 DEF Init, Course, EventAudited, Hook!Running
<1>4. \A r \in Requests : Announced(r)
  BY <1>2 DEF Announced, Hook!Events
<1>5. \A r \in Requests : Honest(r)
  BY DEF Init, Honest
<1>6. OwnTypeOK /\ Owned /\ AuditTruthful
  BY DEF Init, OwnTypeOK, Owned, AuditTruthful, AuditRow, NoRow, PCs
<1> QED
  BY <1>1, <1>3, <1>4, <1>5, <1>6 DEF IInv, Local

-----------------------------------------------------------------------------
(* What steps leave alone *)

Untouched(s) ==
    /\ pc'[s] = pc[s] /\ result'[s] = result[s] /\ raised'[s] = raised[s]
    /\ response'[s] = response[s]
    /\ stage'[s] = stage[s] /\ event'[s] = event[s] /\ session'[s] = session[s]
    /\ \A e \in Hook!Events : deliveries'[<<s, e>>] = deliveries[<<s, e>>]

RowsStay == id' = id /\ \A i \in Ids : audit[i] # NoRow => audit'[i] = audit[i]

LEMMA OwnershipStays ==
    ASSUME IInv, RowsStay, NEW s \in Requests, NEW status \in {"success", "failed"}, Owns(s, status)
    PROVE  Owns(s, status)'
BY DEF IInv, OwnTypeOK, RowsStay, Owns, NoRow

LEMMA LocalStays ==
    ASSUME IInv, RowsStay, NEW s \in Requests, Untouched(s)
    PROVE  Local(s)'
<1>1. Local(s)
  BY DEF IInv
<1>2. /\ Owns(s, "success") => Owns(s, "success")'
      /\ Owns(s, "failed") => Owns(s, "failed")'
  BY OwnershipStays
<1>3. Course(s)'
  BY <1>1 DEF Local, Course, Untouched, Hook!Running
<1>4. EventAudited(s)'
  BY <1>1, <1>2 DEF Local, EventAudited, Untouched
<1>5. Announced(s)'
  BY <1>1, <1>2 DEF Local, Announced, Untouched, Hook!Events, Hook!Absent
<1>6. Honest(s)'
  BY <1>1, <1>2 DEF Local, Honest, Untouched
<1> QED
  BY <1>3, <1>4, <1>5, <1>6 DEF Local

(* The audit log keeps what it says while the provider's outcome stands. *)
LEMMA AuditStays ==
    ASSUME IInv, UNCHANGED id,
           UNCHANGED audit,
           \A s \in Requests : result[s] # 0 => result'[s] = result[s]
    PROVE  RowsStay /\ Owned' /\ AuditTruthful'
<1>1. RowsStay
  BY DEF RowsStay
<1>2. Owned'
  BY DEF IInv, Owned, NoRow
<1>3. AuditTruthful'
  BY DEF IInv, Owned, AuditTruthful, NoRow
<1> QED
  BY <1>1, <1>2, <1>3

(* An insert adds what the provider's outcome says. *)
LEMMA InsertTruthful ==
    ASSUME IInv, NEW r \in Requests, NEW status \in {"success", "failed"},
           Insert(r, status), UNCHANGED <<id, result>>,
           result[r] # 0, status = "success" <=> result[r] = 200
    PROVE  /\ RowsStay /\ Owned' /\ AuditTruthful' /\ Owns(r, status)'
           /\ audit' \in [Ids -> AuditRow]
<1>1. /\ id[r] \in Ids /\ audit[id[r]] = NoRow
      /\ audit' = [audit EXCEPT ![id[r]] = [owner |-> r, status |-> status]]
      /\ audit \in [Ids -> AuditRow]
  BY DEF Insert, IInv, OwnTypeOK
<1>2. audit' \in [Ids -> AuditRow]
  BY <1>1 DEF AuditRow
<1>3. /\ audit'[id[r]] = [owner |-> r, status |-> status]
      /\ \A i \in Ids \ {id[r]} : audit'[i] = audit[i]
  BY <1>1
<1>4. RowsStay /\ Owns(r, status)'
  BY <1>1, <1>3 DEF RowsStay, Owns
<1>5. Owned'
  BY <1>3 DEF IInv, Owned, NoRow
<1>6. AuditTruthful'
  BY <1>3 DEF IInv, AuditTruthful, NoRow
<1> QED
  BY <1>2, <1>4, <1>5, <1>6

(* What a step of dispatch's does to the caller's view of it. *)
LEMMA ProgressEffect ==
    ASSUME IInv, NEW r \in Requests, stage[r] \in Hook!Running, Hook!Progress(r)
    PROVE  /\ event' = event /\ event[r] \in Hook!Events
           /\ \A s \in Requests \ {r} :
                 /\ stage'[s] = stage[s] /\ session'[s] = session[s]
                 /\ \A e \in Hook!Events : deliveries'[<<s, e>>] = deliveries[<<s, e>>]
           /\ \A e \in Hook!Events \ {event[r]} : deliveries'[<<r, e>>] = deliveries[<<r, e>>]
           /\ stage'[r] \notin {"idle", "dead"}
           /\ stage'[r] = "returned" => session'[r] = "usable"
<1>1. /\ event[r] \in Hook!Events
      /\ stage \in [Requests -> Hook!Stages]
      /\ session \in [Requests -> {"usable", "broken"}]
      /\ DOMAIN deliveries = Requests \X Hook!Events
      /\ stage[r] \in {"post", "pending", "accepted", "failing"}
  BY SameService DEF IInv, D!IInv, D!Course, D!Running, Hook!Running, D!Events, Hook!Events,
                     Hook!TypeOK
<1>2. ASSUME NEW status \in {"PENDING", "DELIVERED", "FAILED"},
             NEW next \in Hook!Stages \ {"idle", "dead"},
             NEW onError \in Hook!Stages \ {"idle", "dead", "returned"},
             Hook!Commit(r, status, next, onError)
      PROVE  /\ event' = event
             /\ \A s \in Requests \ {r} : stage'[s] = stage[s] /\ session'[s] = session[s]
             /\ \A d \in Requests \X Hook!Events :
                   d # <<r, event[r]>> => deliveries'[d] = deliveries[d]
             /\ stage'[r] \notin {"idle", "dead"}
             /\ stage'[r] = "returned" => session'[r] = "usable"
  BY <1>1, <1>2 DEF Hook!Commit, Hook!CommitSucceeds, Hook!CommitFails, Hook!Write, Hook!Goto,
                    Hook!Delivery
<1>3. CASE Hook!PostAccepted(r) \/ Hook!PostRetryable(r) \/ Hook!PostFatal(r)
  BY <1>1, <1>3 DEF Hook!PostAccepted, Hook!PostRetryable, Hook!PostFatal, Hook!Goto
<1>4. CASE Hook!RecordPending(r)
  BY <1>1, <1>2, <1>4 DEF Hook!RecordPending, Hook!Stages
<1>5. CASE Hook!RecordDelivered(r)
  BY <1>1, <1>2, <1>5 DEF Hook!RecordDelivered, Hook!Stages
<1>6. CASE Hook!RecordFailed(r)
  BY <1>1, <1>2, <1>6 DEF Hook!RecordFailed, Hook!Stages
<1> QED
  BY <1>3, <1>4, <1>5, <1>6 DEF Hook!Progress

(* The values execute assigns are of their types. *)
LEMMA OwnTypes ==
    ASSUME IInv
    PROVE  /\ OwnTypeOK
           /\ stage \in [Requests -> Hook!Stages]
           /\ event \in [Requests -> Hook!Events \cup {"none"}]
           /\ session \in [Requests -> {"usable", "broken"}]
BY SameService DEF IInv, D!IInv, Hook!TypeOK

LEMMA AnswerType ==
    ASSUME OwnTypeOK, NEW r \in Requests,
           NEW status \in {0, 200, 422, 500} \cup FailureStatuses, Answer(r, status)
    PROVE  /\ pc' \in [Requests -> PCs] /\ pc'[r] = "done"
           /\ response' \in [Requests -> {0, 200, 422, 500} \cup FailureStatuses]
           /\ response'[r] = status
           /\ \A s \in Requests \ {r} : pc'[s] = pc[s] /\ response'[s] = response[s]
BY DEF OwnTypeOK, Answer, Goto, PCs

LEMMA ExceptType ==
    ASSUME OwnTypeOK, NEW r \in Requests,
           NEW status \in {0, 500} \cup FailureStatuses, Except(r, status)
    PROVE  /\ pc' \in [Requests -> PCs] /\ pc'[r] = "except"
           /\ raised' \in [Requests -> {0, 500} \cup FailureStatuses]
           /\ raised'[r] = status
           /\ \A s \in Requests \ {r} : pc'[s] = pc[s] /\ raised'[s] = raised[s]
BY DEF OwnTypeOK, Except, Goto, PCs

LEMMA GotoType ==
    ASSUME OwnTypeOK, NEW r \in Requests, NEW l \in PCs, Goto(r, l)
    PROVE  /\ pc' \in [Requests -> PCs] /\ pc'[r] = l
           /\ \A s \in Requests \ {r} : pc'[s] = pc[s]
BY DEF OwnTypeOK, Goto

(* The audit row's commit, as execute sees it. *)
LEMMA AuditEffect ==
    ASSUME IInv, NEW r \in Requests, NEW status \in {"success", "failed"},
           Audited(r, status) \/ AuditRaises(r, status),
           UNCHANGED <<id, result>>, result[r] # 0,
           session[r] = "usable" => (status = "success" <=> result[r] = 200)
    PROVE  /\ RowsStay /\ Owned' /\ AuditTruthful'
           /\ audit' \in [Ids -> AuditRow]
           /\ Audited(r, status) => Owns(r, status)'
           /\ session' \in [Requests -> {"usable", "broken"}]
           /\ \A s \in Requests \ {r} : session'[s] = session[s]
           /\ AuditRaises(r, status) => session'[r] = "broken"
<1>1. CASE UNCHANGED audit
  <2>1. RowsStay /\ Owned' /\ AuditTruthful'
    BY <1>1, AuditStays
  <2>2. ~Audited(r, status)
    BY <1>1 DEF Audited, Insert, IInv, OwnTypeOK, NoRow
  <2> QED
    BY <1>1, <2>1, <2>2, OwnTypes DEF AuditRaises, OwnTypeOK
<1>2. CASE Insert(r, status) /\ session[r] = "usable"
  BY <1>2, InsertTruthful, OwnTypes DEF Audited, AuditRaises, Hook!CommitSucceeds
<1> QED
  BY <1>1, <1>2 DEF Audited, AuditRaises, Hook!CommitSucceeds, Hook!MayHaveApplied

-----------------------------------------------------------------------------
(* Every step *)

LEMMA StepKeepsIInv == IInv /\ [Next]_vars => IInv'
<1> SUFFICES ASSUME IInv, [Next]_vars PROVE IInv'
  OBVIOUS
<1>0. D!IInv'
  BY ServiceStep
<1> USE OwnTypes
<1>a. \A r \in Requests : Course(r) /\ EventAudited(r) /\ Announced(r)
  BY DEF IInv, Local
<1>b. ASSUME NEW r \in Requests, OwnTypeOK', RowsStay, Owned', AuditTruthful', Local(r)',
             \A s \in Requests \ {r} : Untouched(s)
      PROVE  IInv'
  BY <1>0, <1>b, LocalStays DEF IInv
<1>1. ASSUME NEW r \in Requests, Unroutable(r) \/ CallProvider(r) PROVE IInv'
  <2>1. /\ pc[r] = "idle" /\ UNCHANGED <<dispatchVars, id, hooked, result, raised, audit>>
        /\ \/ Answer(r, 422)
           \/ Goto(r, "provider") /\ UNCHANGED response
    BY <1>1 DEF Unroutable, CallProvider
  <2>2. RowsStay /\ Owned' /\ AuditTruthful'
    BY <2>1, AuditStays
  <2>3. /\ OwnTypeOK'
        /\ \A s \in Requests \ {r} : Untouched(s)
        /\ pc'[r] \in {"provider", "done"}
    BY <2>1, AnswerType, GotoType DEF PCs, OwnTypeOK, AuditRow, Untouched, dispatchVars
  <2>4. Local(r)'
    BY <1>a, <2>1, <2>3
    DEF Local, Course, EventAudited, Announced, Honest, Owns, dispatchVars,
        Hook!Running, Hook!Absent
  <2> QED
    BY <1>b, <2>2, <2>3, <2>4
<1>2. ASSUME NEW r \in Requests, ProviderReturns(r) \/ ProviderRaises(r) PROVE IInv'
  <2>1. PICK status \in {200} \cup FailureStatuses :
            /\ pc[r] = "provider" /\ UNCHANGED <<dispatchVars, id, hooked, audit, response>>
            /\ result' = [result EXCEPT ![r] = status]
            /\ \/ status = 200 /\ Goto(r, "success") /\ UNCHANGED raised
               \/ status \in FailureStatuses /\ Except(r, status)
    BY <1>2 DEF ProviderReturns, ProviderRaises
  <2>2. /\ result' \in [Requests -> {0, 200} \cup FailureStatuses]
        /\ result'[r] = status /\ \A s \in Requests \ {r} : result'[s] = result[s]
        /\ result[r] = 0
    BY <1>a, <2>1 DEF OwnTypeOK, Course
  <2>3. RowsStay /\ Owned' /\ AuditTruthful'
    BY <2>1, <2>2, AuditStays
  <2>4. /\ OwnTypeOK'
        /\ \A s \in Requests \ {r} : Untouched(s)
        /\ \/ status = 200 /\ pc'[r] = "success"
           \/ status \in FailureStatuses /\ pc'[r] = "except" /\ raised'[r] = status
    BY <2>1, <2>2, ExceptType, GotoType DEF PCs, OwnTypeOK, AuditRow, Untouched, dispatchVars
  <2>5. Local(r)'
    BY <1>a, <2>1, <2>2, <2>4, GenerationAssumption
    DEF Local, Course, EventAudited, Announced, Honest, Owns, dispatchVars,
        Hook!Running, Hook!Absent
  <2> QED
    BY <1>b, <2>3, <2>4, <2>5
<1>3. ASSUME NEW r \in Requests, NEW status \in {"success", "failed"}, NEW e \in Hook!Events,
             result[r] # 0,
             status = "success" <=> result[r] = 200, e = "completed" <=> result[r] = 200,
             result[r] # 200 => raised[r] = result[r],
             stage[r] = "idle",
             Audited(r, status), Announce(r, e, result[r]), UNCHANGED <<id, hooked, result, raised>>
      PROVE  IInv'
  <2>1. /\ RowsStay /\ Owned' /\ AuditTruthful' /\ Owns(r, status)'
        /\ audit' \in [Ids -> AuditRow]
        /\ session' = session /\ session[r] = "usable"
    BY <1>3, AuditEffect DEF Audited, Hook!CommitSucceeds
  <2>2. CASE Hook!Dispatch(r, e) /\ Goto(r, "dispatch") /\ UNCHANGED response
    <3>1. /\ stage'[r] = "pending" /\ event'[r] = e /\ deliveries' = deliveries
          /\ \A s \in Requests \ {r} : stage'[s] = stage[s] /\ event'[s] = event[s]
      BY <2>2 DEF Hook!Dispatch, Hook!Goto
    <3>2. OwnTypeOK' /\ (\A s \in Requests \ {r} : Untouched(s)) /\ pc'[r] = "dispatch"
      BY <1>3, <2>1, <2>2, <3>1, GotoType DEF PCs, OwnTypeOK, AuditRow, Untouched
    <3>3. Announced(r)'
      <4>1. \A x \in Hook!Events : deliveries[<<r, x>>] = Hook!Absent
        BY <1>3 DEF IInv, D!IInv, D!Course, D!Clean, D!Events, Hook!Events, D!Absent, Hook!Absent
      <4> QED
        BY <3>1, <4>1 DEF Announced, Hook!Events, Hook!Absent
    <3>4. Course(r)' /\ EventAudited(r)' /\ Honest(r)'
      BY <1>3, <2>1, <3>1, <3>2
      DEF Course, EventAudited, Honest, Hook!Events, Hook!Running
    <3> QED
      BY <1>b, <2>1, <3>2, <3>3, <3>4 DEF Local
  <2>3. CASE UNCHANGED dispatchVars /\ Answer(r, result[r])
    <3>1. /\ pc' \in [Requests -> PCs] /\ pc'[r] = "done"
          /\ response' \in [Requests -> {0, 200, 422, 500} \cup FailureStatuses]
          /\ response'[r] = result[r]
          /\ \A s \in Requests \ {r} : pc'[s] = pc[s] /\ response'[s] = response[s]
      <4>1. OwnTypeOK /\ result[r] \in {0, 200, 422, 500} \cup FailureStatuses
        BY DEF OwnTypeOK
      <4> QED
        BY <2>3, <4>1, AnswerType
    <3>2. OwnTypeOK' /\ (\A s \in Requests \ {r} : Untouched(s))
      BY <1>3, <2>1, <2>3, <3>1 DEF OwnTypeOK, AuditRow, Untouched, dispatchVars
    <3>3. Announced(r)'
      <4>1. \A x \in Hook!Events : deliveries[<<r, x>>] = Hook!Absent
        BY <1>3 DEF IInv, D!IInv, D!Course, D!Clean, D!Events, Hook!Events, D!Absent, Hook!Absent
      <4> QED
        BY <2>3, <4>1 DEF Announced, Hook!Events, Hook!Absent, dispatchVars
    <3>4. Course(r)' /\ EventAudited(r)' /\ Honest(r)'
      <4>1. stage'[r] = "idle" /\ event'[r] = "none" /\ result'[r] = result[r] /\ session'[r] = "usable"
        BY <1>a, <1>3, <2>1, <2>3 DEF Course, dispatchVars
      <4>2. \/ Owns(r, "success")' /\ result[r] = 200
            \/ Owns(r, "failed")' /\ result[r] # 200
        BY <1>3, <2>1
      <4> QED
        BY <3>1, <4>1, <4>2 DEF Course, EventAudited, Honest, Hook!Running
    <3> QED
      BY <1>b, <2>1, <3>2, <3>3, <3>4 DEF Local
  <2> QED
    BY <1>3, <2>2, <2>3 DEF Announce
<1>4. ASSUME NEW r \in Requests, NEW status \in {"success", "failed"},
             pc[r] \in {"success", "except"}, result[r] # 0,
             session[r] = "usable" => (status = "success" <=> result[r] = 200),
             AuditRaises(r, status), UNCHANGED <<stage, event, attempts, deliveries, received>>,
             UNCHANGED <<id, hooked, result>>,
             \/ Except(r, 500) /\ UNCHANGED response
             \/ Answer(r, 500) /\ UNCHANGED raised
      PROVE  IInv'
  <2>1. /\ RowsStay /\ Owned' /\ AuditTruthful' /\ audit' \in [Ids -> AuditRow]
        /\ session'[r] = "broken" /\ \A s \in Requests \ {r} : session'[s] = session[s]
    BY <1>4, AuditEffect
  <2>2. OwnTypeOK' /\ (\A s \in Requests \ {r} : Untouched(s))
    BY <1>4, <2>1, ExceptType, AnswerType DEF OwnTypeOK, AuditRow, Untouched
  <2>3. /\ stage'[r] = stage[r] /\ stage[r] \in {"idle", "raised"} /\ result'[r] = result[r]
        /\ \/ pc'[r] = "done" /\ response'[r] = 500
           \/ pc'[r] = "except"
    BY <1>a, <1>4, ExceptType, AnswerType DEF Course
  <2>4. /\ Owns(r, "success") => Owns(r, "success")'
        /\ Owns(r, "failed") => Owns(r, "failed")'
    BY <2>1, OwnershipStays
  <2>5. Local(r)'
    BY <1>a, <1>4, <2>1, <2>3, <2>4
    DEF Local, Course, EventAudited, Announced, Honest, Hook!Running, Hook!Absent
  <2> QED
    BY <1>b, <2>1, <2>2, <2>5
<1>5. ASSUME NEW r \in Requests, AuditSuccess(r) PROVE IInv'
  <2>1. pc[r] = "success" /\ result[r] = 200 /\ stage[r] = "idle"
    BY <1>a, <1>5 DEF AuditSuccess, Course
  <2>2. CASE /\ AuditRaises(r, "success") /\ Except(r, 500)
             /\ UNCHANGED <<stage, event, attempts, deliveries, received, response>>
    BY <1>4, <1>5, <2>1, <2>2 DEF AuditSuccess
  <2>3. CASE Audited(r, "success") /\ Announce(r, "completed", 200) /\ UNCHANGED raised
    BY <1>3, <1>5, <2>1, <2>3 DEF AuditSuccess, Hook!Events
  <2> QED
    BY <1>5, <2>2, <2>3 DEF AuditSuccess
<1>6. ASSUME NEW r \in Requests, AuditFailure(r) PROVE IInv'
  <2>1. /\ pc[r] = "except" /\ result[r] # 0 /\ stage[r] \in {"idle", "raised"}
        /\ session[r] = "usable" => raised[r] = result[r] /\ result[r] # 200
    BY <1>a, <1>6 DEF AuditFailure, Course
  <2>2. CASE /\ AuditRaises(r, "failed") /\ Answer(r, 500)
             /\ UNCHANGED <<stage, event, attempts, deliveries, received>>
    BY <1>4, <1>6, <2>1, <2>2 DEF AuditFailure
  <2>3. CASE Audited(r, "failed") /\ Announce(r, "failed", raised[r])
    <3>1. session[r] = "usable" /\ stage[r] = "idle"
      BY <2>1, <2>3 DEF Audited, Hook!CommitSucceeds, IInv, D!IInv, D!Course
    <3>2. /\ raised[r] = result[r] /\ result[r] # 0 /\ result[r] # 200
          /\ "failed" \in Hook!Events
      BY <2>1, <3>1 DEF Hook!Events
    <3>3. UNCHANGED <<id, hooked, result, raised>>
      BY <1>6 DEF AuditFailure
    <3>4. Announce(r, "failed", result[r])
      BY <2>3, <3>2
    <3> QED
      BY <1>3, <2>3, <3>1, <3>2, <3>3, <3>4
  <2> QED
    BY <1>6, <2>2, <2>3 DEF AuditFailure
<1>7. ASSUME NEW r \in Requests, DispatchStep(r) PROVE IInv'
  <2>1. /\ pc[r] = "dispatch" /\ UNCHANGED executeVars /\ Hook!Progress(r)
        /\ stage[r] \in Hook!Running
    BY <1>7 DEF DispatchStep, Hook!Progress, Hook!RecordPending, Hook!PostAccepted,
                Hook!PostRetryable, Hook!PostFatal, Hook!RecordDelivered, Hook!RecordFailed,
                Hook!Running
  <2>2. RowsStay /\ Owned' /\ AuditTruthful' /\ OwnTypeOK'
    BY <2>1, AuditStays DEF executeVars, OwnTypeOK, AuditRow
  <2>3. \A s \in Requests \ {r} : Untouched(s)
    BY <2>1, ProgressEffect DEF executeVars, Untouched
  <2>4. Local(r)'
    BY <1>a, <2>1, ProgressEffect
    DEF executeVars, Local, Course, EventAudited, Announced, Honest, Owns, Hook!Events,
        Hook!Absent, Hook!Running
  <2> QED
    BY <1>b, <2>2, <2>3, <2>4
<1>8. ASSUME NEW r \in Requests, DispatchReturns(r) \/ DispatchRaises(r) PROVE IInv'
  <2>1. /\ pc[r] = "dispatch" /\ UNCHANGED <<dispatchVars, id, hooked, result, audit>>
        /\ stage[r] \in {"returned", "raised"}
    BY <1>8 DEF DispatchReturns, DispatchRaises
  <2>2. RowsStay /\ Owned' /\ AuditTruthful'
    BY <2>1, AuditStays
  <2>3. /\ event[r] \in Hook!Events
        /\ raised[r] \in {0, 500} \cup FailureStatuses
        /\ stage[r] = "returned" => session[r] = "usable"
        /\ stage[r] = "raised" => session[r] = "broken"
    BY <1>a, <2>1 DEF Course, OwnTypeOK, IInv, D!IInv, D!Course
  <2>4. ASSUME NEW status \in {0, 200, 500} \cup FailureStatuses,
               Answer(r, status), UNCHANGED raised,
               status = IF stage[r] = "raised" THEN 500 ELSE result[r]
        PROVE  OwnTypeOK' /\ (\A s \in Requests \ {r} : Untouched(s)) /\ Local(r)'
    <3>1. OwnTypeOK' /\ (\A s \in Requests \ {r} : Untouched(s))
      BY <2>1, <2>4, AnswerType DEF OwnTypeOK, AuditRow, Untouched, dispatchVars
    <3>2. Local(r)'
      BY <1>a, <2>1, <2>3, <2>4, AnswerType
      DEF Local, Course, EventAudited, Announced, Honest, Owns, dispatchVars,
          Hook!Running, Hook!Absent, Hook!Events
    <3> QED
      BY <3>1, <3>2
  <2>5. CASE DispatchReturns(r)
    <3>1. result[r] = IF event[r] = "completed" THEN 200 ELSE raised[r]
      BY <1>a, <2>1, <2>3 DEF EventAudited, Course, Hook!Events
    <3> QED
      BY <1>b, <2>2, <2>3, <2>4, <2>5, <3>1 DEF DispatchReturns
  <2>6. CASE stage[r] = "raised" /\ Answer(r, 500) /\ UNCHANGED raised
    BY <1>b, <2>2, <2>4, <2>6
  <2>7. CASE stage[r] = "raised" /\ Except(r, 500) /\ UNCHANGED response
    <3>1. OwnTypeOK' /\ (\A s \in Requests \ {r} : Untouched(s))
      BY <2>1, <2>7, ExceptType DEF OwnTypeOK, AuditRow, Untouched, dispatchVars
    <3>2. Local(r)'
      BY <1>a, <2>1, <2>3, <2>7, ExceptType
      DEF Local, Course, EventAudited, Announced, Honest, Owns, dispatchVars,
          Hook!Running, Hook!Absent, Hook!Events
    <3> QED
      BY <1>b, <2>2, <3>1, <3>2
  <2> QED
    BY <1>8, <2>5, <2>6, <2>7 DEF DispatchRaises
<1>9. ASSUME NEW r \in Requests, Crash(r) PROVE IInv'
  <2>1. /\ pc[r] # "done" /\ Goto(r, "dead") /\ UNCHANGED <<id, hooked, result, raised, audit, response>>
        /\ event' = event /\ session' = session /\ deliveries' = deliveries
        /\ \A s \in Requests \ {r} : stage'[s] = stage[s]
        /\ stage'[r] = IF stage[r] \in Hook!Running THEN "dead" ELSE stage[r]
    BY <1>9 DEF Crash, Hook!Crash, Hook!Goto, dispatchVars
  <2>2. RowsStay /\ Owned' /\ AuditTruthful'
    BY <2>1, AuditStays
  <2>3. OwnTypeOK' /\ (\A s \in Requests \ {r} : Untouched(s)) /\ pc'[r] = "dead"
    BY <2>1, GotoType DEF PCs, OwnTypeOK, AuditRow, Untouched
  <2>4. Local(r)'
    BY <1>a, <2>1, <2>3
    DEF Local, Course, EventAudited, Announced, Honest, Owns, Hook!Running, Hook!Absent
  <2> QED
    BY <1>b, <2>2, <2>3, <2>4
<1>10. CASE UNCHANGED vars
  <2>1. RowsStay /\ Owned' /\ AuditTruthful' /\ OwnTypeOK'
    BY <1>10, AuditStays DEF vars, executeVars, OwnTypeOK, AuditRow
  <2>2. \A s \in Requests : Untouched(s)
    BY <1>10 DEF vars, executeVars, dispatchVars, Untouched
  <2> QED
    BY <1>0, <2>1, <2>2, LocalStays DEF IInv
<1> QED
  BY <1>1, <1>2, <1>5, <1>6, <1>7, <1>8, <1>9, <1>10 DEF Next, Progress

-----------------------------------------------------------------------------

LEMMA Invariance == Spec => []IInv
BY Initially, StepKeepsIInv, PTL DEF Spec

(* Every variable of execute and of dispatch within it keeps its type.      *)
THEOREM TypeCorrect == Spec => []TypeOK
<1>1. IInv => TypeOK
  BY SameService DEF IInv, D!IInv, OwnTypeOK, PCs, TypeOK
<1> QED
  BY <1>1, Invariance, PTL

(* The audit log never says of a request what its provider call did not     *)
(* come to, although the except block also runs after commits that failed   *)
(* (generation.py:77).                                                      *)
THEOREM AuditIsTruthful == Spec => []AuditTruthful
<1>1. IInv => AuditTruthful
  BY DEF IInv
<1> QED
  BY <1>1, Invariance, PTL

(* No delivery row contradicts, or goes without, its request's audit row.   *)
THEOREM DeliveriesAreAudited == Spec => []AnnouncedIsAudited
<1>1. IInv => AnnouncedIsAudited
  BY DEF IInv, Local, Announced, AnnouncedIsAudited
<1> QED
  BY <1>1, Invariance, PTL

(* No receiver is told of a generation both that it completed and that it   *)
(* failed: what was posted is on record, and the records agree with the one *)
(* audit row.                                                               *)
THEOREM OneOutcomeAnnounced == Spec => []OneOutcome
<1>1. IInv => OneOutcome
  <2> SUFFICES ASSUME IInv, NEW r \in Requests, \A e \in Hook!Events : received[<<r, e>>] > 0
               PROVE  FALSE
    BY DEF OneOutcome
  <2>1. \A d \in DOMAIN received : received[d] > 0 => deliveries[d] # Hook!Absent
    BY DEF IInv, D!IInv, D!RecordedBeforePosted, D!Absent, Hook!Absent
  <2>2. DOMAIN received = Requests \X Hook!Events
    BY SameService DEF IInv, D!IInv, Hook!TypeOK
  <2>3. /\ deliveries[<<r, "completed">>] # Hook!Absent
        /\ deliveries[<<r, "failed">>] # Hook!Absent
    BY <2>1, <2>2 DEF Hook!Events
  <2>4. Owns(r, "success") /\ Owns(r, "failed")
    BY <2>3 DEF IInv, Local, Announced
  <2> QED
    BY <2>4 DEF Owns
<1> QED
  BY <1>1, Invariance, PTL

(* The client's status is the provider's outcome, and audited, unless a     *)
(* commit of its request failed.                                            *)
THEOREM AnswersAreHonest == Spec => []AnswerHonest
<1>1. IInv => AnswerHonest
  BY DEF IInv, Local, Honest, AnswerHonest
<1> QED
  BY <1>1, Invariance, PTL

(* No audit row is changed or removed, also when its id is used again.      *)
THEOREM AuditIsAppendOnly == Spec => AuditAppendOnly
<1>1. IInv /\ [Next]_vars => [\A i \in Ids : audit[i] # NoRow => audit'[i] = audit[i]]_vars
  <2> SUFFICES ASSUME IInv, Next, NEW i \in Ids, audit[i] # NoRow PROVE audit'[i] = audit[i]
    OBVIOUS
  <2>1. ASSUME NEW r \in Requests, NEW status \in {"success", "failed"}, Insert(r, status)
        PROVE  audit'[i] = audit[i]
    BY <2>1 DEF Insert, IInv, OwnTypeOK
  <2> QED
    BY <2>1 DEF Next, Unroutable, CallProvider, Progress, ProviderReturns, ProviderRaises,
                AuditSuccess, AuditFailure, Audited, AuditRaises, DispatchStep,
                DispatchReturns, DispatchRaises, Crash, executeVars
<1> QED
  BY <1>1, Invariance, PTL DEF Spec, AuditAppendOnly

(* The generation service implements the webhook service's specification of *)
(* its caller: it dispatches only when no dispatch is running, and a broken *)
(* session stays broken.                                                    *)
THEOREM WebhookCalledProperly == Spec => CallsWebhookProperly
<1>1. Init => Hook!Init
  BY DEF Init
<1> QED
  BY <1>1, Invariance, StepCallsWebhook, PTL DEF Spec, CallsWebhookProperly, Hook!Spec

-----------------------------------------------------------------------------
(* The ledger *)

(* Only a request that is done was answered. *)
Silent == \A r \in Requests : pc[r] # "done" => response[r] = 0

LEMMA StepKeepsSilent == IInv /\ Silent /\ [Next]_vars => Silent'
<1> SUFFICES ASSUME IInv, Silent, Next PROVE Silent'
  BY DEF Silent, vars, executeVars
<1>1. ASSUME NEW r \in Requests, NEW l \in PCs, pc[r] # "done", Goto(r, l), UNCHANGED response
      PROVE  Silent'
  BY <1>1 DEF Silent, Goto, IInv, OwnTypeOK
<1>2. ASSUME NEW r \in Requests, NEW status, Answer(r, status) PROVE Silent'
  BY <1>2 DEF Silent, Answer, Goto, IInv, OwnTypeOK
<1>3. ASSUME NEW r \in Requests, NEW status, pc[r] # "done", Except(r, status), UNCHANGED response
      PROVE  Silent'
  BY <1>1, <1>3 DEF Except, PCs
<1>4. ASSUME NEW r \in Requests, NEW e, NEW status, pc[r] # "done", Announce(r, e, status)
      PROVE  Silent'
  BY <1>1, <1>2, <1>4 DEF Announce, PCs
<1>5. ASSUME NEW r \in Requests, Unroutable(r) \/ CallProvider(r) PROVE Silent'
  BY <1>1, <1>2, <1>5 DEF Unroutable, CallProvider, PCs
<1>6. ASSUME NEW r \in Requests, ProviderReturns(r) \/ ProviderRaises(r) PROVE Silent'
  BY <1>1, <1>3, <1>6 DEF ProviderReturns, ProviderRaises, PCs
<1>7. ASSUME NEW r \in Requests, AuditSuccess(r) \/ AuditFailure(r) PROVE Silent'
  BY <1>2, <1>3, <1>4, <1>7 DEF AuditSuccess, AuditFailure
<1>8. ASSUME NEW r \in Requests, DispatchStep(r) PROVE Silent'
  BY <1>8 DEF DispatchStep, executeVars, Silent
<1>9. ASSUME NEW r \in Requests, DispatchReturns(r) \/ DispatchRaises(r) PROVE Silent'
  BY <1>2, <1>3, <1>9 DEF DispatchReturns, DispatchRaises
<1>10. ASSUME NEW r \in Requests, Crash(r) PROVE Silent'
  BY <1>1, <1>10 DEF Crash, PCs
<1> QED
  BY <1>5, <1>6, <1>7, <1>8, <1>9, <1>10 DEF Next, Progress

(* The row that the ledger has for a request is the one that it owns. *)
LEMMA LedgerRow ==
    ASSUME NEW r \in Requests
    PROVE  /\ result[r] = 200 => (audit[id[r]] = L!Row(r) <=> Owns(r, "success"))
           /\ result[r] # 200 => (audit[id[r]] = L!Row(r) <=> Owns(r, "failed"))
           /\ result[r] = 200 => L!Row(r) = [owner |-> r, status |-> "success"]
           /\ result[r] # 200 => L!Row(r) = [owner |-> r, status |-> "failed"]
BY DEF L!Row, Owns

(* A copy that a receiver gets is of the event on record, so the ledger     *)
(* tells it, or has told it before.                                         *)
LEMMA CopiesAreTold ==
    ASSUME IInv, Silent, NEW r \in Requests, DispatchStep(r)
    PROVE  L!Tell(r) \/ UNCHANGED Told
<1>1. /\ pc[r] = "dispatch" /\ Hook!Progress(r) /\ UNCHANGED executeVars
      /\ stage[r] \in Hook!Running
  BY DEF DispatchStep, Hook!Progress, Hook!RecordPending, Hook!PostAccepted,
         Hook!PostRetryable, Hook!PostFatal, Hook!RecordDelivered, Hook!RecordFailed,
         Hook!Running
<1>2. event[r] \in Hook!Events
  BY <1>1, ProgressEffect
<1>3. result[r] # 0 /\ audit[id[r]] = L!Row(r) /\ event[r] = L!Event(r)
  BY <1>2, LedgerRow DEF IInv, Local, EventAudited, Hook!Events, L!Event
<1>4. received \in [Requests \X Hook!Events -> 0..Hook!MaxAttempts]
  BY SameService DEF IInv, D!IInv, Hook!TypeOK
<1>5. ASSUME NEW n \in {0, 1}, Hook!Receives(r, n) PROVE L!Tell(r) \/ UNCHANGED Told
  <2>1. received' = [received EXCEPT ![<<r, event[r]>>] = @ + n]
    BY <1>5 DEF Hook!Receives, Hook!Delivery
  <2>2. /\ received'[<<r, event[r]>>] = received[<<r, event[r]>>] + n
        /\ \A s \in Requests, e \in Hook!Events :
              <<s, e>> # <<r, event[r]>> => received'[<<s, e>>] = received[<<s, e>>]
    BY <1>2, <1>4, <2>1
  <2>3. CASE n = 0
    <3>1. received' = received
      BY <1>2, <1>4, <2>1, <2>3 DEF Hook!MaxAttempts
    <3> QED
      BY <3>1 DEF Told
  <2>4. CASE n = 1
    <3>1. received'[<<r, event[r]>>] > 0
      BY <1>2, <1>4, <2>2, <2>4 DEF Hook!MaxAttempts
    <3>2. {e \in Hook!Events : received'[<<r, e>>] > 0}
             = {e \in Hook!Events : received[<<r, e>>] > 0} \cup {event[r]}
      BY <1>2, <2>2, <3>1
    <3>3. \A s \in Requests \ {r} : {e \in Hook!Events : received'[<<s, e>>] > 0}
             = {e \in Hook!Events : received[<<s, e>>] > 0}
      BY <2>2
    <3>4. Told' = [Told EXCEPT ![r] = @ \cup {L!Event(r)}]
      BY <1>3, <3>2, <3>3 DEF Told
    <3> QED
      BY <1>1, <1>3, <3>4 DEF L!Tell, executeVars
  <2> QED
    BY <2>3, <2>4
<1>6. CASE UNCHANGED received
  BY <1>6 DEF Told
<1>7. UNCHANGED received \/ \E n \in {0, 1} : Hook!Receives(r, n)
  BY <1>1 DEF Hook!Progress, Hook!RecordPending, Hook!PostAccepted, Hook!PostRetryable,
              Hook!PostFatal, Hook!RecordDelivered, Hook!RecordFailed, Hook!Commit
<1> QED
  BY <1>5, <1>6, <1>7

(* Every step is one of the ledger's, or none. *)
LEMMA StepIsLedgers == IInv /\ Silent /\ [Next]_vars => [L!Next]_(L!vars)
<1> SUFFICES ASSUME IInv, Silent, Next PROVE L!Next \/ UNCHANGED L!vars
  BY DEF vars, dispatchVars, executeVars, L!vars, Told
<1>1. UNCHANGED received => UNCHANGED Told
  BY DEF Told
<1>2. ASSUME NEW r \in Requests, pc[r] # "done", UNCHANGED id,
             L!Decide(r) \/ L!RecordAndReply(r) \/ L!Tell(r) \/ L!Refuse(r)
      PROVE  L!Next
  BY <1>2 DEF Silent, L!Next
<1>3. \A r \in Requests : Course(r) /\ EventAudited(r)
  BY DEF IInv, Local
<1>4. ASSUME NEW r \in Requests, Unroutable(r) PROVE L!Next
  BY <1>1, <1>2, <1>3, <1>4 DEF Unroutable, Answer, L!Refuse, dispatchVars, Course
<1>5. ASSUME NEW r \in Requests, CallProvider(r) PROVE UNCHANGED L!vars
  BY <1>1, <1>5 DEF CallProvider, L!vars, dispatchVars
<1>6. ASSUME NEW r \in Requests, ProviderReturns(r) \/ ProviderRaises(r) PROVE L!Next
  <2>1. pc[r] = "provider" /\ result[r] = 0 /\ UNCHANGED <<dispatchVars, id, audit, response>>
    BY <1>3, <1>6 DEF ProviderReturns, ProviderRaises, Course
  <2>2. \E status \in {200} \cup FailureStatuses : result' = [result EXCEPT ![r] = status]
    BY <1>6 DEF ProviderReturns, ProviderRaises
  <2>3. L!Decide(r)
    BY <1>1, <2>1, <2>2 DEF L!Decide, dispatchVars
  <2> QED
    BY <1>2, <2>1, <2>3
<1>7. ASSUME NEW r \in Requests, NEW status \in {"success", "failed"},
             pc[r] # "done", result[r] # 0,
             session[r] = "usable" => (status = "success" <=> result[r] = 200),
             Audited(r, status) \/ AuditRaises(r, status)
      PROVE  L!Record(r) \/ UNCHANGED audit
  BY <1>7, LedgerRow
  DEF Audited, AuditRaises, Insert, L!Record, L!NoRow, NoRow, Hook!CommitSucceeds,
      Hook!MayHaveApplied
<1>8. ASSUME NEW r \in Requests, NEW status \in {"success", "failed"}, NEW e,
             pc[r] # "done", result[r] # 0, status = "success" <=> result[r] = 200,
             Audited(r, status), Announce(r, e, result[r]), UNCHANGED <<id, result>>
      PROVE  L!RecordAndReply(r)
  <2>1. L!Record(r)
    <3>1. L!Row(r) = [owner |-> r, status |-> status]
      BY <1>8, LedgerRow
    <3>2. audit[id[r]] = NoRow /\ audit' = [audit EXCEPT ![id[r]] = [owner |-> r, status |-> status]]
      BY <1>8 DEF Audited, Insert
    <3> QED
      BY <1>8, <3>1, <3>2 DEF L!Record, L!NoRow, NoRow
  <2>2. audit'[id[r]] = L!Row(r)
    <3>1. audit \in [Ids -> AuditRow] /\ id[r] \in Ids
      BY OwnTypes DEF OwnTypeOK
    <3> QED
      BY <2>1, <3>1 DEF L!Record
  <2>3. L!Reply(r) \/ UNCHANGED response
    BY <1>8, <2>2 DEF Announce, Answer, L!Reply
  <2>4. UNCHANGED Told
    BY <1>1, <1>8 DEF Announce, Hook!Dispatch, dispatchVars
  <2> QED
    BY <1>8, <2>1, <2>3, <2>4 DEF L!RecordAndReply
<1>9. ASSUME NEW r \in Requests, NEW status \in {"success", "failed"},
             pc[r] # "done", result[r] # 0,
             session[r] = "usable" => (status = "success" <=> result[r] = 200),
             AuditRaises(r, status), UNCHANGED <<received, result>>,
             Answer(r, 500) \/ UNCHANGED response
      PROVE  L!RecordAndReply(r)
  <2>1. L!Record(r) \/ UNCHANGED audit
    BY <1>7, <1>9
  <2>2. L!Reply(r) \/ UNCHANGED response
    BY <1>9 DEF Answer, L!Reply
  <2> QED
    BY <1>1, <1>9, <2>1, <2>2 DEF L!RecordAndReply
<1>10. ASSUME NEW r \in Requests, AuditSuccess(r) PROVE L!Next
  <2>1. pc[r] = "success" /\ result[r] = 200 /\ UNCHANGED <<id, result>>
    BY <1>3, <1>10 DEF AuditSuccess, Course
  <2>2. L!RecordAndReply(r)
    BY <1>8, <1>9, <1>10, <2>1 DEF AuditSuccess
  <2> QED
    BY <1>2, <2>1, <2>2
<1>11. ASSUME NEW r \in Requests, AuditFailure(r) PROVE L!Next
  <2>1. /\ pc[r] = "except" /\ result[r] # 0 /\ UNCHANGED <<id, result>>
        /\ session[r] = "usable" => raised[r] = result[r] /\ result[r] # 200
    BY <1>3, <1>11 DEF AuditFailure, Course
  <2>2. CASE Audited(r, "failed") /\ Announce(r, "failed", raised[r])
    <3>1. session[r] = "usable"
      BY <2>2 DEF Audited, Hook!CommitSucceeds
    <3>2. L!RecordAndReply(r)
      BY <1>8, <2>1, <2>2, <3>1
    <3> QED
      BY <1>2, <2>1, <3>2
  <2>3. CASE /\ AuditRaises(r, "failed") /\ Answer(r, 500)
             /\ UNCHANGED <<stage, event, attempts, deliveries, received>>
    <3>1. L!RecordAndReply(r)
      BY <1>9, <2>1, <2>3
    <3> QED
      BY <1>2, <2>1, <3>1
  <2> QED
    BY <1>11, <2>2, <2>3 DEF AuditFailure
<1>12. ASSUME NEW r \in Requests, DispatchStep(r) PROVE L!Next \/ UNCHANGED L!vars
  <2>1. pc[r] = "dispatch" /\ UNCHANGED <<id, result, audit, response>>
    BY <1>12 DEF DispatchStep, executeVars
  <2>2. L!Tell(r) \/ UNCHANGED Told
    BY <1>12, CopiesAreTold
  <2> QED
    BY <1>2, <2>1, <2>2 DEF L!vars
<1>13. ASSUME NEW r \in Requests, DispatchReturns(r) PROVE L!Next
  <2>1. /\ pc[r] = "dispatch" /\ stage[r] = "returned"
        /\ UNCHANGED <<received, id, result, audit>>
        /\ Answer(r, IF event[r] = "completed" THEN 200 ELSE raised[r])
    BY <1>13 DEF DispatchReturns, dispatchVars
  <2>2. event[r] \in Hook!Events
    BY <1>3, <2>1, OwnTypes DEF Course
  <2>3. /\ result[r] # 0 /\ audit[id[r]] = L!Row(r)
        /\ result[r] = IF event[r] = "completed" THEN 200 ELSE raised[r]
    BY <1>3, <2>1, <2>2, LedgerRow DEF EventAudited, Course, Hook!Events
  <2>4. L!Reply(r)
    BY <2>1, <2>3 DEF Answer, L!Reply, L!Row
  <2>5. L!RecordAndReply(r)
    BY <1>1, <2>1, <2>4 DEF L!RecordAndReply
  <2> QED
    BY <1>2, <2>1, <2>5
<1>14. ASSUME NEW r \in Requests, DispatchRaises(r) PROVE L!Next \/ UNCHANGED L!vars
  <2>1. /\ pc[r] = "dispatch" /\ stage[r] = "raised"
        /\ UNCHANGED <<received, id, result, audit>>
        /\ UNCHANGED response \/ Answer(r, 500)
    BY <1>14 DEF DispatchRaises, dispatchVars
  <2>2. event[r] # "none" /\ result[r] # 0
    BY <1>3, <2>1 DEF Course, EventAudited
  <2>3. UNCHANGED response \/ L!Reply(r)
    BY <2>1, <2>2 DEF Answer, L!Reply
  <2>4. L!RecordAndReply(r)
    BY <1>1, <2>1, <2>3 DEF L!RecordAndReply
  <2> QED
    BY <1>2, <2>1, <2>4
<1>15. ASSUME NEW r \in Requests, Crash(r) PROVE UNCHANGED L!vars
  BY <1>1, <1>15 DEF Crash, Hook!Crash, L!vars, dispatchVars
<1> QED
  BY <1>4, <1>5, <1>6, <1>10, <1>11, <1>12, <1>13, <1>14, <1>15 DEF Next, Progress

(* With all that fails inside it, the service is a ledger: verdicts are     *)
(* recorded once, told when recorded, and answered last (generation.py:52). *)
THEOREM LedgerImplemented == Spec => ImplementsLedger
<1>1. Init => L!Init /\ Silent
  <2> SUFFICES ASSUME Init PROVE L!Init /\ Silent
    OBVIOUS
  <2>1. Told = [r \in Requests |-> {}]
    BY DEF Init, Hook!Init, Told
  <2> QED
    BY <2>1 DEF Init, L!Init, L!NoRow, NoRow, Silent
<1> QED
  BY <1>1, Invariance, StepKeepsSilent, StepIsLedgers, PTL DEF Spec, ImplementsLedger, L!Spec

-----------------------------------------------------------------------------
(* Why every request is answered *)

Phases == [idle |-> 0, provider |-> 1, success |-> 2, dispatch |-> 3, except |-> 4,
           done |-> 6, dead |-> 6]

(* How far execute is; the dispatch of a failure comes after the except block began. *)
Phase(r) == IF pc[r] = "dispatch" /\ event[r] = "failed" THEN 5 ELSE Phases[pc[r]]

At(r) == <<pc[r], stage[r], attempts[r]>>

(* A request that moves gets to a later phase, or its dispatch nearer to its end. *)
GoesOn ==
    \A r \in Requests : At(r)' # At(r) =>
        \/ Phase(r)' > Phase(r)
        \/ Phase(r)' = Phase(r) /\ stage[r] \in D!Running /\ D!Left(r)' < D!Left(r)

(* No step moves a request but the one that takes it. *)
LEMMA OthersStand ==
    ASSUME IInv, NEW r \in Requests, NEW q \in Requests, q # r,
           Unroutable(r) \/ CallProvider(r) \/ Progress(r) \/ Crash(r)
    PROVE  At(q)' = At(q)
<1>1. /\ pc \in [Requests -> PCs] /\ stage \in [Requests -> Hook!Stages]
      /\ attempts \in [Requests -> 0..Hook!MaxAttempts]
  BY SameService DEF IInv, OwnTypeOK, D!IInv, Hook!TypeOK
<1> USE <1>1 DEF At, Goto, Answer, Except, dispatchVars, executeVars
<1>2. CASE Unroutable(r) \/ CallProvider(r) \/ ProviderReturns(r) \/ ProviderRaises(r)
  BY <1>2 DEF Unroutable, CallProvider, ProviderReturns, ProviderRaises
<1>3. CASE AuditSuccess(r) \/ AuditFailure(r)
  BY <1>3 DEF AuditSuccess, AuditFailure, Announce, Hook!Dispatch, Hook!Goto
<1>4. CASE DispatchStep(r)
  BY <1>4 DEF DispatchStep, Hook!Progress, Hook!RecordPending, Hook!PostAccepted,
              Hook!PostRetryable, Hook!PostFatal, Hook!RecordDelivered, Hook!RecordFailed,
              Hook!Commit, Hook!Goto
<1>5. CASE DispatchReturns(r) \/ DispatchRaises(r) \/ Crash(r)
  BY <1>5 DEF DispatchReturns, DispatchRaises, Crash, Hook!Crash, Hook!Goto
<1> QED
  BY <1>2, <1>3, <1>4, <1>5 DEF Progress

LEMMA StepGoesOn == IInv /\ [Next]_vars => [GoesOn]_vars
<1> SUFFICES ASSUME IInv, Next, NEW r \in Requests, At(r)' # At(r)
             PROVE  \/ Phase(r)' > Phase(r)
                    \/ Phase(r)' = Phase(r) /\ stage[r] \in D!Running /\ D!Left(r)' < D!Left(r)
  BY DEF GoesOn
<1>0. pc \in [Requests -> PCs]
  BY DEF IInv, OwnTypeOK
<1>1. Unroutable(r) \/ CallProvider(r) \/ Progress(r) \/ Crash(r)
  BY OthersStand DEF Next
<1>2. ASSUME NEW l \in PCs, Goto(r, l), Phases[l] > Phases[pc[r]],
             pc[r] = "dispatch" /\ event[r] = "failed" => l \in {"done", "dead"}
      PROVE  Phase(r)' > Phase(r)
  BY <1>0, <1>2 DEF Goto, Phase, Phases, PCs
<1>3. ASSUME NEW status, Answer(r, status), pc[r] # "done", pc[r] # "dead"
      PROVE  Phase(r)' > Phase(r)
  BY <1>0, <1>2, <1>3 DEF Answer, Phases, PCs
<1>4. CASE Unroutable(r) \/ CallProvider(r)
  BY <1>2, <1>3, <1>4 DEF Unroutable, CallProvider, Phases, PCs
<1>5. CASE ProviderReturns(r) \/ ProviderRaises(r)
  BY <1>2, <1>5 DEF ProviderReturns, ProviderRaises, Except, Phases, PCs
<1>6. CASE AuditSuccess(r)
  BY <1>2, <1>3, <1>6 DEF AuditSuccess, Announce, Except, Phases, PCs
<1>7. CASE AuditFailure(r)
  <2>1. CASE Answer(r, 500) \/ Answer(r, raised[r])
    BY <1>3, <1>7, <2>1 DEF AuditFailure
  <2>2. CASE Hook!Dispatch(r, "failed") /\ Goto(r, "dispatch")
    <3>1. event'[r] = "failed"
      BY <2>2, OwnTypes DEF Hook!Dispatch
    <3> QED
      BY <1>0, <1>7, <2>2, <3>1 DEF AuditFailure, Goto, Phase, Phases
  <2> QED
    BY <1>7, <2>1, <2>2 DEF AuditFailure, Announce
<1>8. CASE DispatchStep(r)
  <2>1. /\ Hook!Progress(r) /\ UNCHANGED executeVars
        /\ stage[r] \in Hook!Running
    BY <1>8 DEF DispatchStep, Hook!Progress, Hook!RecordPending, Hook!PostAccepted,
                Hook!PostRetryable, Hook!PostFatal, Hook!RecordDelivered, Hook!RecordFailed,
                Hook!Running
  <2>2. Phase(r)' = Phase(r)
    BY <2>1, ProgressEffect DEF Phase, executeVars
  <2>3. <<stage[r], attempts[r]>>' # <<stage[r], attempts[r]>>
    BY <2>1 DEF At, executeVars
  <2>4. stage[r] \in D!Running
    BY <2>1 DEF Hook!Running, D!Running
  <2>5. D!NearerToEnd
    <3>1. D!Next
      BY <2>1, SameService DEF Hook!Next
    <3>2. ~ UNCHANGED D!vars
      BY <2>3 DEF D!vars
    <3> QED
      BY <3>1, <3>2, D!StepEndsNearer, ServiceAssumption DEF IInv
  <2> QED
    BY <2>2, <2>3, <2>4, <2>5 DEF D!NearerToEnd
<1>9. CASE DispatchReturns(r) \/ DispatchRaises(r)
  BY <1>2, <1>3, <1>9 DEF DispatchReturns, DispatchRaises, Except, Phases, PCs
<1>10. CASE Crash(r)
  BY <1>2, <1>10 DEF Crash, Phases, PCs
<1> QED
  BY <1>1, <1>4, <1>5, <1>6, <1>7, <1>8, <1>9, <1>10 DEF Progress

(* execute has no way back: although its except block runs a second commit  *)
(* after a commit that raised, each request goes through at most six        *)
(* phases, and a dispatch within one of them ends (generation.py:52-111).   *)
THEOREM ExecuteEnds == Spec => [][GoesOn]_vars
BY Invariance, StepGoesOn, PTL DEF Spec

-----------------------------------------------------------------------------
(* What it takes to lose an audit row *)

DistinctIds == \A r, q \in Requests : id[r] = id[q] => r = q

(* Nothing is on record under the id of r before r tried. *)
Fresh(r) ==
    pc[r] \in {"idle", "provider", "success"} \/ (pc[r] = "except" /\ session[r] = "usable")
        => audit[id[r]] = NoRow

Undisturbed ==
    ~DatabaseMayFail /\ DistinctIds =>
        \A r \in Requests : session[r] = "usable" /\ Fresh(r)

(* Without failing commits and shared ids, no step breaks a session or puts *)
(* a row where another request will insert its own.                         *)
LEMMA StepUndisturbed == IInv /\ Undisturbed /\ [Next]_vars => Undisturbed'
<1> SUFFICES ASSUME IInv, Undisturbed, [Next]_vars, ~DatabaseMayFail, DistinctIds',
                    NEW q \in Requests
             PROVE  session'[q] = "usable" /\ Fresh(q)'
  BY DEF Undisturbed
<1>0. id' = id /\ id \in [Requests -> Ids]
  BY DEF IInv, OwnTypeOK, Next, vars, executeVars, Unroutable, CallProvider, Progress,
         ProviderReturns, ProviderRaises, AuditSuccess, AuditFailure, DispatchStep,
         DispatchReturns, DispatchRaises, Crash
<1>1. DistinctIds /\ \A r \in Requests : session[r] = "usable" /\ Fresh(r)
  BY <1>0 DEF DistinctIds, Undisturbed
<1>2. /\ pc \in [Requests -> PCs] /\ session \in [Requests -> {"usable", "broken"}]
      /\ audit \in [Ids -> AuditRow]
  BY OwnTypes DEF OwnTypeOK
<1>3. ASSUME UNCHANGED <<session, audit>>,
             pc'[q] \in {"idle", "provider", "success"} =>
                pc[q] \in {"idle", "provider", "success"},
             pc'[q] = "except" => pc[q] \in {"provider", "success", "except"}
      PROVE  session'[q] = "usable" /\ Fresh(q)'
  BY <1>0, <1>1, <1>3 DEF Fresh
<1>4. ASSUME NEW r \in Requests, Unroutable(r) \/ CallProvider(r) \/ ProviderReturns(r)
                                  \/ ProviderRaises(r)
      PROVE  session'[q] = "usable" /\ Fresh(q)'
  BY <1>2, <1>3, <1>4 DEF Unroutable, CallProvider, ProviderReturns, ProviderRaises, Answer,
                    Except, Goto, dispatchVars
<1>5. ASSUME NEW r \in Requests, NEW status \in {"success", "failed"},
             pc[r] \in {"success", "except"}
      PROVE  ~ AuditRaises(r, status)
  BY <1>1, <1>5 DEF Fresh, AuditRaises
<1>6. ASSUME NEW r \in Requests, AuditSuccess(r) \/ AuditFailure(r)
      PROVE  session'[q] = "usable" /\ Fresh(q)'
  <2>1. PICK status \in {"success", "failed"}, e \in Hook!Events,
               s \in {200, raised[r]} :
            Audited(r, status) /\ Announce(r, e, s)
    BY <1>5, <1>6 DEF AuditSuccess, AuditFailure, Hook!Events
  <2>2. session' = session
    BY <2>1 DEF Audited, Hook!CommitSucceeds
  <2>3. pc'[r] \in {"dispatch", "done"} /\ \A p \in Requests \ {r} : pc'[p] = pc[p]
    BY <1>2, <2>1 DEF Announce, Answer, Goto
  <2>4. q # r => audit'[id[q]] = audit[id[q]]
    <3>1. q # r => id[q] # id[r]
      BY <1>1 DEF DistinctIds
    <3> QED
      BY <1>0, <1>2, <2>1, <3>1 DEF Audited, Insert
  <2> QED
    BY <1>0, <1>1, <2>2, <2>3, <2>4 DEF Fresh
<1>7. ASSUME NEW r \in Requests, NEW status, NEW next, NEW onError,
             Hook!Commit(r, status, next, onError)
      PROVE  session' = session
  BY <1>1, <1>7 DEF Hook!Commit, Hook!CommitSucceeds, Hook!CommitFails
<1>8. ASSUME NEW r \in Requests, DispatchStep(r) PROVE session'[q] = "usable" /\ Fresh(q)'
  <2>1. session' = session
    BY <1>7, <1>8 DEF DispatchStep, Hook!Progress, Hook!RecordPending, Hook!PostAccepted,
                Hook!PostRetryable, Hook!PostFatal, Hook!RecordDelivered, Hook!RecordFailed
  <2> QED
    BY <1>3, <1>8, <2>1 DEF DispatchStep, executeVars
<1>9. ASSUME NEW r \in Requests, DispatchReturns(r) PROVE session'[q] = "usable" /\ Fresh(q)'
  BY <1>2, <1>3, <1>9 DEF DispatchReturns, Answer, Goto, dispatchVars
<1>10. ASSUME NEW r \in Requests PROVE ~ DispatchRaises(r)
  BY <1>1 DEF DispatchRaises, IInv, D!IInv, D!Course
<1>11. ASSUME NEW r \in Requests, Crash(r) PROVE session'[q] = "usable" /\ Fresh(q)'
  BY <1>2, <1>3, <1>11 DEF Crash, Hook!Crash, Goto, dispatchVars
<1>12. CASE UNCHANGED vars
  BY <1>3, <1>12 DEF vars, dispatchVars, executeVars
<1> QED
  BY <1>4, <1>6, <1>8, <1>9, <1>10, <1>11, <1>12 DEF Next, Progress

(* A repeated request id and a database that fails are all that can leave   *)
(* an answered request without its row: with neither, every request whose   *)
(* provider was called is on record, and answered what its provider said    *)
(* (generation.py:64, :97).                                                 *)
THEOREM DistinctIdsAreAudited ==
    Spec => [](~DatabaseMayFail /\ DistinctIds =>
                 /\ EveryAnswerAudited
                 /\ \A r \in Requests : pc[r] = "done" /\ result[r] # 0 => response[r] = result[r])
<1>1. Init => Undisturbed
  BY DEF Init, Hook!Init, Undisturbed, Fresh, NoRow
<1>2. IInv /\ Undisturbed =>
         (~DatabaseMayFail /\ DistinctIds =>
            /\ EveryAnswerAudited
            /\ \A r \in Requests : pc[r] = "done" /\ result[r] # 0 => response[r] = result[r])
  <2> SUFFICES ASSUME IInv, Undisturbed, ~DatabaseMayFail, DistinctIds,
                      NEW r \in Requests, pc[r] = "done", result[r] # 0
               PROVE  audit[id[r]].owner = r /\ response[r] = result[r]
    BY DEF EveryAnswerAudited
  <2>1. session[r] = "usable"
    BY DEF Undisturbed
  <2>2. /\ response[r] = result[r]
        /\ Owns(r, "success") \/ Owns(r, "failed")
    BY <2>1 DEF IInv, Local, Honest
  <2> QED
    BY <2>2 DEF Owns
<1> QED
  BY <1>1, <1>2, Invariance, StepUndisturbed, PTL DEF Spec
=============================================================================
