--------------------------- MODULE WebhookProofs ---------------------------
(***************************************************************************)
(* What holds of the webhook deliveries of every set of requests, for      *)
(* every number of retries, under any caller and whatever commits fail.    *)
(***************************************************************************)
EXTENDS Webhook, TLAPS

(* Nothing of the request is on record and its receiver knows nothing. *)
Clean(r) ==
    \A e \in Events : deliveries[<<r, e>>] = Absent /\ received[<<r, e>>] = 0

(* What the stage of a request says about its current delivery. *)
Course(r) ==
    /\ stage[r] \in Running => event[r] \in Events
    /\ stage[r] = "idle" => Clean(r)
    /\ stage[r] = "pending" => attempts[r] = 0 /\ (session[r] = "usable" => Clean(r))
    /\ stage[r] = "post" =>
          /\ session[r] = "usable" /\ attempts[r] < MaxAttempts
          /\ deliveries[Delivery(r)].status = "PENDING"
          /\ received[Delivery(r)] <= attempts[r]
    /\ stage[r] = "accepted" =>
          /\ session[r] = "usable"
          /\ deliveries[Delivery(r)].status = "PENDING"
          /\ received[Delivery(r)] \in 1..attempts[r]
    /\ stage[r] = "failing" /\ session[r] = "usable" =>
          deliveries[Delivery(r)].status = "PENDING"
    /\ stage[r] = "raised" => session[r] = "broken"

IInv ==
    /\ TypeOK
    /\ \A r \in Requests : Course(r)
    /\ RecordedBeforePosted
    /\ DeliveredMeansReceived

-----------------------------------------------------------------------------

LEMMA MaxAttemptsType == MaxAttempts \in Nat \ {0}
BY WebhookAssumption DEF MaxAttempts

LEMMA Initially == Init => IInv
BY MaxAttemptsType
DEF Init, IInv, TypeOK, Course, Clean, RecordedBeforePosted, DeliveredMeansReceived,
    Absent, Stages, Running, Events

(* The step changes nothing of this request's. *)
Untouched(s) ==
    /\ stage'[s] = stage[s] /\ event'[s] = event[s] /\ session'[s] = session[s]
    /\ attempts'[s] = attempts[s]
    /\ \A e \in Events :
          /\ deliveries'[<<s, e>>] = deliveries[<<s, e>>]
          /\ received'[<<s, e>>] = received[<<s, e>>]

(* What another request's step leaves alone keeps its course. *)
LEMMA CourseStays == ASSUME IInv, NEW s \in Requests, Untouched(s) PROVE Course(s)'
<1> USE DEF Untouched
<1>1. stage[s] \in Running => event[s] \in Events
  BY DEF IInv, Course
<1>2. /\ Delivery(s)' = Delivery(s)
      /\ stage[s] \in Running =>
            /\ deliveries'[Delivery(s)] = deliveries[Delivery(s)]
            /\ received'[Delivery(s)] = received[Delivery(s)]
  BY <1>1 DEF Delivery
<1>3. Clean(s) => Clean(s)'
  BY DEF Clean, Absent, Events
<1>4. MaxAttempts' = MaxAttempts
  BY DEF MaxAttempts
<1>5. Course(s)
  BY DEF IInv
<1> QED
  BY <1>2, <1>3, <1>4, <1>5 DEF Course, Running, Events

(* The current delivery of a request in dispatch is a row of the table. *)
LEMMA DeliveryType ==
    ASSUME IInv, NEW r \in Requests, stage[r] \in Running
    PROVE  /\ event[r] \in Events
           /\ Delivery(r) \in Requests \X Events
           /\ \A s \in Requests \ {r}, e \in Events : <<s, e>> # Delivery(r)
BY DEF IInv, Course, Delivery

(* A commit changes a row only while it is unsettled and its session usable. *)
LEMMA CommitEffect ==
    ASSUME IInv, NEW r \in Requests, stage[r] \in Running \ {"post"},
           NEW status \in {"PENDING", "DELIVERED", "FAILED"},
           NEW next \in Stages, NEW onError \in Stages,
           Commit(r, status, next, onError)
    PROVE  /\ TypeOK'
           /\ \A s \in Requests \ {r} : Untouched(s)
           /\ RecordedBeforePosted'
           /\ UNCHANGED deliveries \/
                 (session[r] = "usable" /\ Write(r, status)
                    /\ deliveries[Delivery(r)].status \in {"absent", "PENDING"})
<1> USE DEF Running
<1>1. Delivery(r) \in Requests \X Events
  BY DeliveryType
<1>2. UNCHANGED deliveries \/ (session[r] = "usable" /\ Write(r, status))
  BY DEF Commit, CommitSucceeds, MayHaveApplied
<1>3. session[r] = "usable" => deliveries[Delivery(r)].status \in {"absent", "PENDING"}
  BY DeliveryType DEF IInv, Course, Clean, Absent, Delivery
<1>4. MaxAttempts' = MaxAttempts
  BY DEF MaxAttempts
<1>5. /\ stage' \in [Requests -> Stages]
      /\ session' \in [Requests -> {"usable", "broken"}]
      /\ \A s \in Requests \ {r} : stage'[s] = stage[s] /\ session'[s] = session[s]
  BY DEF IInv, TypeOK, Commit, CommitSucceeds, CommitFails, Goto
<1>6. deliveries' \in [Requests \X Events ->
                         [status : {"absent", "PENDING", "DELIVERED", "FAILED"},
                          attempts : 0..MaxAttempts]]
  <2>1. attempts[r] \in 0..MaxAttempts
    BY DEF IInv, TypeOK
  <2> QED
    BY <1>1, <1>2, <2>1 DEF IInv, TypeOK, Write
<1>7. UNCHANGED <<event, attempts, received>>
  BY DEF Commit
<1>8. TypeOK'
  BY <1>4, <1>5, <1>6, <1>7 DEF IInv, TypeOK, Events, Stages
<1>9. \A s \in Requests \ {r} : Untouched(s)
  <2>1. \A s \in Requests \ {r}, e \in Events : deliveries'[<<s, e>>] = deliveries[<<s, e>>]
    BY <1>2, DeliveryType DEF Write, IInv, TypeOK
  <2> QED
    BY <1>5, <1>7, <2>1 DEF Untouched
<1>10. RecordedBeforePosted'
  BY <1>1, <1>2, <1>7 DEF IInv, TypeOK, RecordedBeforePosted, Write, Absent
<1> QED
  BY <1>2, <1>3, <1>8, <1>9, <1>10

(* A POST changes the number of copies of the current delivery alone. *)
LEMMA PostEffect ==
    ASSUME IInv, NEW r \in Requests, PostAccepted(r) \/ PostRetryable(r) \/ PostFatal(r)
    PROVE  /\ TypeOK'
           /\ \A s \in Requests \ {r} : Untouched(s)
           /\ RecordedBeforePosted' /\ DeliveredMeansReceived'
           /\ UNCHANGED <<session, event, deliveries>>
           /\ attempts'[r] = attempts[r] + 1
<1> USE DEF Running
<1>1. /\ stage[r] = "post"
      /\ UNCHANGED <<session, event, deliveries>>
      /\ attempts' = [attempts EXCEPT ![r] = @ + 1]
  BY DEF PostAccepted, PostRetryable, PostFatal
<1>2. PICK n \in {0, 1} : received' = [received EXCEPT ![Delivery(r)] = @ + n]
  <2>1. CASE PostAccepted(r)
    BY <2>1 DEF PostAccepted, Receives
  <2>2. CASE PostRetryable(r)
    BY <2>2 DEF PostRetryable, Receives
  <2>3. CASE PostFatal(r)
    <3>1. received' = [received EXCEPT ![Delivery(r)] = @ + 0]
      BY <1>1, <2>3, DeliveryType DEF PostFatal, IInv, TypeOK
    <3> QED
      BY <3>1
  <2> QED
    BY <2>1, <2>2, <2>3
<1>3. /\ Delivery(r) \in Requests \X Events
      /\ received[Delivery(r)] \in Nat /\ attempts[r] \in Nat
      /\ received[Delivery(r)] <= attempts[r] /\ attempts[r] < MaxAttempts
      /\ deliveries[Delivery(r)].status = "PENDING"
      /\ MaxAttempts \in Nat
  BY <1>1, DeliveryType, MaxAttemptsType DEF IInv, TypeOK, Course
<1>4. MaxAttempts' = MaxAttempts
  BY DEF MaxAttempts
<1>5. stage' \in [Requests -> Stages] /\ \A s \in Requests \ {r} : stage'[s] = stage[s]
  BY DEF PostAccepted, PostRetryable, PostFatal, Goto, IInv, TypeOK, Stages
<1>6. received' \in [Requests \X Events -> 0..MaxAttempts]
  <2>1. received[Delivery(r)] + n \in 0..MaxAttempts
    BY <1>3
  <2> QED
    BY <1>2, <1>3, <2>1 DEF IInv, TypeOK
<1>7. attempts' \in [Requests -> 0..MaxAttempts] /\ attempts'[r] = attempts[r] + 1
  BY <1>1, <1>3 DEF IInv, TypeOK
<1>8. TypeOK'
  BY <1>1, <1>4, <1>5, <1>6, <1>7 DEF IInv, TypeOK, Stages, Events
<1>9. \A d \in Requests \X Events : d # Delivery(r) => received'[d] = received[d]
  BY <1>2, <1>3 DEF IInv, TypeOK
<1>10. \A s \in Requests \ {r} : Untouched(s)
  BY <1>1, <1>5, <1>9, DeliveryType DEF Untouched, IInv, TypeOK
<1>11. DOMAIN received = Requests \X Events /\ DOMAIN received' = Requests \X Events
  BY <1>6 DEF IInv, TypeOK
<1>12. RecordedBeforePosted'
  BY <1>1, <1>3, <1>9, <1>11 DEF IInv, RecordedBeforePosted, Absent
<1>13. DeliveredMeansReceived'
  BY <1>1, <1>3, <1>9, <1>11 DEF IInv, TypeOK, DeliveredMeansReceived
<1> QED
  BY <1>1, <1>7, <1>8, <1>10, <1>12, <1>13

LEMMA StepKeepsIInv == IInv /\ [Next]_vars => IInv'
<1> SUFFICES ASSUME IInv, [Next]_vars PROVE IInv'
  OBVIOUS
<1> USE DEF Running
<1>1. ASSUME NEW r \in Requests, NEW e \in Events, Dispatch(r, e) PROVE IInv'
  <2>1. MaxAttempts' = MaxAttempts /\ MaxAttempts \in Nat
    BY MaxAttemptsType DEF MaxAttempts
  <2>2. TypeOK'
    BY <1>1, <2>1 DEF Dispatch, Goto, IInv, TypeOK, Stages, Events
  <2>3. Course(r)'
    BY <1>1 DEF Dispatch, Goto, IInv, TypeOK, Course, Clean, Absent, Events, Stages
  <2>4. \A s \in Requests \ {r} : Untouched(s)
    BY <1>1 DEF Dispatch, Goto, Untouched, IInv, TypeOK
  <2>5. RecordedBeforePosted' /\ DeliveredMeansReceived'
    BY <1>1 DEF Dispatch, IInv, RecordedBeforePosted, DeliveredMeansReceived, Absent
  <2> QED
    BY <2>2, <2>3, <2>4, <2>5, CourseStays DEF IInv
<1>2. ASSUME NEW r \in Requests, RecordPending(r) PROVE IInv'
  <2>1. stage[r] = "pending" /\ Commit(r, "PENDING", "post", "raised")
    BY <1>2 DEF RecordPending
  <2>2. /\ TypeOK' /\ RecordedBeforePosted' /\ \A s \in Requests \ {r} : Untouched(s)
        /\ UNCHANGED deliveries \/ Write(r, "PENDING")
    BY <2>1, CommitEffect DEF Stages
  <2>3. DeliveredMeansReceived'
    BY <2>1, <2>2 DEF Commit, Write, IInv, TypeOK, DeliveredMeansReceived
  <2>4. Course(r)'
    <3>1. CASE CommitSucceeds(r) /\ Write(r, "PENDING") /\ Goto(r, "post")
      <4>1. /\ stage'[r] = "post" /\ session'[r] = "usable" /\ attempts'[r] = 0
            /\ event'[r] = event[r] /\ event[r] \in Events
            /\ deliveries'[Delivery(r)].status = "PENDING"
            /\ received'[Delivery(r)] = 0
        BY <2>1, <3>1, DeliveryType
        DEF Commit, CommitSucceeds, Write, Goto, IInv, TypeOK, Course, Clean, Delivery
      <4>2. Delivery(r)' = Delivery(r) /\ MaxAttempts' > 0
        BY <4>1, MaxAttemptsType DEF Delivery, MaxAttempts
      <4> QED
        BY <4>1, <4>2 DEF Course
    <3>2. CASE CommitFails(r) /\ Goto(r, "raised")
      BY <2>1, <3>2 DEF CommitFails, Goto, Course, IInv, TypeOK
    <3> QED
      BY <2>1, <3>1, <3>2 DEF Commit
  <2> QED
    BY <2>2, <2>3, <2>4, CourseStays DEF IInv
<1>3. ASSUME NEW r \in Requests, PostAccepted(r) \/ PostRetryable(r) \/ PostFatal(r) PROVE IInv'
  <2>1. Course(r)'
    <3>1. /\ stage[r] = "post" /\ session'[r] = "usable" /\ event'[r] = event[r]
          /\ event[r] \in Events /\ deliveries'[Delivery(r)].status = "PENDING"
          /\ received[Delivery(r)] \in Nat /\ attempts[r] \in Nat
          /\ received[Delivery(r)] <= attempts[r]
          /\ attempts'[r] = attempts[r] + 1
      BY <1>3, PostEffect, DeliveryType
      DEF PostAccepted, PostRetryable, PostFatal, IInv, TypeOK, Course
    <3>2. Delivery(r)' = Delivery(r) /\ MaxAttempts' = MaxAttempts
      BY <3>1 DEF Delivery, MaxAttempts
    <3>3. CASE PostAccepted(r)
      <4>1. stage'[r] = "accepted" /\ received'[Delivery(r)] = received[Delivery(r)] + 1
        BY <3>1, <3>3, DeliveryType DEF PostAccepted, Receives, Goto, IInv, TypeOK
      <4> QED
        BY <3>1, <3>2, <4>1 DEF Course
    <3>4. CASE PostRetryable(r)
      <4>1. \E n \in {0, 1} : received'[Delivery(r)] = received[Delivery(r)] + n
        BY <3>1, <3>4, DeliveryType DEF PostRetryable, Receives, IInv, TypeOK
      <4>2. stage'[r] \in {"post", "failing"}
        BY <3>4 DEF PostRetryable, Goto, IInv, TypeOK
      <4>3. stage'[r] = "post" => attempts'[r] < MaxAttempts
        <5>1. stage'[r] = "post" => attempts'[r] < WebhookMaxRetries
          BY <3>4 DEF PostRetryable, RetriesLeft, Goto, IInv, TypeOK
        <5> QED
          BY <3>1, <5>1, WebhookAssumption DEF MaxAttempts
      <4> QED
        BY <3>1, <3>2, <4>1, <4>2, <4>3 DEF Course
    <3>5. CASE PostFatal(r)
      <4>1. stage'[r] = "failing"
        BY <3>5 DEF PostFatal, Goto, IInv, TypeOK
      <4> QED
        BY <3>1, <3>2, <4>1 DEF Course
    <3> QED
      BY <1>3, <3>3, <3>4, <3>5
  <2> QED
    BY <1>3, <2>1, PostEffect, CourseStays DEF IInv
<1>4. ASSUME NEW r \in Requests, RecordDelivered(r) PROVE IInv'
  <2>1. stage[r] = "accepted" /\ Commit(r, "DELIVERED", "returned", "failing")
    BY <1>4 DEF RecordDelivered
  <2>2. /\ TypeOK' /\ RecordedBeforePosted' /\ \A s \in Requests \ {r} : Untouched(s)
        /\ UNCHANGED deliveries \/ Write(r, "DELIVERED")
    BY <2>1, CommitEffect DEF Stages
  <2>3. DeliveredMeansReceived'
    <3>1. received[Delivery(r)] \in 1..attempts[r] /\ UNCHANGED received
      BY <2>1 DEF IInv, Course, Commit
    <3> QED
      BY <2>2, <3>1 DEF Write, IInv, TypeOK, DeliveredMeansReceived
  <2>4. Course(r)'
    <3>1. /\ stage'[r] \in {"returned", "failing"}
          /\ stage'[r] = "failing" => session'[r] = "broken" /\ event'[r] \in Events
      BY <2>1, DeliveryType DEF Commit, CommitFails, CommitSucceeds, Goto, IInv, TypeOK
    <3> QED
      BY <3>1 DEF Course
  <2> QED
    BY <2>2, <2>3, <2>4, CourseStays DEF IInv
<1>5. ASSUME NEW r \in Requests, RecordFailed(r) PROVE IInv'
  <2>1. stage[r] = "failing" /\ Commit(r, "FAILED", "returned", "raised")
    BY <1>5 DEF RecordFailed
  <2>2. /\ TypeOK' /\ RecordedBeforePosted' /\ \A s \in Requests \ {r} : Untouched(s)
        /\ UNCHANGED deliveries \/ Write(r, "FAILED")
    BY <2>1, CommitEffect DEF Stages
  <2>3. DeliveredMeansReceived'
    BY <2>1, <2>2 DEF Commit, Write, IInv, TypeOK, DeliveredMeansReceived
  <2>4. Course(r)'
    <3>1. /\ stage'[r] \in {"returned", "raised"}
          /\ stage'[r] = "raised" => session'[r] = "broken"
      BY <2>1 DEF Commit, CommitFails, CommitSucceeds, Goto, IInv, TypeOK
    <3> QED
      BY <3>1 DEF Course
  <2> QED
    BY <2>2, <2>3, <2>4, CourseStays DEF IInv
<1>6. ASSUME NEW r \in Requests, Crash(r) \/ CallerCommitFails(r) PROVE IInv'
  <2>1. MaxAttempts' = MaxAttempts
    BY DEF MaxAttempts
  <2>2. TypeOK'
    BY <1>6, <2>1 DEF Crash, CallerCommitFails, Goto, IInv, TypeOK, Stages, Events
  <2>3. Course(r)'
    BY <1>6 DEF Crash, CallerCommitFails, Goto, IInv, TypeOK, Course, Clean, Absent, Events
  <2>4. \A s \in Requests \ {r} : Untouched(s)
    BY <1>6 DEF Crash, CallerCommitFails, Goto, Untouched, IInv, TypeOK
  <2>5. RecordedBeforePosted' /\ DeliveredMeansReceived'
    BY <1>6 DEF Crash, CallerCommitFails, IInv, RecordedBeforePosted, DeliveredMeansReceived, Absent
  <2> QED
    BY <2>2, <2>3, <2>4, <2>5, CourseStays DEF IInv
<1>7. CASE UNCHANGED vars
  <2>1. MaxAttempts' = MaxAttempts
    BY DEF MaxAttempts
  <2>2. \A s \in Requests : Course(s)'
    BY <1>7, CourseStays DEF vars, Untouched
  <2>3. TypeOK' /\ RecordedBeforePosted' /\ DeliveredMeansReceived'
    BY <1>7, <2>1 DEF vars, IInv, TypeOK, RecordedBeforePosted, DeliveredMeansReceived,
                      Stages, Events, Absent
  <2> QED
    BY <2>2, <2>3 DEF IInv
<1> QED
  BY <1>1, <1>2, <1>3, <1>4, <1>5, <1>6, <1>7 DEF Next, Progress

(* No step changes a settled row. *)
LEMMA StepSettles ==
    IInv /\ [Next]_vars =>
        [\A d \in DOMAIN deliveries :
           deliveries[d].status \in {"DELIVERED", "FAILED"} => deliveries'[d] = deliveries[d]]_vars
<1> SUFFICES ASSUME IInv, Next, NEW d \in DOMAIN deliveries,
                    deliveries[d].status \in {"DELIVERED", "FAILED"}
             PROVE  deliveries'[d] = deliveries[d]
  OBVIOUS
<1> USE DEF Running
<1>1. ASSUME NEW r \in Requests, NEW status \in {"PENDING", "DELIVERED", "FAILED"},
             NEW next \in Stages, NEW onError \in Stages,
             stage[r] \in Running \ {"post"}, Commit(r, status, next, onError)
      PROVE  deliveries'[d] = deliveries[d]
  BY <1>1, CommitEffect DEF Write
<1>2. ASSUME NEW r \in Requests, RecordPending(r) \/ RecordDelivered(r) \/ RecordFailed(r)
      PROVE  deliveries'[d] = deliveries[d]
  BY <1>1, <1>2 DEF RecordPending, RecordDelivered, RecordFailed, Stages
<1> QED
  BY <1>2 DEF Next, Progress, Dispatch, PostAccepted, PostRetryable, PostFatal, Crash,
              CallerCommitFails

-----------------------------------------------------------------------------

LEMMA Invariance == Spec => []IInv
BY Initially, StepKeepsIInv, PTL DEF Spec

(* Every variable of dispatch keeps its type; in particular no delivery is  *)
(* attempted more often than stop_after_attempt allows (webhook.py:107).    *)
THEOREM TypeCorrect == Spec => []TypeOK
<1>1. IInv => TypeOK
  BY DEF IInv
<1> QED
  BY <1>1, Invariance, PTL

(* No receiver gets an event that webhook_deliveries does not know of.      *)
THEOREM WrittenAhead == Spec => []RecordedBeforePosted
<1>1. IInv => RecordedBeforePosted
  BY DEF IInv
<1> QED
  BY <1>1, Invariance, PTL

(* DELIVERED is only said of events that were received (webhook.py:128).    *)
THEOREM DeliveredWasReceived == Spec => []DeliveredMeansReceived
<1>1. IInv => DeliveredMeansReceived
  BY DEF IInv
<1> QED
  BY <1>1, Invariance, PTL

(* A settled row is never changed again, although the except block may run  *)
(* after the DELIVERED commit was applied (webhook.py:132, :150).           *)
THEOREM SettledStays == Spec => SettledForGood
BY Invariance, StepSettles, PTL DEF Spec, SettledForGood

-----------------------------------------------------------------------------
(* Why every dispatch ends *)

(* At most how many steps of its own a running dispatch has left. *)
Left(r) ==
    CASE stage[r] = "pending"     -> MaxAttempts + 3
      [] stage[r] = "post"        -> MaxAttempts + 2 - attempts[r]
      [] stage[r] = "accepted"    -> 2
      [] stage[r] = "failing"     -> 1
      [] stage[r] \notin Running  -> 0

(* Whatever moves a running dispatch brings it nearer to its end. *)
NearerToEnd ==
    \A r \in Requests :
        stage[r] \in Running /\ <<stage[r], attempts[r]>>' # <<stage[r], attempts[r]>>
            => Left(r)' < Left(r)

EndsNearer == [][NearerToEnd]_vars

LEMMA LeftType == ASSUME IInv, NEW r \in Requests PROVE Left(r) \in 0..(MaxAttempts + 3)
BY MaxAttemptsType DEF IInv, TypeOK, Course, Left, Running

LEMMA StepEndsNearer == IInv /\ [Next]_vars => [NearerToEnd]_vars
<1> SUFFICES ASSUME IInv, Next, NEW q \in Requests, stage[q] \in Running,
                    <<stage[q], attempts[q]>>' # <<stage[q], attempts[q]>>
             PROVE  Left(q)' < Left(q)
  BY DEF NearerToEnd
<1>0. /\ MaxAttempts' = MaxAttempts /\ MaxAttempts \in Nat \ {0}
      /\ attempts \in [Requests -> Nat] /\ stage \in [Requests -> Stages]
      /\ stage[q] = "post" => attempts[q] < MaxAttempts
  <2>1. MaxAttempts' = MaxAttempts
    BY DEF MaxAttempts
  <2> QED
    BY <2>1, MaxAttemptsType DEF IInv, TypeOK, Course
<1>1. ASSUME NEW r \in Requests, r # q,
             \/ \E e \in Events : Dispatch(r, e)
             \/ Progress(r) \/ Crash(r) \/ CallerCommitFails(r)
      PROVE  stage'[q] = stage[q] /\ attempts'[q] = attempts[q]
  BY <1>0, <1>1
  DEF Dispatch, Progress, Crash, CallerCommitFails, RecordPending, RecordDelivered,
      RecordFailed, PostAccepted, PostRetryable, PostFatal, Commit, Goto
<1>2. CASE Progress(q)
  <2>1. CASE RecordPending(q)
    <3>1. stage[q] = "pending" /\ attempts'[q] = attempts[q] /\ stage'[q] \in {"post", "raised"}
      BY <1>0, <2>1 DEF RecordPending, Commit, Goto
    <3>2. Left(q) = MaxAttempts + 3
      BY <3>1 DEF Left, Running
    <3>3. Left(q)' \in {0, MaxAttempts + 2 - attempts[q]}
      BY <1>0, <3>1 DEF Left, Running
    <3> QED
      BY <1>0, <3>2, <3>3
  <2>2. CASE PostAccepted(q) \/ PostRetryable(q) \/ PostFatal(q)
    <3>1. stage[q] = "post" /\ attempts'[q] = attempts[q] + 1
          /\ stage'[q] \in {"post", "accepted", "failing"}
      BY <1>0, <2>2 DEF PostAccepted, PostRetryable, PostFatal, Goto
    <3>2. Left(q) = MaxAttempts + 2 - attempts[q]
      BY <3>1 DEF Left, Running
    <3>3. attempts[q] \in Nat /\ attempts[q] < MaxAttempts
      BY <1>0, <3>1
    <3>4. CASE stage'[q] = "post"
      <4>0. attempts'[q] \in Nat /\ MaxAttempts' \in Nat /\ attempts'[q] = attempts[q] + 1
        BY <1>0, <3>1, <3>3
      <4>1. Left(q)' = MaxAttempts' + 2 - attempts'[q]
        BY <3>4, <4>0 DEF Left, Running
      <4> QED
        BY <1>0, <3>2, <3>3, <4>0, <4>1
    <3>5. CASE stage'[q] \in {"accepted", "failing"}
      <4>1. Left(q)' \in {1, 2}
        BY <3>5 DEF Left, Running
      <4> QED
        BY <1>0, <3>2, <3>3, <4>1
    <3> QED
      BY <3>1, <3>4, <3>5
  <2>3. CASE RecordDelivered(q)
    <3>1. stage[q] = "accepted" /\ stage'[q] \in {"returned", "failing"}
      BY <1>0, <2>3 DEF RecordDelivered, Commit, Goto
    <3> QED
      BY <3>1 DEF Left, Running
  <2>4. CASE RecordFailed(q)
    <3>1. stage[q] = "failing" /\ stage'[q] \in {"returned", "raised"}
      BY <1>0, <2>4 DEF RecordFailed, Commit, Goto
    <3> QED
      BY <3>1 DEF Left, Running
  <2> QED
    BY <1>2, <2>1, <2>2, <2>3, <2>4 DEF Progress
<1>3. CASE Crash(q)
  <2>1. stage'[q] = "dead"
    BY <1>0, <1>3 DEF Crash, Goto
  <2> QED
    BY <1>0, <2>1 DEF Left, Running
<1>4. CASE CallerCommitFails(q) \/ \E e \in Events : Dispatch(q, e)
  BY <1>4 DEF CallerCommitFails, Dispatch, Running
<1> QED
  BY <1>1, <1>2, <1>3, <1>4 DEF Next

(* A dispatch takes at most MaxAttempts + 3 steps: the retry loop has an    *)
(* end, whatever its caller, its database and its receiver do, and however  *)
(* the settings limit the attempts (webhook.py:105-126).                    *)
THEOREM DispatchEnds == Spec => EndsNearer /\ [](\A r \in Requests : Left(r) \in 0..(MaxAttempts + 3))
<1>1. IInv => \A r \in Requests : Left(r) \in 0..(MaxAttempts + 3)
  BY LeftType
<1> QED
  BY <1>1, Invariance, StepEndsNearer, PTL DEF Spec, EndsNearer
=============================================================================
