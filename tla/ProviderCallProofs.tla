------------------------- MODULE ProviderCallProofs -------------------------
(***************************************************************************)
(* What holds of a call to a provider for every retry budget, every set of *)
(* calls and of bodies: the retry loop of Upstream is implemented, and its *)
(* guarantees hold with the adapter in it.                                 *)
(***************************************************************************)
EXTENDS ProviderCall, AdapterProofs, SequenceTheorems, TLAPS

(* How the attempts so far and the answer hang together. *)
Loop ==
    /\ \A i \in 1..Len(trail) :
          (i < Len(trail) \/ answer = 0) => IsTransientError(Raised(trail[i]))
    /\ answer = 0 => Len(trail) < MaxAttempts
    /\ answer # 0 => trail # <<>>
    /\ answer = 200 => trail[Len(trail)] = "200"
    /\ answer \notin {0, 200} =>
          /\ answer = StatusOf(Raised(trail[Len(trail)]))
          /\ IsTransientError(Raised(trail[Len(trail)])) => Len(trail) = MaxAttempts

(* What was sent and opened for the attempts. *)
Account ==
    /\ call \in Calls
    /\ sent \in Seq({Request}) /\ Len(sent) <= Len(trail)
    /\ clients = (IF open THEN 1 ELSE 0) /\ open \in BOOLEAN
    /\ open <=> sent # <<>>

(* What is answered was read from the provider's body. *)
Reading ==
    /\ body \in Bodies \cup {NoBody}
    /\ response \in LLMResponse \cup {NoResponse}
    /\ answer = 200 =>
          /\ body \in Bodies
          /\ ~Unreadable(Provider, body)
          /\ body.reason \in Dialect(Provider) \cup {"absent", "null"}
          /\ response = Normalised(Provider, body)

IInv == TypeOK /\ Loop /\ Account /\ Reading

-----------------------------------------------------------------------------

LEMMA MaxAttemptsType == MaxAttempts \in Nat \ {0}
BY UpstreamAssumption DEF MaxAttempts

LEMMA ProviderType == ASSUME call \in Calls PROVE Provider \in Providers
<1>1. call.model.name \in Known
  BY ProviderCallAssumption
<1> QED
  BY <1>1 DEF Provider, Resolve, Known, GeminiNames, OpenAINames, AnthropicNames, Providers

LEMMA StatusOfType == ASSUME NEW exc PROVE StatusOf(exc) \in {500, 502, 503, 504}
BY DEF StatusOf

LEMMA Initially == CallInit => IInv
<1> SUFFICES ASSUME CallInit PROVE IInv
  OBVIOUS
<1>1. /\ trail = <<>> /\ Len(trail) = 0 /\ answer = 0
      /\ MaxAttempts \in Nat /\ Len(trail) < MaxAttempts
  BY MaxAttemptsType DEF CallInit, Init
<1>2. TypeOK
  BY <1>1 DEF TypeOK
<1>3. Loop
  BY <1>1 DEF Loop
<1>4. Account
  <2>1. sent = <<>> /\ Len(sent) = 0 /\ sent \in Seq({Request})
    BY DEF CallInit
  <2>2. call \in Calls /\ clients = 0 /\ ~open /\ open \in BOOLEAN
    BY DEF CallInit
  <2>3. clients = (IF open THEN 1 ELSE 0) /\ open \in BOOLEAN /\ (open <=> sent # <<>>)
    BY <2>1, <2>2
  <2>4. Len(sent) <= Len(trail)
    BY <1>1, <2>1, <2>2
  <2> QED
    BY <1>1, <2>1, <2>2, <2>3, <2>4 DEF Account
<1>5. Reading
  BY <1>1 DEF CallInit, Reading
<1> QED
  BY <1>2, <1>3, <1>4, <1>5 DEF IInv

-----------------------------------------------------------------------------
(* The loop *)

(* Every step of a call is a step of the loop. *)
LEMMA StepIsLoopStep == ASSUME IInv, CallNext PROVE Next
BY UpstreamAssumption, ProviderCallAssumption
DEF CallNext, NotConfigured, PostFails, PostAnswered, Next

LEMMA LoopStep ==
    ASSUME TypeOK, Loop, NEW outcome \in Outcomes,
           Succeeds(outcome) \/ Retries(outcome) \/ GivesUp(outcome)
    PROVE  /\ TypeOK' /\ Loop'
           /\ answer = 0 /\ trail' = Append(trail, outcome)
           /\ Len(trail') = Len(trail) + 1 /\ trail'[Len(trail')] = outcome
           /\ Len(trail) < MaxAttempts
<1>1. answer = 0 /\ trail' = Append(trail, outcome) /\ trail \in Seq(Outcomes)
  BY DEF Succeeds, Retries, GivesUp, Attempt, TypeOK
<1>2. /\ Len(trail) \in Nat /\ Len(trail') = Len(trail) + 1
      /\ trail'[Len(trail')] = outcome /\ trail' \in Seq(Outcomes)
      /\ \A i \in 1..Len(trail) : trail'[i] = trail[i]
      /\ trail' # <<>>
  BY <1>1
<1>3. MaxAttempts \in Nat \ {0} /\ Len(trail) < MaxAttempts /\ MaxAttempts' = MaxAttempts
  BY <1>1, MaxAttemptsType DEF Loop, MaxAttempts
<1>4. LastAttempt <=> Len(trail') = MaxAttempts
  BY <1>2, <1>3, UpstreamAssumption DEF LastAttempt, MaxAttempts
<1>5. \A i \in 1..Len(trail) : IsTransientError(Raised(trail'[i]))
  BY <1>1, <1>2 DEF Loop
<1>6. CASE Succeeds(outcome)
  <2>1. answer' = 200 /\ outcome = "200"
    BY <1>6 DEF Succeeds
  <2>2. TypeOK'
    BY <1>2, <1>3, <2>1 DEF TypeOK
  <2>3. Loop'
    BY <1>2, <1>3, <1>5, <2>1 DEF Loop
  <2> QED
    BY <1>1, <1>2, <1>3, <2>2, <2>3
<1>7. CASE Retries(outcome)
  <2>1. answer' = 0 /\ IsTransientError(Raised(outcome)) /\ Len(trail') # MaxAttempts
    BY <1>1, <1>4, <1>7 DEF Retries
  <2>2. TypeOK'
    BY <1>2, <1>3, <2>1 DEF TypeOK
  <2>3. Loop'
    BY <1>2, <1>3, <1>5, <2>1 DEF Loop
  <2> QED
    BY <1>1, <1>2, <1>3, <2>2, <2>3
<1>8. CASE GivesUp(outcome)
  <2>1. /\ answer' = StatusOf(Raised(outcome)) /\ answer' \in {500, 502, 503, 504}
        /\ IsTransientError(Raised(outcome)) => Len(trail') = MaxAttempts
    BY <1>4, <1>8, StatusOfType DEF GivesUp
  <2>2. TypeOK'
    BY <1>2, <1>3, <2>1 DEF TypeOK
  <2>3. Loop'
    BY <1>2, <1>3, <1>5, <2>1 DEF Loop
  <2> QED
    BY <1>1, <1>2, <1>3, <2>2, <2>3
<1> QED
  BY <1>6, <1>7, <1>8

(* Deterministic failures are not transient, and map to neither 503 nor 504. *)
LEMMA DeterministicIsNot ==
    ASSUME NEW outcome \in Deterministic
    PROVE  /\ ~IsTransientError(Raised(outcome))
           /\ StatusOf(Raised(outcome)) \in {500, 502}
BY DEF Deterministic, IsTransientError, Raised, HandleHttpError, StatusOf

LEMMA FailsFast == TypeOK /\ Loop => PermanentFailsFast
<1> SUFFICES ASSUME TypeOK, Loop, NEW i \in 1..Len(trail), trail[i] \in Deterministic
             PROVE  i = Len(trail) /\ answer \in {500, 502}
  BY DEF PermanentFailsFast
<1>1. ~IsTransientError(Raised(trail[i]))
  BY DeterministicIsNot
<1>2. i = Len(trail) /\ answer # 0
  BY <1>1 DEF TypeOK, Loop
<1>3. answer # 200
  BY <1>2 DEF Loop, Deterministic
<1> QED
  BY <1>2, <1>3, DeterministicIsNot DEF Loop

(* 503 and 504 stand for transient errors, 504 for timeouts alone. *)
LEMMA UnavailableIsTransient ==
    ASSUME NEW outcome
    PROVE  /\ StatusOf(Raised(outcome)) \in {503, 504} => IsTransientError(Raised(outcome))
           /\ StatusOf(Raised(outcome)) = 504 => outcome = "timeout"
BY DEF IsTransientError, Raised, HandleHttpError, StatusOf

LEMMA Exhausted == TypeOK /\ Loop => UnavailableMeansExhausted
BY UnavailableIsTransient DEF TypeOK, Loop, UnavailableMeansExhausted

-----------------------------------------------------------------------------
(* The adapter in the loop *)

(* A post adds one request, the same as before, and opens at most one client. *)
LEMMA PostStep ==
    ASSUME TypeOK, Account, NEW outcome \in Outcomes, Post, trail' = Append(trail, outcome)
    PROVE  Account'
<1>1. /\ trail \in Seq(Outcomes) /\ sent \in Seq({Request}) /\ Request' = Request
      /\ sent' = Append(sent, Request)
      /\ clients' = 1 /\ open' = TRUE /\ call' = call
  BY DEF TypeOK, Account, Post, GetClient, Request, Provider
<1>2. /\ sent' \in Seq({Request}) /\ Len(sent') = Len(sent) + 1 /\ sent' # <<>>
      /\ trail' # <<>> /\ Len(trail') = Len(trail) + 1
      /\ Len(sent) \in Nat /\ Len(trail) \in Nat
  BY <1>1
<1> QED
  BY <1>1, <1>2 DEF Account

LEMMA StepKeepsIInv == IInv /\ [CallNext]_<<vars, callVars>> => IInv'
<1> SUFFICES ASSUME IInv, [CallNext]_<<vars, callVars>> PROVE IInv'
  OBVIOUS
<1>1. TypeOK /\ Loop /\ Account /\ Reading /\ {"malformed", "nokey"} \subseteq Outcomes
      /\ "200" \in Outcomes
  BY UpstreamAssumption, ProviderCallAssumption DEF IInv
<1>2. CASE NotConfigured
  <2>1. /\ TypeOK' /\ Loop' /\ answer = 0 /\ Len(trail') = Len(trail) + 1
        /\ Len(trail) < MaxAttempts /\ answer' = 500 /\ trail' # <<>>
    BY <1>1, <1>2, LoopStep DEF NotConfigured, GivesUp, StatusOf, Raised, Loop
  <2>2. Account'
    <3>1. Request' = Request /\ Len(trail) \in Nat
      BY <1>1, <1>2 DEF NotConfigured, callVars, Request, Provider, TypeOK
    <3> QED
      BY <1>1, <1>2, <2>1, <3>1 DEF NotConfigured, callVars, Account
  <2>3. Reading'
    BY <1>1, <1>2, <2>1 DEF NotConfigured, callVars, Reading
  <2> QED
    BY <2>1, <2>2, <2>3 DEF IInv
<1>3. ASSUME NEW outcome \in Outcomes, PostFails(outcome) PROVE IInv'
  <2>1. /\ TypeOK' /\ Loop' /\ trail' = Append(trail, outcome) /\ Len(trail) < MaxAttempts
    BY <1>1, <1>3, LoopStep DEF PostFails
  <2>2. Account'
    BY <1>1, <1>3, <2>1, PostStep DEF PostFails
  <2>3. answer' # 200
    BY <1>1, <1>3, StatusOfType DEF PostFails, Retries, GivesUp, Attempt
  <2>4. Reading'
    BY <1>1, <1>3, <2>3 DEF PostFails, Reading
  <2> QED
    BY <2>1, <2>2, <2>4 DEF IInv
<1>4. ASSUME NEW b \in Bodies, PostAnswered(b) PROVE IInv'
  <2>1. PICK outcome \in {"200", "malformed"} : Succeeds(outcome) \/ GivesUp(outcome)
    BY <1>4 DEF PostAnswered
  <2>2. /\ TypeOK' /\ Loop' /\ trail' = Append(trail, outcome) /\ Len(trail) < MaxAttempts
    BY <1>1, <2>1, LoopStep
  <2>3. Account'
    BY <1>1, <1>4, <2>1, <2>2, PostStep DEF PostAnswered
  <2>4. Reading'
    <3>1. call' = call /\ Provider' = Provider /\ Provider \in Providers
      BY <1>1, <1>4, ProviderType DEF PostAnswered, Post, Provider, Account
    <3>2. CASE ~Unreadable(Provider, b) /\ body' = b /\ response' = Normalised(Provider, b)
      <4>1. b \in Body /\ b.reason \in Dialect(Provider) \cup {"absent", "null"}
        BY <1>4, ProviderCallAssumption DEF PostAnswered
      <4>2. response' \in LLMResponse
        BY <3>1, <3>2, <4>1, NormalisedType
      <4> QED
        BY <3>1, <3>2, <4>1, <4>2 DEF Reading
    <3>3. CASE GivesUp("malformed") /\ UNCHANGED <<body, response>>
      <4>1. answer' # 200
        BY <3>3, StatusOfType DEF GivesUp
      <4> QED
        BY <1>1, <3>3, <4>1 DEF Reading
    <3> QED
      BY <1>4, <3>2, <3>3 DEF PostAnswered
  <2> QED
    BY <2>2, <2>3, <2>4 DEF IInv
<1>5. CASE UNCHANGED <<vars, callVars>>
  BY <1>1, <1>5
  DEF vars, callVars, IInv, TypeOK, Loop, Account, Reading, MaxAttempts, Request, Provider
<1> QED
  BY <1>2, <1>3, <1>4, <1>5 DEF CallNext

-----------------------------------------------------------------------------

LEMMA Invariance == CallSpec => []IInv
BY Initially, StepKeepsIInv, PTL DEF CallSpec

(* The gateway's call implements the retry loop on its own: no adapter adds *)
(* an attempt, or an answer, that base.py does not have.                    *)
THEOREM LoopImplemented == CallSpec => Spec
<1>1. CallInit => Init
  BY DEF CallInit
<1>2. IInv /\ [CallNext]_<<vars, callVars>> => [Next]_vars
  BY StepIsLoopStep
<1> QED
  BY <1>1, <1>2, Invariance, PTL DEF CallSpec, Spec

(* Every variable keeps its type; there are never more attempts than        *)
(* stop_after_attempt allows, nor more posts than attempts (base.py:100).   *)
THEOREM TypeCorrect == CallSpec => []CallTypeOK
<1>1. IInv => CallTypeOK
  BY DEF IInv, Account, Reading, CallTypeOK
<1> QED
  BY <1>1, Invariance, PTL

(* A deterministic failure ends the call at once, whatever preceded it.     *)
THEOREM PermanentFailuresEnd == CallSpec => []PermanentFailsFast
<1>1. IInv => PermanentFailsFast
  BY FailsFast DEF IInv
<1> QED
  BY <1>1, Invariance, PTL

(* 503 and 504 are said only when the whole budget is spent.                *)
THEOREM UnavailableIsExhausted == CallSpec => []UnavailableMeansExhausted
<1>1. IInv => UnavailableMeansExhausted
  BY Exhausted DEF IInv
<1> QED
  BY <1>1, Invariance, PTL

(* A call opens at most one client, however often it is retried.            *)
THEOREM OneClientOpened == CallSpec => []OneClientPerCall
<1>1. IInv => OneClientPerCall
  BY DEF IInv, Account, OneClientPerCall
<1> QED
  BY <1>1, Invariance, PTL

(* Of a body that a provider may send, no reason for cutting an answer      *)
(* short is read as a natural end.                                          *)
LEMMA ReasonsKept ==
    ASSUME NEW provider \in Providers, NEW b \in Body,
           b.reason \in Dialect(provider) \cup {"absent", "null"},
           FinishReason(provider, b) \in NaturalEnds
    PROVE  b.reason \in NaturalEnds \cup {"absent", "null"} \/ b.list # "first"
BY DEF Providers, Dialect, FinishReason, GeminiReason, NaturalEnds

(* An answer that was cut short is not passed off as complete, for every    *)
(* body (gemini.py:87-95).                                                  *)
THEOREM CutShortAnswersTold == CallSpec => []CutShortIsTold
<1>1. IInv => CutShortIsTold
  <2> SUFFICES ASSUME IInv, answer = 200, response.finish \in NaturalEnds
               PROVE  body.reason \in NaturalEnds \cup {"absent", "null"} \/ body.list # "first"
    BY DEF CutShortIsTold
  <2>1. /\ body \in Body /\ Provider \in Providers
        /\ body.reason \in Dialect(Provider) \cup {"absent", "null"}
        /\ response.finish = FinishReason(Provider, body)
    BY ProviderType, ProviderCallAssumption DEF IInv, Account, Reading, Normalised
  <2> QED
    BY <2>1, ReasonsKept
<1> QED
  BY <1>1, Invariance, PTL

(* Counts that can be read add up, whichever of them the provider left out. *)
LEMMA TokensAddUp ==
    ASSUME NEW provider \in Providers, NEW b \in Body, ~Unreadable(provider, b),
           b.total >= 0 => b.total >= Count(b.in, 0) + Count(b.out, 0)
    PROVE  Tokens(provider, b).total >= Tokens(provider, b).in + Tokens(provider, b).out
<1>1. CASE b.usage # "given"
  BY <1>1 DEF Tokens
<1>2. CASE b.usage = "given"
  <2>1. /\ b.in \in Nat \cup {-1, -2} /\ b.out \in Nat \cup {-1, -2}
        /\ b.total \in Nat \cup {-1, -2}
        /\ b.in # -2 /\ b.out # -2 /\ (provider # "anthropic" => b.total # -2)
    BY <1>2 DEF Body, Providers, Unreadable, OpenAIUnreadable, AnthropicUnreadable,
                GeminiUnreadable, UsageUnreadable, None, Null
  <2> QED
    BY <1>2, <2>1 DEF Tokens, Count, None
<1> QED
  BY <1>1, <1>2

(* The total that is audited covers its parts, for every body.              *)
THEOREM TotalsCoverParts == CallSpec => []TotalCoversParts
<1>1. IInv => TotalCoversParts
  <2> SUFFICES ASSUME IInv, answer = 200,
                      body.total >= 0 => body.total >= Count(body.in, 0) + Count(body.out, 0)
               PROVE  response.tokens.total >= response.tokens.in + response.tokens.out
    BY DEF TotalCoversParts
  <2>1. /\ body \in Body /\ Provider \in Providers /\ ~Unreadable(Provider, body)
        /\ response.tokens = Tokens(Provider, body)
    BY ProviderType, ProviderCallAssumption DEF IInv, Account, Reading, Normalised
  <2> QED
    BY <2>1, TokensAddUp
<1> QED
  BY <1>1, Invariance, PTL
-----------------------------------------------------------------------------
(* The conversation *)

(* The texts of a list are one each, in its order. *)
LEMMA TextsType ==
    ASSUME NEW messages \in Seq(Message)
    PROVE  /\ Texts(messages) \in Seq(STRING) /\ Len(Texts(messages)) = Len(messages)
           /\ \A i \in 1..Len(messages) : Texts(messages)[i] = messages[i].text
<1>1. /\ Len(messages) \in Nat /\ DOMAIN messages = 1..Len(messages)
      /\ \A i \in 1..Len(messages) : messages[i] \in Message
  BY LenProperties, ElementOfSeq
<1>2. \A i \in 1..Len(messages) : messages[i].text \in STRING
  BY <1>1 DEF Message
<1>3. Texts(messages) \in [1..Len(messages) -> STRING]
  BY <1>1, <1>2 DEF Texts
<1>4. Texts(messages) \in Seq(STRING)
  BY <1>1, <1>3, SeqDef
<1> QED
  BY <1>1, <1>3, <1>4 DEF Texts

(* The turns and the prompts of a conversation, as lists. *)
LEMMA Parts ==
    ASSUME NEW messages \in Seq(Message)
    PROVE  /\ OfRoles(messages, Turns) \in Seq([role : Turns, text : STRING])
           /\ OfRoles(messages, Turns) \in Seq(Message)
           /\ OfRoles(messages, {"system"}) \in Seq(Message)
           /\ Texts(OfRoles(messages, {"system"})) \in Seq(STRING)
<1>1. /\ {m \in Message : m.role \in Turns} = [role : Turns, text : STRING]
      /\ {m \in Message : m.role \in Turns} \subseteq Message
      /\ {m \in Message : m.role \in {"system"}} \subseteq Message
  BY DEF Message, Turns, Roles
<1>2. /\ OfRoles(messages, Turns) \in Seq({m \in Message : m.role \in Turns})
      /\ OfRoles(messages, {"system"}) \in Seq({m \in Message : m.role \in {"system"}})
  BY OfRolesType
<1>3. OfRoles(messages, Turns) \in Seq(Message) /\ OfRoles(messages, {"system"}) \in Seq(Message)
  BY <1>1, <1>2, SeqMonotonic
<1> QED
  BY <1>1, <1>2, <1>3, TextsType

(* No turn is a system prompt, and turns are all that turns hold. *)
LEMMA TurnsOnly ==
    ASSUME NEW turns \in Seq([role : {"user", "assistant", "model"}, text : STRING])
    PROVE  OfRoles(turns, {"system"}) = <<>>
<1>1. \A i \in 1..Len(turns) : turns[i] \in [role : {"user", "assistant", "model"}, text : STRING]
  BY ElementOfSeq
<1>2. \A i \in 1..Len(turns) : turns[i].role \notin {"system"}
  BY <1>1
<1> QED
  BY <1>2, OfRolesNone

(* What ConversationKept asks of one payload. *)
Tells(provider, payload, messages) ==
    LET given == Texts(OfRoles(messages, {"system"}))
    IN  /\ OfRoles(Heard(payload), Turns) = OfRoles(messages, Turns)
        /\ given # <<>> =>
              Prompts(payload) # <<>> /\ Prompts(payload)[Len(Prompts(payload))] = given[Len(given)]
        /\ Prompts(payload) # given =>
              provider = "gemini" /\ Len(Prompts(payload)) = 1 /\ given # <<>>

(* Turns that Gemini's name for the assistant does not occur in are heard   *)
(* as they are.                                                             *)
LEMMA HeardAsSent ==
    ASSUME NEW payload, payload.turns \in Seq(Message)
    PROVE  Heard(payload) = payload.turns
<1> DEFINE turns == payload.turns
<1>1. /\ DOMAIN turns = 1..Len(turns) /\ turns = [t \in DOMAIN turns |-> turns[t]]
      /\ \A t \in 1..Len(turns) : turns[t] \in Message
  BY LenProperties, ElementOfSeq
<1>2. \A t \in DOMAIN turns : turns[t].role # "model"
  BY <1>1 DEF Message, Roles
<1>3. Heard(payload) = [t \in DOMAIN turns |-> turns[t]]
  BY <1>2 DEF Heard
<1> QED
  BY <1>1, <1>3

(* OpenAI is sent the messages as they are. *)
LEMMA OpenAITells ==
    ASSUME NEW messages \in Seq(Message)
    PROVE  Tells("openai", OpenAIPayload(messages), messages)
<1> DEFINE payload == OpenAIPayload(messages)
           given == Texts(OfRoles(messages, {"system"}))
<1>1. payload.system = <<>> /\ payload.turns = messages
  BY DEF OpenAIPayload
<1>2. given \in Seq(STRING)
  BY Parts
<1>3. <<>> \o given = given
  BY <1>2, ConcatEmptySeq
<1> HIDE DEF payload
<1>4. Prompts(payload) = given
  BY <1>1, <1>3 DEF Prompts
<1>5. Heard(payload) = messages
  BY <1>1, HeardAsSent
<1> HIDE DEF given
<1>6. Tells("openai", payload, messages)
  BY <1>4, <1>5 DEF Tells, given
<1> QED
  BY <1>6 DEF payload

(* Anthropic is sent all prompts, and all turns, apart from each other. *)
LEMMA AnthropicTells ==
    ASSUME NEW messages \in Seq(Message)
    PROVE  Tells("anthropic", AnthropicPayload(messages), messages)
<1> DEFINE payload == AnthropicPayload(messages)
           turns == OfRoles(messages, Turns)
           given == Texts(OfRoles(messages, {"system"}))
<1>1. payload.system = given /\ payload.turns = turns
  BY DEF AnthropicPayload
<1>2. /\ given \in Seq(STRING) /\ turns \in Seq(Message)
      /\ turns \in Seq([role : Turns, text : STRING])
  BY Parts
<1> HIDE DEF payload, turns, given
<1>3. OfRoles(turns, {"system"}) = <<>>
  <2> DEFINE T == [role : Turns, text : STRING]
             U == [role : {"user", "assistant", "model"}, text : STRING]
  <2>1. T \subseteq U
    BY DEF Turns, Roles
  <2>2. turns \in Seq(T)
    BY <1>2
  <2> HIDE DEF T, U
  <2>3. turns \in Seq(U)
    BY <2>1, <2>2, SeqMonotonic
  <2> USE DEF U
  <2> QED
    BY <2>3, TurnsOnly
<1>4. OfRoles(turns, Turns) = turns
  <2>1. \A i \in 1..Len(turns) : turns[i] \in [role : Turns, text : STRING]
    BY <1>2, ElementOfSeq
  <2>2. \A i \in 1..Len(turns) : turns[i].role \in Turns
    BY <2>1
  <2> QED
    BY <1>2, <2>2, OfRolesAll
<1>5. Prompts(payload) = given
  <2>1. Texts(<<>>) = <<>>
    BY DEF Texts
  <2>2. given \o <<>> = given
    BY <1>2, ConcatEmptySeq
  <2> QED
    BY <1>1, <1>3, <2>1, <2>2 DEF Prompts
<1>6. Heard(payload) = turns
  BY <1>1, <1>2, HeardAsSent
<1>7. Tells("anthropic", payload, messages)
  BY <1>4, <1>5, <1>6 DEF Tells, given, turns
<1> QED
  BY <1>7 DEF payload

(* Gemini is sent the last prompt, and all turns under its names for the roles. *)
LEMMA GeminiTells ==
    ASSUME NEW messages \in Seq(Message)
    PROVE  Tells("gemini", GeminiPayload(messages), messages)
<1> DEFINE payload == GeminiPayload(messages)
           turns == OfRoles(messages, Turns)
           prompts == OfRoles(messages, {"system"})
           given == Texts(prompts)
           renamed == [i \in DOMAIN turns |->
                         [role |-> IF turns[i].role = "assistant" THEN "model" ELSE "user",
                          text |-> turns[i].text]]
<1>1. /\ payload.system = IF prompts = <<>> THEN <<>> ELSE <<prompts[Len(prompts)].text>>
      /\ payload.turns = renamed
  BY DEF GeminiPayload
<1>2. /\ given \in Seq(STRING) /\ turns \in Seq([role : Turns, text : STRING])
      /\ prompts \in Seq(Message)
  BY Parts
<1>3. /\ Len(given) = Len(prompts)
      /\ \A i \in 1..Len(prompts) : given[i] = prompts[i].text
  BY <1>2, TextsType
<1> HIDE DEF payload, turns, prompts, given
<1>4. /\ Len(turns) \in Nat /\ DOMAIN turns = 1..Len(turns)
      /\ turns = [i \in DOMAIN turns |-> turns[i]]
      /\ \A i \in 1..Len(turns) : turns[i] \in [role : Turns, text : STRING]
  BY <1>2, LenProperties, ElementOfSeq
<1>5. OfRoles(renamed, {"system"}) = <<>>
  <2>1. renamed \in [1..Len(turns) -> [role : {"user", "assistant", "model"}, text : STRING]]
    BY <1>4
  <2>2. renamed \in Seq([role : {"user", "assistant", "model"}, text : STRING])
    BY <1>4, <2>1, SeqDef
  <2> HIDE DEF renamed
  <2> QED
    BY <2>2, TurnsOnly
<1>6. Heard(payload) = turns
  <2>1. \A i \in DOMAIN turns :
           /\ turns[i] = [role |-> turns[i].role, text |-> turns[i].text]
           /\ turns[i].role \in {"user", "assistant"}
    BY <1>4 DEF Turns, Roles
  <2>2. \A i \in DOMAIN turns :
           turns[i] = IF renamed[i].role = "model"
                      THEN [renamed[i] EXCEPT !.role = "assistant"] ELSE renamed[i]
    BY <2>1
  <2>3. DOMAIN renamed = DOMAIN turns
    OBVIOUS
  <2> HIDE DEF renamed
  <2>4. Heard(payload) = [i \in DOMAIN turns |-> turns[i]]
    BY <1>1, <2>2, <2>3 DEF Heard
  <2> QED
    BY <1>4, <2>4
<1>7. OfRoles(turns, Turns) = turns
  <2>1. \A i \in 1..Len(turns) : turns[i].role \in Turns
    BY <1>4
  <2> QED
    BY <1>2, <2>1, OfRolesAll
<1>8. Texts(<<>>) = <<>>
  BY DEF Texts
<1> HIDE DEF renamed
<1>9. CASE prompts = <<>>
  <2>1. given = <<>>
    BY <1>8, <1>9 DEF given
  <2>2. Prompts(payload) = <<>> \o <<>>
    BY <1>1, <1>5, <1>8, <1>9 DEF Prompts
  <2>3. <<>> \o <<>> = <<>>
    BY EmptySeq, ConcatEmptySeq
  <2>4. Tells("gemini", payload, messages)
    BY <1>6, <1>7, <2>1, <2>2, <2>3 DEF Tells, given, prompts, turns
  <2> QED
    BY <2>4 DEF payload
<1>10. CASE prompts # <<>>
  <2> DEFINE last == prompts[Len(prompts)].text
             told == <<last>>
  <2>1. Len(prompts) \in Nat \ {0} /\ Len(prompts) \in 1..Len(prompts)
    BY <1>2, <1>10, EmptySeq
  <2>2. given[Len(given)] = last /\ given # <<>>
    <3>1. Len(given) # 0
      BY <1>3, <2>1
    <3>2. Len(<<>>) = 0
      BY EmptySeq
    <3> QED
      BY <1>3, <2>1, <3>1, <3>2
  <2>3. last \in STRING
    <3>1. prompts[Len(prompts)] \in Message
      BY <1>2, <2>1, ElementOfSeq
    <3> QED
      BY <3>1 DEF Message
  <2>4. told \o <<>> = told
    <3>1. told \in Seq(STRING)
      BY <2>3
    <3> QED
      BY <3>1, ConcatEmptySeq
  <2>5. Prompts(payload) = told
    BY <1>1, <1>5, <1>8, <1>10, <2>4 DEF Prompts
  <2>6. told # <<>> /\ Len(told) = 1 /\ told[1] = last
    OBVIOUS
  <2> HIDE DEF last, told
  <2>7. Prompts(payload)[Len(Prompts(payload))] = given[Len(given)]
    BY <2>2, <2>5, <2>6
  <2>8. Tells("gemini", payload, messages)
    BY <1>6, <1>7, <2>2, <2>5, <2>6, <2>7 DEF Tells, given, prompts, turns
  <2> QED
    BY <2>8 DEF payload
<1> QED
  BY <1>9, <1>10

(* Whatever the provider and the conversation, the payload tells it. *)
LEMMA PayloadTells ==
    ASSUME NEW provider \in Providers, NEW messages \in Seq(Message)
    PROVE  Tells(provider, Payload(provider, messages), messages)
BY OpenAITells, AnthropicTells, GeminiTells DEF Providers, Payload

(* No adapter drops, reorders or reassigns a turn of any conversation, nor  *)
(* any system prompt but Gemini's earlier ones (gemini.py:49-55).           *)
THEOREM ConversationsAreKept == CallSpec => []ConversationKept
<1>1. IInv => ConversationKept
  <2> SUFFICES ASSUME IInv, NEW i \in DOMAIN sent
               PROVE  Tells(Provider, sent[i].payload, call.messages)
    BY DEF ConversationKept, Tells
  <2>1. sent[i] = Request
    BY DEF IInv, Account
  <2>2. Provider \in Providers /\ call.messages \in Seq(Message)
    BY ProviderType, ProviderCallAssumption DEF IInv, Account
  <2> QED
    BY <2>1, <2>2, PayloadTells DEF Request
<1> QED
  BY <1>1, Invariance, PTL
=============================================================================
