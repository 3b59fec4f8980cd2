---------------------------- MODULE ProviderCall ----------------------------
(***************************************************************************)
(* One generation call of the gateway to its provider: the loop of         *)
(* Upstream around the adapter that the model name selects.  A call is     *)
(* [model, messages, keyed]; keyed says whether settings hold a key for    *)
(* the provider.                                                           *)
(***************************************************************************)
EXTENDS Upstream, Adapters

CONSTANTS
    Calls,    \* the calls to look at
    Bodies    \* the JSON bodies that come with a 200

(* resolve let the call through, and every body is JSON, or none at all. *)
ASSUME ProviderCallAssumption ==
    /\ {"malformed", "nokey"} \subseteq Outcomes
    /\ \A c \in Calls :
          c.model.name \in Known /\ c.messages \in Seq(Message) /\ c.keyed \in BOOLEAN
    /\ Bodies \subseteq Body

VARIABLES
    call,        \* the ChatRequest and the settings it meets
    sent,        \* what was posted to the provider, in order
    clients,     \* how many httpx clients the adapter opened
    open,        \* whether _client is set
    body,        \* the body of the 200 that was answered, if any
    response     \* the LLMResponse returned, if any

callVars == <<call, sent, clients, open, body, response>>

NoBody == [list |-> "none"]
NoResponse == [provider |-> "none"]

CallTypeOK ==
    /\ TypeOK
    /\ call \in Calls
    /\ Len(sent) <= Len(trail)
    /\ clients \in Nat
    /\ open \in BOOLEAN
    /\ body \in Bodies \cup {NoBody}
    /\ response \in LLMResponse \cup {NoResponse}

CallInit ==
    /\ Init
    /\ call \in Calls
    /\ sent = <<>>
    /\ clients = 0
    /\ open = FALSE
    /\ body = NoBody
    /\ response = NoResponse

-----------------------------------------------------------------------------

Provider == Resolve(call.model)

(* Mutant: every attempt opens a client. *)
GetClientAlways ==
    /\ open' = TRUE
    /\ clients' = clients + 1

(* get_client: the adapter keeps the client it opened. *)
GetClient ==
    /\ open' = TRUE
    /\ clients' = IF open THEN clients ELSE clients + 1

(* What the adapter makes of the call's ChatRequest. *)
Request ==
    [model |-> CalledModel(call.model), payload |-> Payload(Provider, call.messages)]

(* client.post *)
Post ==
    /\ call.keyed
    /\ GetClient
    /\ sent' = Append(sent, Request)
    /\ UNCHANGED call

(* The provider's key is missing: nothing is sent. *)
NotConfigured ==
    /\ ~call.keyed
    /\ GivesUp("nokey")
    /\ UNCHANGED callVars

(* The attempt ends in anything but a 200. *)
PostFails(outcome) ==
    /\ outcome \notin {"200", "malformed", "nokey"}
    /\ Retries(outcome) \/ GivesUp(outcome)
    /\ Post
    /\ UNCHANGED <<body, response>>

(* A 200 whose body is read, or makes the adapter raise. *)
PostAnswered(b) ==
    /\ answer = 0
    /\ b.reason \in Dialect(Provider) \cup {"absent", "null"}
    /\ \/ /\ ~Unreadable(Provider, b)
          /\ Succeeds("200")
          /\ body' = b
          /\ response' = Normalised(Provider, b)
       \/ /\ Unreadable(Provider, b)
          /\ GivesUp("malformed")
          /\ UNCHANGED <<body, response>>
    /\ Post

CallNext ==
    \/ NotConfigured
    \/ \E outcome \in Outcomes : PostFails(outcome)
    \/ \E b \in Bodies : PostAnswered(b)

CallSpec == CallInit /\ [][CallNext]_<<vars, callVars>>

-----------------------------------------------------------------------------
(* Properties *)

(* The system prompts that a payload tells, wherever it puts them. *)
Prompts(payload) == payload.system \o Texts(OfRoles(payload.turns, {"system"}))

(* Its turns, with Gemini's name for the assistant undone. *)
Heard(payload) ==
    [t \in DOMAIN payload.turns |->
       IF payload.turns[t].role = "model"
       THEN [payload.turns[t] EXCEPT !.role = "assistant"]
       ELSE payload.turns[t]]

(* The provider is told the whole conversation in the client's order and     *)
(* with the client's roles, and the last system prompt; system prompts are   *)
(* kept apart from the turns and none is invented.  Earlier system prompts   *)
(* reach OpenAI and Anthropic too, but not Gemini (gemini.py:49-55).         *)
ConversationKept ==
    \A i \in DOMAIN sent :
        LET prompts == Prompts(sent[i].payload)
            given == Texts(OfRoles(call.messages, {"system"}))
        IN  /\ OfRoles(Heard(sent[i].payload), Turns) = OfRoles(call.messages, Turns)
            /\ given # <<>> => prompts # <<>> /\ prompts[Len(prompts)] = given[Len(given)]
            /\ prompts # given => Provider = "gemini" /\ Len(prompts) = 1 /\ given # <<>>

(* Reasons that say the model came to an end of its own. *)
NaturalEnds == {"stop", "end_turn", "stop_sequence", "STOP"}

(* An answer that was cut short is never passed off as complete: the        *)
(* client reads a natural end only if the provider said so, or said nothing *)
(* of the first choice (response.py:26, gemini.py:87-95).                   *)
CutShortIsTold ==
    (answer = 200 /\ response.finish \in NaturalEnds) =>
        \/ body.reason \in NaturalEnds \cup {"absent", "null"}
        \/ body.list # "first"

(* The tokens the audit row will hold add up: nothing is left out of the    *)
(* total, in whichever form the provider counted, if its own total covers   *)
(* its parts.                                                               *)
TotalCoversParts ==
    (answer = 200 /\ (body.total >= 0 => body.total >= Count(body.in, 0) + Count(body.out, 0))) =>
        response.tokens.total >= response.tokens.in + response.tokens.out

(* Retries share one client, and a call that sends nothing opens none: the  *)
(* clients nobody closes are at most one per call (base.py:75).             *)
OneClientPerCall == clients <= 1 /\ (clients = 0 <=> sent = <<>>)
=============================================================================
