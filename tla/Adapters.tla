------------------------------ MODULE Adapters ------------------------------
(***************************************************************************)
(* ProviderFactory.resolve and the three adapters' _call_provider          *)
(* (app/providers/): which provider a model name selects, what the adapter *)
(* sends for a ChatRequest, and what it makes of a 200's JSON body.  All   *)
(* of it is computed without state; ProviderCall puts it into the loop.    *)
(*                                                                         *)
(* A model name is [name, exact]: the lower-case name with everything      *)
(* after the prefix written "x", and whether the client typed it that way  *)
(* (the schema has stripped it already).                                   *)
(***************************************************************************)
EXTENDS Integers, Sequences

Providers == {"gemini", "openai", "anthropic"}

Roles == {"system", "user", "assistant"}

Message == [role : Roles, text : STRING]

(* Names that resolve knows, by the provider they select. *)
GeminiNames == {"gemini", "default", "gemini-x", "gemma-x"}
OpenAINames == {"gpt-x", "o1-x", "o3-x", "chatgpt-x", "text-embedding-x"}
AnthropicNames == {"claude-x"}

Known == GeminiNames \cup OpenAINames \cup AnthropicNames

(* resolve: by the lower-case name, whatever the client typed. *)
Resolve(model) ==
    CASE model.name \in GeminiNames    -> "gemini"
      [] model.name \in OpenAINames    -> "openai"
      [] model.name \in AnthropicNames -> "anthropic"

-----------------------------------------------------------------------------
(* What is sent *)

Turns == Roles \ {"system"}

(* The list that the loop over the messages has built, by appending those *)
(* whose role is among roles.                                             *)
OfRoles(messages, roles) ==
    LET after[i \in 0..Len(messages)] ==
            IF i = 0 THEN <<>>
            ELSE IF messages[i].role \in roles THEN Append(after[i - 1], messages[i])
            ELSE after[i - 1]
    IN  after[Len(messages)]

(* The texts of a list of messages. *)
Texts(messages) == [i \in DOMAIN messages |-> messages[i].text]

(* The name in the request: as typed, but for Gemini's one exact alias. *)
CalledModel(model) ==
    IF model = [name |-> "gemini", exact |-> TRUE]
    THEN [name |-> "gemini-x", exact |-> TRUE]
    ELSE model

OpenAIPayload(messages) == [system |-> <<>>, turns |-> messages]

(* The system prompts, joined by blank lines, go into a field of their own. *)
AnthropicPayload(messages) ==
    [system |-> Texts(OfRoles(messages, {"system"})), turns |-> OfRoles(messages, Turns)]

(* Mutant: every message that is not the assistant's is a user's. *)
GeminiPayloadSystemAsUser(messages) ==
    [system |-> <<>>,
     turns  |-> [i \in DOMAIN messages |->
                   [role |-> IF messages[i].role = "assistant" THEN "model" ELSE "user",
                    text |-> messages[i].text]]]

(* The assistant is called model; of several system prompts the last remains. *)
GeminiPayload(messages) ==
    LET prompts == OfRoles(messages, {"system"})
        turns == OfRoles(messages, Turns)
    IN  [system |-> IF prompts = <<>> THEN <<>> ELSE <<prompts[Len(prompts)].text>>,
         turns  |-> [i \in DOMAIN turns |->
                       [role |-> IF turns[i].role = "assistant" THEN "model" ELSE "user",
                        text |-> turns[i].text]]]

Payload(provider, messages) ==
    CASE provider = "openai"    -> OpenAIPayload(messages)
      [] provider = "anthropic" -> AnthropicPayload(messages)
      [] provider = "gemini"    -> GeminiPayload(messages)

-----------------------------------------------------------------------------
(* What comes back: a body, with the same fields for the three dialects.    *)
(*   list     choices, candidates, or Anthropic's content blocks; "garbled" *)
(*            if the body is no JSON object                                 *)
(*   message  the first choice's message or candidate's content             *)
(*   text     its text, or a block's                                        *)
(*   reason   finish_reason, finishReason or stop_reason                    *)
(*   usage    the usage object, with its counts in, out and total           *)
(* A field that is "absent" was left out, one that is "null" is JSON null;  *)
(* counts are None or Null then.                                            *)

None == -1
Null == -2

Shapes == {"absent", "null", "given"}

(* The reasons a provider may give. *)
Dialect(provider) ==
    CASE provider = "openai"    -> {"stop", "length", "content_filter", "tool_calls"}
      [] provider = "anthropic" -> {"end_turn", "max_tokens", "stop_sequence", "tool_use"}
      [] provider = "gemini"    ->
            {"STOP", "MAX_TOKENS", "SAFETY", "RECITATION", "MALFORMED_FUNCTION_CALL"}

Body ==
    [list : {"absent", "null", "empty", "first", "garbled"}, message : Shapes, text : Shapes,
     reason : UNION {Dialect(p) : p \in Providers} \cup {"absent", "null"},
     usage : Shapes, in : Nat \cup {None, Null}, out : Nat \cup {None, Null},
     total : Nat \cup {None, Null}]

(* dict.get with a default, for a count. *)
Count(n, default) == IF n = None THEN default ELSE n

(* int(None), and reading a field of None, raise. *)
UsageUnreadable(body, fields) ==
    \/ body.usage = "null"
    \/ body.usage = "given" /\ \E f \in fields : body[f] = Null

OpenAIUnreadable(body) ==
    \/ body.list = "first" /\ body.message = "null"
    \/ UsageUnreadable(body, {"in", "out", "total"})

(* None is no list to go through, and no text to join. *)
AnthropicUnreadable(body) ==
    \/ body.list = "null"
    \/ body.list = "first" /\ body.text = "null"
    \/ UsageUnreadable(body, {"in", "out"})

GeminiUnreadable(body) ==
    \/ body.list = "first" /\ body.message = "null"
    \/ body.list = "first" /\ body.message = "given" /\ body.text = "null"
    \/ UsageUnreadable(body, {"in", "out", "total"})

Unreadable(provider, body) ==
    \/ body.list = "garbled"
    \/ provider = "openai" /\ OpenAIUnreadable(body)
    \/ provider = "anthropic" /\ AnthropicUnreadable(body)
    \/ provider = "gemini" /\ GeminiUnreadable(body)

(* The text of the first choice, or nothing. *)
Content(provider, body) ==
    IF /\ body.list = "first"
       /\ provider # "anthropic" => body.message = "given"
       /\ body.text = "given"
    THEN "text" ELSE ""

(* Mutant: whatever Gemini stopped for that has no name here is a stop. *)
GeminiReasonCatchAll(reason) == IF reason = "MAX_TOKENS" THEN "length" ELSE "stop"

GeminiReason(reason) ==
    CASE reason \in {"absent", "null", "STOP"}  -> "stop"
      [] reason = "MAX_TOKENS"                  -> "length"
      [] reason \in {"SAFETY", "RECITATION"}    -> "content_filter"
      [] reason = "MALFORMED_FUNCTION_CALL"     -> "malformed_function_call"

FinishReason(provider, body) ==
    CASE provider = "anthropic" ->
            IF body.reason \in {"absent", "null"} THEN "end_turn" ELSE body.reason
      [] provider # "anthropic" /\ body.list # "first" -> "stop"
      [] provider = "openai" /\ body.list = "first" ->
            IF body.reason \in {"absent", "null"} THEN "stop" ELSE body.reason
      [] provider = "gemini" /\ body.list = "first" -> GeminiReason(body.reason)

(* Mutant: a total that was left out is none. *)
TokensNoTotal(provider, body) ==
    IF body.usage # "given" THEN [in |-> 0, out |-> 0, total |-> 0]
    ELSE [in |-> Count(body.in, 0), out |-> Count(body.out, 0), total |-> Count(body.total, 0)]

(* The provider's total where it is read, else the sum. *)
Tokens(provider, body) ==
    IF body.usage # "given" THEN [in |-> 0, out |-> 0, total |-> 0]
    ELSE LET in == Count(body.in, 0)
             out == Count(body.out, 0)
         IN  [in |-> in, out |-> out,
              total |-> IF provider = "anthropic" THEN in + out ELSE Count(body.total, in + out)]

LLMResponse ==
    [provider : Providers, content : {"", "text"},
     finish : {"stop", "length", "content_filter", "malformed_function_call"}
                \cup Dialect("openai") \cup Dialect("anthropic"),
     tokens : [in : Nat, out : Nat, total : Nat]]

(* The LLMResponse of a body that can be read. *)
Normalised(provider, body) ==
    [provider |-> provider, content |-> Content(provider, body),
     finish |-> FinishReason(provider, body), tokens |-> Tokens(provider, body)]
=============================================================================
