------------------------------ MODULE Upstream ------------------------------
(***************************************************************************)
(* LLMProvider.generate (app/providers/base.py): the tenacity loop around  *)
(* _call_provider and the exceptions it ends in, for one generation call.  *)
(*                                                                         *)
(* An attempt ends in an HTTP status ("200", "503", ...), or in one of      *)
(*   "timeout"    httpx.TimeoutException                                   *)
(*   "network"    httpx.NetworkError                                       *)
(*   "protocol"   any other httpx error, such as RemoteProtocolError       *)
(*   "malformed"  a 200 whose body the adapter cannot read                 *)
(*   "nokey"      ProviderConfigurationError before anything is sent       *)
(***************************************************************************)
EXTENDS Integers, Sequences

CONSTANTS
    MaxRetries,   \* settings.max_retries, a plain int
    Outcomes      \* what attempts can end in: statuses and the names above

ASSUME UpstreamAssumption ==
    /\ MaxRetries \in Int
    /\ "200" \in Outcomes

VARIABLES
    trail,      \* how each attempt ended, in order
    answer      \* 0 while running, 200, or the status of the raised exception

vars == <<trail, answer>>

MaxAttempts == IF MaxRetries > 1 THEN MaxRetries ELSE 1

TypeOK ==
    /\ trail \in Seq(Outcomes) /\ Len(trail) <= MaxAttempts
    /\ answer \in {0, 200, 500, 502, 503, 504}

Init ==
    /\ trail = <<>>
    /\ answer = 0

-----------------------------------------------------------------------------
(* Errors *)

NoStatus == {"timeout", "network", "protocol", "malformed", "nokey"}

(* _handle_http_error *)
HandleHttpError(status) ==
    CASE status \in {"401", "403"} -> "ProviderConfigurationError"
      [] status \in {"400", "422"} -> "UpstreamBadRequestError"
      [] OTHER                 -> "UpstreamTransientError"

(* The exception _call_provider raises. *)
Raised(outcome) ==
    CASE outcome = "timeout"                 -> "TimeoutException"
      [] outcome = "network"                 -> "NetworkError"
      [] outcome \in {"protocol", "malformed"} -> "other"
      [] outcome = "nokey"                   -> "ProviderConfigurationError"
      [] OTHER                               -> HandleHttpError(outcome)

IsTransientError(exc) ==
    exc \in {"TimeoutException", "NetworkError", "UpstreamTransientError"}

(* What generate turns an exception into, as the status the client gets. *)
StatusOf(exc) ==
    CASE exc = "TimeoutException"                           -> 504
      [] exc \in {"UpstreamTransientError", "NetworkError"} -> 503
      [] exc = "UpstreamBadRequestError"                    -> 502
      [] OTHER                                              -> 500

-----------------------------------------------------------------------------
(* The loop *)

(* One attempt is made, and ends in outcome. *)
Attempt(outcome) ==
    /\ answer = 0
    /\ trail' = Append(trail, outcome)

Succeeds(outcome) ==
    /\ outcome = "200"
    /\ Attempt(outcome)
    /\ answer' = 200

(* Mutant: stop_after_attempt counts the retries only. *)
LastAttemptOffByOne == Len(trail) >= MaxRetries

(* Mutant: the attempt that failed is counted twice. *)
LastAttemptEarly == Len(trail) + 2 >= MaxRetries

(* stop_after_attempt *)
LastAttempt == Len(trail) + 1 >= MaxRetries

(* Mutant: whatever was raised is retried while attempts are left. *)
RetriesAlways(outcome) ==
    /\ outcome # "200"
    /\ ~LastAttempt
    /\ Attempt(outcome)
    /\ UNCHANGED answer

Retries(outcome) ==
    /\ outcome # "200"
    /\ IsTransientError(Raised(outcome)) /\ ~LastAttempt
    /\ Attempt(outcome)
    /\ UNCHANGED answer

(* reraise=True: the last exception leaves the loop and is mapped. *)
GivesUp(outcome) ==
    /\ outcome # "200"
    /\ ~IsTransientError(Raised(outcome)) \/ LastAttempt
    /\ Attempt(outcome)
    /\ answer' = StatusOf(Raised(outcome))

Next == \E outcome \in Outcomes : Succeeds(outcome) \/ Retries(outcome) \/ GivesUp(outcome)

Spec == Init /\ [][Next]_vars

-----------------------------------------------------------------------------
(* Properties *)

(* docs/architecture.md:182-183: deterministic failures. *)
Deterministic == {"400", "401", "403", "422", "nokey"}

(* A deterministic failure is paid for once: nothing is attempted after it, *)
(* and the client hears of it at once, whatever transient failures preceded *)
(* it (base.py:102, docs/architecture.md:92).                               *)
PermanentFailsFast ==
    \A i \in 1..Len(trail) : trail[i] \in Deterministic =>
        /\ i = Len(trail)
        /\ answer \in {500, 502}

(* "Unavailable" and "timed out" are only said after the whole retry budget *)
(* was spent, and 504 only if the last attempt itself timed out.            *)
UnavailableMeansExhausted ==
    /\ answer \in {503, 504} => Len(trail) = MaxAttempts
    /\ answer = 504 => trail[Len(trail)] = "timeout"

(* What is retried is a timeout, a lost connection, 500, 502, 503 or 504    *)
(* (is_transient_error's docstring, base.py:44-47) or a 429 (the matrix of  *)
(* docs/architecture.md:176-183, which lists nothing else as retryable).    *)
RetriesAsListed ==
    \A i \in 1..Len(trail) :
        i < Len(trail) => trail[i] \in {"timeout", "network", "429", "500", "502", "503", "504"}
=============================================================================
