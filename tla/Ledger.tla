------------------------------- MODULE Ledger -------------------------------
(***************************************************************************)
(* What the generation service promises, without sessions, deliveries or   *)
(* retries: a verdict on each request, a log with at most one row for each *)
(* id, receivers that are told what is on record, and an answer that comes *)
(* last.                                                                   *)
(***************************************************************************)
EXTENDS Integers

CONSTANTS Requests, Ids, FailureStatuses

VARIABLES
    id,        \* the id that each request carries
    verdict,   \* what its generation came to: 200, a failure's status, or 0
    log,       \* the row of each id
    told,      \* the events its receiver was told
    answer     \* the status answered, or 0

vars == <<id, verdict, log, told, answer>>

NoRow == [owner |-> "none", status |-> "absent"]

(* The row that tells the truth of r, and the event that does. *)
Row(r) == [owner |-> r, status |-> IF verdict[r] = 200 THEN "success" ELSE "failed"]
Event(r) == IF verdict[r] = 200 THEN "completed" ELSE "failed"

Init ==
    /\ id \in [Requests -> Ids]
    /\ verdict = [r \in Requests |-> 0]
    /\ log = [i \in Ids |-> NoRow]
    /\ told = [r \in Requests |-> {}]
    /\ answer = [r \in Requests |-> 0]

Decide(r) ==
    /\ verdict[r] = 0
    /\ \E status \in {200} \cup FailureStatuses : verdict' = [verdict EXCEPT ![r] = status]
    /\ UNCHANGED <<log, told, answer>>

(* A row is written once, whoever else has the id. *)
Record(r) ==
    /\ verdict[r] # 0
    /\ log[id[r]] = NoRow
    /\ log' = [log EXCEPT ![id[r]] = Row(r)]

(* The verdict is answered if it is on record; if it is not, or may not be, 500. *)
Reply(r) ==
    /\ verdict[r] # 0
    /\ \E status \in {500, verdict[r]} :
          /\ status # 500 => log'[id[r]] = Row(r)
          /\ answer' = [answer EXCEPT ![r] = status]

RecordAndReply(r) ==
    /\ Record(r) \/ UNCHANGED log
    /\ Reply(r) \/ UNCHANGED answer
    /\ UNCHANGED <<verdict, told>>

(* Only what is on record is told. *)
Tell(r) ==
    /\ verdict[r] # 0
    /\ log[id[r]] = Row(r)
    /\ told' = [told EXCEPT ![r] = @ \cup {Event(r)}]
    /\ UNCHANGED <<verdict, log, answer>>

(* There is no provider for the request, and there will be no verdict. *)
Refuse(r) ==
    /\ verdict[r] = 0
    /\ answer' = [answer EXCEPT ![r] = 422]
    /\ UNCHANGED <<verdict, log, told>>

(* Nothing is done for a request that was answered. *)
Next ==
    \E r \in Requests :
        /\ answer[r] = 0
        /\ Decide(r) \/ RecordAndReply(r) \/ Tell(r) \/ Refuse(r)
        /\ UNCHANGED id

Spec == Init /\ [][Next]_vars
=============================================================================
