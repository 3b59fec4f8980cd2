--------------------------- MODULE SlidingWindow ---------------------------
(***************************************************************************)
(* What the limiter promises, without workers, pipelines or failures: a    *)
(* set of live charges that holds at most Capacity of them, where a charge *)
(* leaves only when its window is over or when the store loses its data.   *)
(***************************************************************************)
EXTENDS Integers, FiniteSets

CONSTANTS Capacity, Window, MaxSkew

VARIABLES
    time,    \* the reference clock
    live,    \* the charges that count, records with a field score
    losses   \* how often the store has lost its data

vars == <<time, live, losses>>

(* No host can still count m at time t. *)
Over(m, t) == m.score <= t + MaxSkew - Window

(* live' keeps every charge whose window is not over at time t. *)
Keeps(t) == live' \subseteq live /\ \A m \in live \ live' : Over(m, t)

Init ==
    /\ time \in Int
    /\ live = {}
    /\ losses = 0

(* One more charge, stamped no later than the fastest host's clock. *)
Admit ==
    /\ Cardinality(live) < Capacity
    /\ \E m \in live' : m.score <= time + MaxSkew /\ live' = live \cup {m}
    /\ UNCHANGED <<time, losses>>

Forget == Keeps(time) /\ UNCHANGED <<time, losses>>

Pass ==
    /\ time' = time + 1
    /\ Keeps(time')
    /\ UNCHANGED losses

Lose ==
    /\ losses' = losses + 1
    /\ live' = {}
    /\ UNCHANGED time

Next == Admit \/ Forget \/ Pass \/ Lose

Spec == Init /\ [][Next]_vars
=============================================================================
