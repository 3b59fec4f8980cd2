--------------------------- MODULE MCRateLimiter ---------------------------
(* Values of the limiter's constants for TLC. *)
EXTENDS RateLimiter

(* Hosts that agree with Redis's clock. *)
SameClock == [w \in Workers |-> 0]

(* One host ahead of Redis, the others in step. *)
OneAhead ==
    LET ahead == CHOOSE w \in Workers : TRUE
    IN  [w \in Workers |-> IF w = ahead THEN 1 ELSE 0]
=============================================================================
