----------------------------- MODULE MCUpstream -----------------------------
(* Outcomes for TLC: a representative of every class of status. *)
EXTENDS Upstream

AllOutcomes ==
    {"200", "400", "401", "404", "422", "429", "500", "503"} \cup NoStatus
=============================================================================
