----------------------------- MODULE Operations -----------------------------
(***************************************************************************)
(* A deployment at work: a gateway process, and operators who create keys. *)
(* The tool has an engine of its own, so the two share no process state.   *)
(***************************************************************************)
EXTENDS Lifecycle, KeyAdmin

OpsTypeOK == TypeOK /\ KeyTypeOK

OpsInit == Init /\ KeyInit

OpsNext ==
    \/ Next /\ UNCHANGED keyVars
    \/ KeyNext /\ UNCHANGED vars

OpsSpec == OpsInit /\ [][OpsNext]_<<vars, keyVars>>
=============================================================================
