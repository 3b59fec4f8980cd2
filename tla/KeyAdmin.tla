------------------------------ MODULE KeyAdmin ------------------------------
(***************************************************************************)
(* create_key (scripts/create_api_key.py), run by operators at terminals,  *)
(* for one client name: api_keys does not ask for distinct names, the tool *)
(* looks first and only warns.                                             *)
(***************************************************************************)
EXTENDS Integers, FiniteSets

CONSTANT Terminals   \* runs of the tool that can overlap

ASSUME KeyAdminAssumption == IsFiniteSet(Terminals)

VARIABLES
    step,    \* where the run at each terminal is
    stored,  \* rows of api_keys with this name
    shown    \* how many of them an operator was shown the raw key of

keyVars == <<step, stored, shown>>

KeyTypeOK ==
    /\ step \in [Terminals -> {"idle", "select", "commit", "refresh"}]
    /\ stored \in Nat
    /\ shown \in Nat

KeyInit ==
    /\ step = [t \in Terminals |-> "idle"]
    /\ stored = 0
    /\ shown = 0

-----------------------------------------------------------------------------
Goto(t, s) == step' = [step EXCEPT ![t] = s]

(* An operator starts the tool. *)
Begin(t) ==
    /\ step[t] = "idle"
    /\ Goto(t, "select")
    /\ UNCHANGED <<stored, shown>>

(* scalar_one_or_none: no row, or one and a warning; of more it raises, and *)
(* the run fails.                                                           *)
Select(t) ==
    /\ step[t] = "select" /\ stored <= 1
    /\ Goto(t, "commit")
    /\ UNCHANGED <<stored, shown>>

(* Mutant: the key is shown before it is stored. *)
CommitShownFirst(t) ==
    /\ step[t] = "commit"
    /\ Goto(t, "refresh")
    /\ shown' = shown + 1
    /\ UNCHANGED stored

(* The row is committed. *)
Commit(t) ==
    /\ step[t] = "commit"
    /\ stored' = stored + 1
    /\ Goto(t, "refresh")
    /\ UNCHANGED shown

(* Its commit raises, although it was applied. *)
CommitUnheard(t) ==
    /\ step[t] = "commit"
    /\ stored' = stored + 1
    /\ Goto(t, "idle")
    /\ UNCHANGED shown

(* The row is read back and the raw key printed. *)
Show(t) ==
    /\ step[t] = "refresh"
    /\ shown' = shown + 1
    /\ Goto(t, "idle")
    /\ UNCHANGED stored

(* Exit with an error: MultipleResultsFound, or the database fails, or an   *)
(* interrupt; what was committed stays.                                     *)
Fail(t) ==
    /\ step[t] # "idle"
    /\ Goto(t, "idle")
    /\ UNCHANGED <<stored, shown>>

Run(t) == Select(t) \/ Commit(t) \/ CommitUnheard(t) \/ Show(t) \/ Fail(t)

KeyNext == \E t \in Terminals : Begin(t) \/ Run(t)

KeySpec == KeyInit /\ [][KeyNext]_keyVars

-----------------------------------------------------------------------------
(* Properties *)

(* Every key that was shown is stored, whatever failed: the raw key is not  *)
(* printed before its row was committed (create_api_key.py:38-49).  The     *)
(* converse fails, and the operator tries again.                            *)
ShownIsStored == shown + Cardinality({t \in Terminals : step[t] = "refresh"}) <= stored
=============================================================================
