---------------------------- MODULE MCCpiContext ----------------------------
(* Two programs and two fee payers that share a CPI context account.        *)
EXTENDS CpiTest
CONSTANT t1
MCTreeOwner == [t \in Tree |-> None]
MCAddressOwner == [a \in Address |-> None]
MCRemaining == {<<t1>>}
MCSymmetry == Permutations(Payer) \cup Permutations(Program)
\* listed concerns the last step only, and the property not at all.
MCView == <<stateVars, cpi_context_account, caller, pending>>
=============================================================================
