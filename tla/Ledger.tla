------------------------------- MODULE Ledger -------------------------------
(***************************************************************************)
(* The promise of the protocol to the owner of a compressed account: an    *)
(* account is created once, and it is consumed only by a transaction that  *)
(* finds it unspent.  consumed counts how often each account has been      *)
(* consumed, so that a second time would show.                             *)
(***************************************************************************)
EXTENDS Integers

CONSTANT Account

VARIABLES
    unspent,    \* accounts that exist and may be consumed
    consumed    \* how often each account has been consumed

vars == <<unspent, consumed>>

Init ==
    /\ unspent = {}
    /\ consumed = [a \in Account |-> 0]

\* One transaction consumes unspent accounts and creates new ones.
Transaction ==
    \E inputs \in SUBSET unspent, outputs \in SUBSET Account :
        /\ \A a \in outputs : a \notin unspent /\ consumed[a] = 0
        /\ unspent' = (unspent \ inputs) \cup outputs
        /\ consumed' = [a \in Account |-> IF a \in inputs THEN consumed[a] + 1 ELSE consumed[a]]

Next == Transaction

Spec == Init /\ [][Next]_vars
=============================================================================
