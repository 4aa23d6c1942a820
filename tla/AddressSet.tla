----------------------------- MODULE AddressSet -----------------------------
(***************************************************************************)
(* What an address tree promises: an address is created only when it does  *)
(* not exist yet, and it exists from then on.  creations counts how often  *)
(* each address has been created, so that a second time would show.        *)
(* IndexedMerkleTree implements this with a sorted list in the leaves of a *)
(* tree, AddressTree with a queue in front of such a tree.                 *)
(***************************************************************************)
EXTENDS Integers

CONSTANT Address

VARIABLE creations

Init == creations = [a \in Address |-> 0]

\* One transaction creates addresses, all of them new.
Create ==
    \E news \in SUBSET {a \in Address : creations[a] = 0} :
        creations' = [a \in Address |-> IF a \in news THEN creations[a] + 1 ELSE creations[a]]

Spec == Init /\ [][Create]_creations
=============================================================================
