------------------------ MODULE MCCompressedToken ------------------------
\* Two holders and an authority of all mints.
EXTENDS TokenAssert

CONSTANTS alice, bob, admin

MCHolder == {alice, bob}
MCAdmin == {admin}
MCAuthority == [m \in Mint |-> admin]
Symmetry == Permutations(MCHolder) \cup Permutations(Mint) \cup Permutations(Payer)

\* Of the accounts that need not exist, an ordinary one of each holder
MCClaimed == {[mint |-> m, owner |-> h, amount |-> 1, delegate |-> None, state |-> "Initialized",
               lamports |-> 0] : m \in Mint, h \in Holder}

\* The last signers matter to the properties of steps only.
View == <<accounts, pool, spl, supply, context, unsettled>>
=============================================================================
