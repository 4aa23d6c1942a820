-------------------------- MODULE MCSystemProgram --------------------------
(* Two trees, one of them named by two indices, one address, and amounts    *)
(* whose sum can exceed the largest u64.                                    *)
EXTENDS SystemClient
CONSTANTS t1, t2, s1
MCTreeOwner == [t \in Tree |-> None]
MCAddressOwner == [a \in Address |-> None]
MCTwoTrees == {<<t1, t2, t1>>}
MCPubkeyOrder == <<t2, t1>>
MCAddress == {<<AddressTree, s1>>}
\* listed concerns the last step only, which action properties are checked for.
MCView == <<stateVars, indexer, log>>
=============================================================================
