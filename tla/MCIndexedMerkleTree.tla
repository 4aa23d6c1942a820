------------------------ MODULE MCIndexedMerkleTree ------------------------
(* Clients are interchangeable; addresses are ordered and are not.         *)
EXTENDS IndexedMerkleTree, TLC
ClientSymmetry == Permutations(Client)
=============================================================================
