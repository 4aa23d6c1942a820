----------------------- MODULE MCConcurrentMerkleTree -----------------------
(* Clients are interchangeable, and so are the values of leaves.           *)
EXTENDS ConcurrentMerkleTree
MCSymmetry == Permutations(Client) \cup Permutations(LeafValue)
=============================================================================
