----------------------- MODULE MCAccountCompression -----------------------
(* Symmetry of the accounts for TLC. *)
EXTENDS RegistryClient, TLC

AccountSymmetry == Permutations(TreeAccount) \cup Permutations(QueueAccount)
                       \cup Permutations(RightSize)
=============================================================================
