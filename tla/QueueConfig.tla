---------------------------- MODULE QueueConfig ----------------------------
(***************************************************************************)
(* What a Merkle tree and its queue have in common: the queue's table      *)
(* (HashSet) and the programs that keep the queue beside the tree          *)
(* (StateTree, AddressTree) use the same sequence_threshold.               *)
(***************************************************************************)
CONSTANTS
    Threshold,      \* sequence_threshold of the queue
    None            \* Option::None
=============================================================================
