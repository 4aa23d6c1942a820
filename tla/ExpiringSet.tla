---------------------------- MODULE ExpiringSet ----------------------------
(***************************************************************************)
(* What the queues of the account-compression program promise: a set of    *)
(* values kept in a fixed number of cells.  A value that is in the set     *)
(* cannot be inserted again.  Once its update has reached the Merkle tree  *)
(* the cell is marked with a sequence number of the tree, and it may be    *)
(* reused only after the tree has reached that number.  Where in the table *)
(* a value is stored is left open: HashSet implements this specification   *)
(* with probing, StateTree uses it as its nullifier queue.                 *)
(***************************************************************************)
EXTENDS Integers

CONSTANTS
    Value,      \* the values that may be inserted (hashes, addresses)
    Slot,       \* the indices of the cells
    Threshold,  \* sequence_threshold of the hash set
    None        \* an empty cell, and the sequence number of an unmarked one

VARIABLES
    cells,      \* the buckets
    seq         \* the sequence number of the Merkle tree

vars == <<cells, seq>>

Cell == [value : Value, sequence_number : Nat \cup {None}]

\* An inserted cell carries no sequence number until it is marked.
NewCell(v) == [value |-> v, sequence_number |-> None]

\* HashSetCell::is_valid: unmarked, or marked with a number still ahead.
IsValid(c, current) ==
    c.sequence_number # None => c.sequence_number > current

\* A cell an insertion may take: empty or expired.
Free(p) == ~(cells[p] # None /\ IsValid(cells[p], seq))

\* get_unmarked_bucket returns the cell p.
Unmarked(p) == cells[p] # None /\ cells[p].sequence_number = None

\* The value v is in the set.
Present(v) ==
    \E p \in Slot : cells[p] # None /\ cells[p].value = v /\ IsValid(cells[p], seq)

-----------------------------------------------------------------------------
Init ==
    /\ cells = [p \in Slot |-> None]
    /\ seq = 0

\* A value that is not in the set takes a free cell.
Insert ==
    \E v \in Value, p \in Slot :
        /\ ~Present(v)
        /\ Free(p)
        /\ cells' = [cells EXCEPT ![p] = NewCell(v)]
        /\ UNCHANGED seq

\* An update of the tree marks the cell it has consumed.
Mark ==
    \E p \in Slot :
        /\ Unmarked(p)
        /\ seq' \in Nat /\ seq' > seq
        /\ cells' = [cells EXCEPT ![p].sequence_number = seq' + Threshold]

\* Any other update of the tree leaves the set alone.
Advance ==
    /\ seq' \in Nat /\ seq' > seq
    /\ UNCHANGED cells

Next == Insert \/ Mark \/ Advance

Spec == Init /\ [][Next]_vars

-----------------------------------------------------------------------------
TypeOK ==
    /\ cells \in [Slot -> Cell \cup {None}]
    /\ seq \in Nat
=============================================================================
