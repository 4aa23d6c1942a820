------------------------------ MODULE HashSet ------------------------------
(***************************************************************************)
(* merkle-tree/hash-set: the table behind the nullifier and the address    *)
(* queues.  A value may sit in any of the cells of its probe sequence,     *)
(* Iterations of them; a cell that has expired is reused in place, so the  *)
(* table never holds a cell that goes back to empty, and a search may stop *)
(* at the first empty cell.  The caller supplies the Merkle tree's         *)
(* sequence number, which is the variable seq here.                        *)
(*                                                                         *)
(* A call that returns an error changes nothing and is no step of this     *)
(* specification.                                                          *)
(***************************************************************************)
EXTENDS Integers, QueueConfig

CONSTANTS
    Capacity,    \* number of buckets
    Iterations,  \* ITERATIONS, 20 in the code
    Value,       \* the values inserted, read as numbers by probe_index
    MaxSeq       \* bound: the tree's sequence numbers considered

ASSUME HashSetAssumption ==
    /\ Capacity \in Nat \ {0}
    /\ Iterations \in Nat \ {0}
    /\ Threshold \in Nat
    /\ Value \subseteq Nat
    /\ MaxSeq \in Nat
    /\ None \notin Nat
    /\ None \notin [value : Value, sequence_number : Nat \cup {None}]

VARIABLES
    buckets,     \* the array of Option<HashSetCell>
    seq          \* sequence number of the Merkle tree the queue belongs to

HashSetVars == <<buckets, seq>>

Bucket == 0 .. Capacity - 1
Iteration == 0 .. Iterations - 1
Cell == [value : Value, sequence_number : Nat \cup {None}]

\* HashSetCell::is_valid
is_valid(c, current_sequence_number) ==
    c.sequence_number # None => c.sequence_number > current_sequence_number

\* HashSet::probe_index; the offset Capacity \div 10 widens the steps.
probe_index(v, i) ==
    (v + (i + Capacity \div 10) * (i + Capacity \div 10)) % Capacity

Probed(v, i) == buckets[probe_index(v, i)]

\* The bucket visited at iteration i can take a new element.
Available(v, i) == ~(Probed(v, i) # None /\ is_valid(Probed(v, i), seq))

\* The bucket visited at iteration i holds v and has not expired.
Holds(v, i) ==
    /\ Probed(v, i) # None
    /\ Probed(v, i).value = v
    /\ is_valid(Probed(v, i), seq)

\* Mutant: the search ends at the first available bucket, expired or not.
FindEndsAtExpired(v, i) ==
    /\ Available(v, i)
    /\ \A j \in 0 .. i - 1 : ~Available(v, j) /\ ~Holds(v, j)

\* find_element_iter returns the bucket of iteration i.  The loop ends at the
\* first available bucket if that one is empty; if it is an expired one the
\* loop goes on over the whole range, to make sure the value is not there.
find_element_iter(v, i) ==
    /\ Available(v, i)
    /\ \A j \in 0 .. i - 1 : ~Available(v, j)
    /\ \A j \in IF Probed(v, i) = None THEN 0 .. i - 1 ELSE Iteration : ~Holds(v, j)

\* Mutant: an expired bucket ends the search too.
ContainsEndsAtExpired(v) ==
    \E i \in Iteration :
        /\ Holds(v, i)
        /\ \A j \in 0 .. i - 1 : ~Available(v, j)

\* find_element_index with the current sequence number: an empty bucket ends
\* the search.
contains(v) ==
    \E i \in Iteration :
        /\ Holds(v, i)
        /\ \A j \in 0 .. i - 1 : Probed(v, j) # None

\* get_unmarked_bucket
get_unmarked_bucket(p) == buckets[p] # None /\ buckets[p].sequence_number = None

\* Mutant: an element expires with the update that marks it.
ExpiryAtOnce(sequence_number) == sequence_number

\* The number a cell is marked with: the tree's number at which it expires.
Expiry(sequence_number) == sequence_number + Threshold

-----------------------------------------------------------------------------
\* HashSet::new
HashSetInit ==
    /\ buckets = [p \in Bucket |-> None]
    /\ seq = 0

\* HashSet::insert, into an empty or into an expired bucket
\* (insert_into_occupied_cell); ElementAlreadyExists and Full change nothing.
insert(v) ==
    /\ \E i \in Iteration :
        /\ find_element_iter(v, i)
        /\ buckets' = [buckets EXCEPT ![probe_index(v, i)] =
                            [value |-> v, sequence_number |-> None]]
    /\ UNCHANGED seq

\* The callers of mark_with_sequence_number mark an unmarked bucket with the
\* sequence number their update of the tree has just produced.
mark_with_sequence_number(p, sequence_number) ==
    /\ get_unmarked_bucket(p)
    /\ seq' = sequence_number
    /\ buckets' = [buckets EXCEPT ![p].sequence_number = Expiry(sequence_number)]

\* An append to the tree moves the sequence number and not the queue.
AdvanceTree(sequence_number) ==
    /\ seq' = sequence_number
    /\ UNCHANGED buckets

HashSetNext ==
    \/ \E v \in Value : insert(v)
    \/ \E p \in Bucket, s \in seq + 1 .. MaxSeq : mark_with_sequence_number(p, s)
    \/ \E s \in seq + 1 .. MaxSeq : AdvanceTree(s)

HashSetSpec == HashSetInit /\ [][HashSetNext]_HashSetVars

-----------------------------------------------------------------------------
\* Every bucket is empty or holds a cell.
HashSetTypeOK ==
    /\ buckets \in [Bucket -> Cell \cup {None}]
    /\ seq \in Nat

\* A value never sits in two valid buckets: the second insertion of a
\* nullifier fails although buckets before the first one may have expired and
\* been reused in the meantime.
NoDuplicates ==
    \A p, q \in Bucket :
        /\ buckets[p] # None /\ is_valid(buckets[p], seq)
        /\ buckets[q] # None /\ is_valid(buckets[q], seq)
        /\ buckets[p].value = buckets[q].value
        => p = q

\* contains finds a value exactly when some bucket holds it validly: stopping
\* at an empty bucket, and after Iterations probes, misses nothing.
LookupComplete ==
    \A v \in Value :
        contains(v) <=> \E p \in Bucket :
            buckets[p] # None /\ buckets[p].value = v /\ is_valid(buckets[p], seq)

\* The table implements the expiring set that the programs rely on.
Abstract == INSTANCE ExpiringSet WITH Slot <- Bucket, cells <- buckets
ImplementsExpiringSet == Abstract!Spec
=============================================================================
