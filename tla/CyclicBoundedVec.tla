-------------------------- MODULE CyclicBoundedVec --------------------------
(***************************************************************************)
(* merkle-tree/bounded-vec: the ring buffer behind the changelog and the   *)
(* root history of the Merkle trees.  A vector is a record of its elements *)
(* (data[i + 1] is the element at index i, so Len(data) is the length) and *)
(* of the indices of its first (oldest) and last (newest) element.         *)
(***************************************************************************)
EXTENDS Integers, Sequences

\* with_capacity
EmptyVec == [data |-> <<>>, first_index |-> 0, last_index |-> 0]

\* get
At(vec, index) == vec.data[index + 1]

\* last
LastOf(vec) == At(vec, vec.last_index)

\* push: the vector grows up to its capacity, then the newest element takes
\* the place of the oldest.
Push(vec, capacity, x) ==
    IF Len(vec.data) < capacity
    THEN [data |-> Append(vec.data, x), first_index |-> 0, last_index |-> Len(vec.data)]
    ELSE LET last == (vec.last_index + 1) % capacity
         IN  [data |-> [vec.data EXCEPT ![last + 1] = x],
              first_index |-> (vec.first_index + 1) % capacity,
              last_index |-> last]

\* The elements an iterator yields: from index start to the newest one.
IterFrom(vec, capacity, start) ==
    LET count == ((vec.last_index - start) % capacity) + 1
    IN  [k \in 1 .. count |-> At(vec, (start + k - 1) % capacity)]

\* iter_from does not return IterFromOutOfBounds
InBounds(vec, start) == start < Len(vec.data)
=============================================================================
