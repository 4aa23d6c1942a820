------------------------- MODULE IndexedMerkleTree -------------------------
(***************************************************************************)
(* merkle-tree/indexed: the set of addresses, kept as a sorted linked list *)
(* in the leaves of a concurrent Merkle tree.  A leaf hashes an address    *)
(* with the index and the value of the next larger one, so one leaf proves *)
(* that nothing between the two is in the tree.  To insert an address, its *)
(* low element (the largest smaller address) is updated to point to it and *)
(* the new element is appended.                                            *)
(*                                                                         *)
(* The sender (a forester) reads the low element and its proof off chain.  *)
(* By the time its instruction arrives the low element may have a new      *)
(* successor, or another element may have become the low element; the      *)
(* indexed changelog is used to find out and to patch the request.         *)
(*                                                                         *)
(* Addresses are numbers.  leaves and requests are not in the program:     *)
(* leaves is the tree that the hashes stand for, requests what foresters   *)
(* have prepared.  relayer is the copy of the tree that the test forester  *)
(* keeps: an indexed array and a reference tree.                           *)
(*                                                                         *)
(* As the struct dereferences to its concurrent Merkle tree, the module    *)
(* extends ConcurrentMerkleTree and has the operations on its variables;   *)
(* LeafValue and MaxSeq belong to the actions of that module alone.        *)
(***************************************************************************)
EXTENDS IndexedArray, FiniteSets, ConcurrentMerkleTree

CONSTANTS
    IndexedChangelogCapacity,
    Address         \* the addresses

ASSUME IndexedAssumption ==
    /\ Address \subseteq Nat \ {0}
    /\ HighestAddress \in Nat \ {0}
    /\ \A a \in Address : a < HighestAddress
    /\ IndexedChangelogCapacity \in Nat \ {0}

VARIABLES
    indexed_changelog,  \* indexed_changelog
    relayer             \* the copy that is kept off chain

indexed_vars == <<tree, indexed_changelog, leaves, requests, relayer>>

NetLevel == Level \ CanopyLevel

\* IndexedChangelogEntry; of the proof, the levels below the canopy.
IndexedChangelogEntry(element, next_value, proof, changelog_index) ==
    [element         |-> [index      |-> element.index,
                          value      |-> element.value,
                          next_index |-> element.next_index,
                          next_value |-> next_value],
     proof           |-> [l \in NetLevel |-> proof[l]],
     changelog_index |-> changelog_index]

-----------------------------------------------------------------------------
\* What is patched: the request, and the next_index of the new element.
Insertion(request) ==
    [value           |-> request.value,
     next_index      |-> request.low_element.next_index,
     low_element     |-> request.low_element,
     low_next_value  |-> request.low_next_value,
     proof           |-> request.proof,
     changelog_index |-> request.changelog_index,
     switched        |-> FALSE]

\* Mutant: the new element keeps the successor the client has seen.
PatchKeepsNextIndex(ins, entry) ==
    [value           |-> ins.value,
     next_index      |-> ins.next_index,
     low_element     |-> IndexedElement(entry.element.index, entry.element.value,
                                        entry.element.next_index),
     low_next_value  |-> entry.element.next_value,
     proof           |-> entry.proof,
     changelog_index |-> entry.changelog_index,
     switched        |-> FALSE]

\* An entry of the low element whose new successor is not below the address:
\* it is still the low element, with another successor.
PatchLowElement(ins, entry) ==
    [value           |-> ins.value,
     next_index      |-> entry.element.next_index,
     low_element     |-> IndexedElement(entry.element.index, entry.element.value,
                                        entry.element.next_index),
     low_next_value  |-> entry.element.next_value,
     proof           |-> entry.proof,
     changelog_index |-> entry.changelog_index,
     switched        |-> FALSE]

\* Mutant: the new low element with the proof of the old one.
SwitchKeepsProof(ins, entry, following) ==
    [value           |-> ins.value,
     next_index      |-> following.element.next_index,
     low_element     |-> IndexedElement(following.element.index, entry.element.next_value,
                                        following.element.next_index),
     low_next_value  |-> ins.low_next_value,
     proof           |-> ins.proof,
     changelog_index |-> following.changelog_index,
     switched        |-> TRUE]

\* An entry of the low element whose new successor is below the address: the
\* successor, which the following entry has appended, is the new low element.
\* Its own successor is the one the old low element had.
SwitchLowElement(ins, entry, following) ==
    [value           |-> ins.value,
     next_index      |-> following.element.next_index,
     low_element     |-> IndexedElement(following.element.index, entry.element.next_value,
                                        following.element.next_index),
     low_next_value  |-> ins.low_next_value,
     proof           |-> following.proof,
     changelog_index |-> following.changelog_index,
     switched        |-> TRUE]

\* One entry.  After a switch patching starts again behind the entry of the
\* new low element, which is therefore passed over.
Patch(ins, entry, following) ==
    IF ins.switched THEN [ins EXCEPT !.switched = FALSE]
    ELSE IF entry.element.index # ins.low_element.index THEN ins
    ELSE IF entry.element.next_value < ins.value THEN SwitchLowElement(ins, entry, following)
    ELSE PatchLowElement(ins, entry)

\* patch_elements_and_proof: the entries newer than the one the client has
\* seen, in order, each with the one that follows it in the ring.
patch_elements_and_proof(request) ==
    LET start == request.indexed_changelog_index
        entries == Tail(IterFrom(indexed_changelog, IndexedChangelogCapacity, start))
        following(k) == At(indexed_changelog, (start + k + 1) % Len(indexed_changelog.data))
        patched[k \in 0 .. Len(entries)] ==
            IF k = 0 THEN Insertion(request)
            ELSE Patch(patched[k - 1], entries[k], following(k))
    IN  patched[Len(entries)]

\* Mutant: the range is not checked against the next element.
AboveLowElement(ins) == ins.value > ins.low_element.value

\* update: LowElementGreaterOrEqualToNewElement and
\* NewElementGreaterOrEqualToNextElement; the greatest element has no next.
InRange(ins) ==
    /\ ins.value > ins.low_element.value
    /\ ins.low_element.next_index # 0 => ins.value < ins.low_next_value

\* The update of the low leaf that is handed to the concurrent Merkle tree.
LowLeafUpdate(ins) ==
    [leaf_index      |-> ins.low_element.index,
     old_leaf        |-> hash(ins.low_element, ins.low_next_value),
     proof           |-> ins.proof,
     changelog_index |-> ins.changelog_index]

\* update succeeds: IterFromOutOfBounds, the range, the proof of the low leaf,
\* TreeFull
AcceptsInsertion(request) ==
    /\ InBounds(indexed_changelog, request.indexed_changelog_index)
    /\ InRange(patch_elements_and_proof(request))
    /\ Accepts(tree, LowLeafUpdate(patch_elements_and_proof(request)))
    /\ BatchFits(tree, <<None>>)

\* The new low element points to the new element, which takes over its
\* successor.
NewLowElement(ins) == [ins.low_element EXCEPT !.next_index = tree.next_index]
NewElement(ins) == [index |-> tree.next_index, value |-> ins.value, next_index |-> ins.next_index]

\* The two entries an insertion writes.
PushEntries(low_entry, new_entry) ==
    indexed_changelog' = Push(Push(indexed_changelog, IndexedChangelogCapacity, low_entry),
                              IndexedChangelogCapacity, new_entry)

\* update, of the low leaf and then of the appended one
update(ins) ==
    LET proof    == FreshProof(tree, LowLeafUpdate(ins))
        low_leaf == hash(NewLowElement(ins), ins.value)
        new_leaf == hash(NewElement(ins), ins.low_next_value)
        updated  == update_leaf_in_tree(tree, low_leaf, ins.low_element.index, proof)
    IN  /\ tree' = append_batch(updated, <<new_leaf>>)
        /\ PushEntries(
             IndexedChangelogEntry(NewLowElement(ins), ins.value, proof,
                                   updated.changelog.last_index),
             IndexedChangelogEntry(NewElement(ins), ins.low_next_value, AppendProof(updated),
                                   tree'.changelog.last_index))
        /\ leaves' = [leaves EXCEPT ![ins.low_element.index] = low_leaf,
                                    ![tree.next_index] = new_leaf]

-----------------------------------------------------------------------------
\* The copy.  Its reference tree is the leaves it has been given.

\* reference.rs, update
UpdateReference(ref, bundle) ==
    [ref EXCEPT ![bundle.new_low_element.index] =
                    hash(bundle.new_low_element, bundle.new_element.value),
                ![bundle.new_element.index] =
                    hash(bundle.new_element, bundle.new_element_next_value)]

Relay(copy, low, value) ==
    [indexed_array |-> append_with_low_element_index(copy.indexed_array, low, value),
     merkle_tree   |-> UpdateReference(copy.merkle_tree,
                         new_element_with_low_element_index(copy.indexed_array, low, value))]

\* Mutant: with the low element that was found when the request was prepared.
RelayRequest(copy, request) == Relay(copy, request.low_element.index, request.value)

\* empty_address_queue_test: the low element is looked up in the copy, after
\* the insertion.
RelayInsertion(copy, request) ==
    Relay(copy, find_low_element_index_for_nonexistent(copy.indexed_array, request.value),
          request.value)

-----------------------------------------------------------------------------
\* init and add_highest_element, which initialize_address_merkle_tree calls
\* one after the other: element 0 has value 0 and, at last, the highest
\* address as its successor.
Lowest == Default.elements[0]

IndexedInit ==
    LET inited  == append_batch(NewTree, <<hash(Lowest, 0)>>)
        low     == InitArray.elements[0]
        highest == InitArray.elements[1]
        updated == update_leaf_in_tree(inited, hash(low, HighestAddress), 0, ZeroBytes)
        added   == append_batch(updated, <<hash(highest, 0)>>)
        first   == IndexedChangelogEntry(Lowest, 0, ZeroBytes, 0)
        second  == IndexedChangelogEntry(low, HighestAddress, ZeroBytes,
                                         updated.changelog.last_index)
        third   == IndexedChangelogEntry(highest, 0, AppendProof(updated),
                                         added.changelog.last_index)
        push(vec, entry) == Push(vec, IndexedChangelogCapacity, entry)
    IN  /\ tree = added
        /\ indexed_changelog = push(push(push(push(EmptyVec, first), first), second), third)
        /\ leaves = [i \in LeafIndex |->
                        IF i <= 1 THEN hash_element(InitArray, i) ELSE Zero]
        /\ relayer = [indexed_array |-> InitArray, merkle_tree |-> leaves]
        /\ requests = [c \in Client |-> None]

\* A client reads an element that it takes for the low element of an address,
\* rightly or wrongly, with its proof and the positions of both changelogs.
\* The sequence number is history.
FetchLowElement(c, value, i) ==
    /\ requests[c] = None
    /\ i < tree.next_index
    /\ requests' = [requests EXCEPT ![c] =
            [value                   |-> value,
             low_element             |-> [index      |-> i,
                                          value      |-> leaves[i].value,
                                          next_index |-> leaves[i].next_index],
             low_next_value          |-> leaves[i].next_value,
             proof                   |-> [l \in NetLevel |->
                                            NodesOf(leaves)[l][SiblingIndex(i, l)]],
             changelog_index         |-> tree.changelog.last_index,
             indexed_changelog_index |-> indexed_changelog.last_index,
             sequence_number         |-> tree.sequence_number]]
    /\ UNCHANGED <<tree, indexed_changelog, leaves, relayer>>

\* update, sent by client c
Insert(c) ==
    /\ requests[c] # None
    /\ AcceptsInsertion(requests[c])
    /\ update(patch_elements_and_proof(requests[c]))
    /\ relayer' = RelayInsertion(relayer, requests[c])
    /\ requests' = [requests EXCEPT ![c] = None]

\* update fails; the client starts again.
InsertFails(c) ==
    /\ requests[c] # None
    /\ ~AcceptsInsertion(requests[c])
    /\ requests' = [requests EXCEPT ![c] = None]
    /\ UNCHANGED <<tree, indexed_changelog, leaves, relayer>>

IndexedNext ==
    \/ \E c \in Client, value \in Address, i \in LeafIndex : FetchLowElement(c, value, i)
    \/ \E c \in Client : Insert(c)
    \/ \E c \in Client : InsertFails(c)

IndexedSpec == IndexedInit /\ [][IndexedNext]_indexed_vars

-----------------------------------------------------------------------------
Elements == 0 .. tree.next_index - 1
Values == {leaves[i].value : i \in Elements}

\* The elements form one list in increasing order from 0 to the highest
\* address, whatever the order in which insertions arrive and however old
\* they are: each element names the position and the value of the next larger
\* one, and nothing lies between the two.
SortedList ==
    \A i \in Elements :
        /\ leaves[i].next_value = leaves[leaves[i].next_index].value
        /\ IF leaves[i].value = HighestAddress THEN leaves[i].next_index = 0
           ELSE /\ leaves[i].value < leaves[i].next_value
                /\ \A v \in Values : ~(leaves[i].value < v /\ v < leaves[i].next_value)

\* An insertion prepared with the right low element is accepted as long as
\* nobody has inserted the address itself and both changelogs still hold the
\* entries written since: any other insertion in between is patched away.
StaleInsertionsAccepted ==
    \A c \in Client :
        LET r == requests[c]
        IN  /\ r # None
            /\ r.low_element.value < r.value /\ r.value < r.low_next_value
            /\ r.value \notin Values
            /\ tree.sequence_number - r.sequence_number < ChangelogCapacity
            /\ tree.sequence_number - r.sequence_number < IndexedChangelogCapacity
            /\ tree.next_index < Pow2[Height]
            => AcceptsInsertion(r)

\* The copy has the same leaves as the tree on chain, which patches requests by
\* rules of its own, and finds the low element of every other address, with
\* which the next request is prepared.
CopyFollowsChain ==
    /\ relayer.merkle_tree = leaves
    /\ \A i \in Elements : hash_element(relayer.indexed_array, i) = leaves[i]
    /\ \A v \in Address \ Values :
        LET low == find_low_element_for_nonexistent(relayer.indexed_array, v)
        IN  low.value < v /\ v < NextValue(relayer.indexed_array, low)

\* No address is inserted twice and none is lost, without the queue's help.
Addresses == INSTANCE AddressSet
             WITH creations <- [a \in Address |->
                                  Cardinality({i \in Elements : leaves[i].value = a})]
InsertedOnce == Addresses!Spec
=============================================================================
