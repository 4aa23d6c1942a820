---------------------------- MODULE AddressTree ----------------------------
(***************************************************************************)
(* An address Merkle tree with its address queue, as the account-          *)
(* compression program keeps them and as the light-system-program uses     *)
(* them.                                                                   *)
(*                                                                         *)
(* A transaction proves that its new addresses are absent from ANY root    *)
(* still in the root history.  What stops an address from being created    *)
(* twice is the address queue, until the forester has inserted it into the *)
(* tree, and after that the queue cell's sequence number, until every root *)
(* from which the address is absent has left the history.                  *)
(*                                                                         *)
(* Abstractions: the tree is the set of its addresses (IndexedMerkleTree   *)
(* shows that the real one is such a set), a root the set of the addresses *)
(* it proves absent.  The queue is an ExpiringSet; HashSet shows that the  *)
(* real table implements it.  The zero-knowledge proof is taken to be      *)
(* sound and complete.  A failing instruction changes nothing.             *)
(***************************************************************************)
EXTENDS Integers, FiniteSets, QueueConfig

CONSTANTS
    Address,        \* the addresses, as numbers
    TreeCapacity,   \* 2^height leaves
    RootsCapacity,  \* size of the root history
    QueueSlot,      \* the cells of the address queue
    SafetyMargin,   \* SAFETY_MARGIN, 10 in the code
    MaxNew          \* addresses a proof can cover

\* process_initialize_address_merkle_tree_and_queue
ASSUME AddressTreeAssumption ==
    /\ Address \subseteq Nat
    /\ TreeCapacity \in Nat
    /\ RootsCapacity \in Nat \ {0}
    /\ SafetyMargin \in Nat
    /\ Threshold \in Nat
    /\ Threshold >= RootsCapacity + SafetyMargin
    /\ MaxNew \in Nat
    /\ None \notin Nat
    /\ None \notin [value : Nat, sequence_number : Nat \cup {None}]

VARIABLES
    inserted,           \* the addresses in the tree
    sequence_number,    \* changes of the tree so far
    roots,              \* cyclic history: what each root proves absent
    root_index,         \* roots.last_index()
    queue,              \* the address queue
    creations           \* history: how often each address was created

vars == <<inserted, sequence_number, roots, root_index, queue, creations>>

RootSlot == 0 .. RootsCapacity - 1

\* The address queue; its sequence numbers are the tree's.
Queue == INSTANCE ExpiringSet
         WITH Value <- Address, Slot <- QueueSlot, cells <- queue, seq <- sequence_number

\* Addresses that wait in the queue for the forester.
Pending == {queue[p].value : p \in {q \in QueueSlot : Queue!Unmarked(q)}}

\* The slot of root number n.
SlotOf(n) == n % RootsCapacity

-----------------------------------------------------------------------------
\* IndexedMerkleTree::init and add_highest_element make three changes.  The
\* roots of the empty tree and of the lone lowest element prove nothing, the
\* last two prove every address absent.
Init ==
    /\ inserted = {}
    /\ sequence_number = 3
    /\ roots = [r \in RootSlot |-> IF r \in {SlotOf(2), SlotOf(3)} THEN Address ELSE {}]
    /\ root_index = SlotOf(3)
    /\ queue = [p \in QueueSlot |-> None]
    /\ creations = [a \in Address |-> 0]

\* fetch_roots_address_merkle_tree and the proof: every new address names a
\* root of the history from which it is absent.
ProofsVerify(news) == \A a \in news : \E r \in RootSlot : a \in roots[r]

\* Mutant: only the cells the forester has not processed are looked at.
NotPending(news) == news \cap Pending = {}

\* HashSet::insert does not return ElementAlreadyExists.
NotQueued(news) == \A a \in news : ~Queue!Present(a)

\* insert_addresses: the queue takes the addresses one by one; one that
\* occurs twice in the same transaction is refused as any other duplicate.
InsertAddresses(news) ==
    /\ NotQueued(news)
    /\ \E slot \in [news -> QueueSlot] :
        /\ \A a, b \in news : slot[a] = slot[b] => a = b
        /\ \A a \in news : Queue!Free(slot[a])
        /\ queue' = [p \in QueueSlot |->
                        IF \E a \in news : slot[a] = p
                        THEN Queue!NewCell(CHOOSE a \in news : slot[a] = p)
                        ELSE queue[p]]

\* One invocation of the system program that creates addresses.
CreateAddresses(news) ==
    /\ news # {}
    /\ Cardinality(news) <= MaxNew
    /\ ProofsVerify(news)
    /\ InsertAddresses(news)
    /\ creations' = [a \in Address |-> IF a \in news THEN creations[a] + 1 ELSE creations[a]]
    /\ UNCHANGED <<inserted, sequence_number, roots, root_index>>

\* What the tree proves absent once address v is in it.
AbsentAfter(v) == Address \ (inserted \cup {v})

\* Between the two halves of the insertion the low element points to v and v
\* is not yet a leaf: nothing between v and the next address can be proved.
AbsentBetween(v) ==
    {a \in AbsentAfter(v) : a < v \/ \E b \in inserted : v < b /\ b < a}

\* The update of the low element and the append of the new one push a root
\* each.
PushRoots(v) ==
    /\ root_index' = SlotOf(root_index + 2)
    /\ roots' = [r \in RootSlot |->
                    IF r = SlotOf(root_index + 2) THEN AbsentAfter(v)
                    ELSE IF r = SlotOf(root_index + 1) THEN AbsentBetween(v)
                    ELSE roots[r]]

\* Mutants: the threshold forgotten, and added twice.
MarkedAtOnce(s) == s
MarkedTwice(s) == s + Threshold + Threshold

\* mark_with_sequence_number
MarkedWith(s) == s + Threshold

\* update_address_merkle_tree: the forester inserts the address of an unmarked
\* cell and marks the cell with the sequence number after both changes.  The
\* lowest and the highest element take two leaves (TreeFull).
UpdateAddressMerkleTree(p) ==
    /\ Queue!Unmarked(p)
    /\ queue[p].value \notin inserted
    /\ Cardinality(inserted) + 2 < TreeCapacity
    /\ inserted' = inserted \cup {queue[p].value}
    /\ sequence_number' = sequence_number + 2
    /\ PushRoots(queue[p].value)
    /\ queue' = [queue EXCEPT ![p].sequence_number = MarkedWith(sequence_number')]
    /\ UNCHANGED creations

Next ==
    \/ \E news \in SUBSET Address : CreateAddresses(news)
    \/ \E p \in QueueSlot : UpdateAddressMerkleTree(p)

Spec == Init /\ [][Next]_vars

\* Foresters run all the time (forester/src/epoch_manager.rs polls the queues
\* of every tree in every light slot); nothing obliges a user to transact.
FairSpec == Spec /\ \A p \in QueueSlot : WF_vars(UpdateAddressMerkleTree(p))

-----------------------------------------------------------------------------
\* The variables have their types.
TypeOK ==
    /\ inserted \in SUBSET Address
    /\ sequence_number \in Nat
    /\ roots \in [RootSlot -> SUBSET Address]
    /\ root_index \in RootSlot
    /\ queue \in [QueueSlot -> Queue!Cell \cup {None}]
    /\ creations \in [Address -> Nat]

\* An address of the tree that some root of the history still proves absent
\* is held by a valid cell of the queue.
StaleRootsCovered ==
    \A r \in RootSlot : \A a \in roots[r] \cap inserted : Queue!Present(a)

\* Every address the forester has to process is not in the tree yet, in a cell
\* of its own: the range check of its insertion cannot fail for good.
PendingProcessable ==
    /\ Pending \cap inserted = {}
    /\ \A p, q \in QueueSlot :
        Queue!Unmarked(p) /\ Queue!Unmarked(q) /\ queue[p].value = queue[q].value
            => p = q

\* Only insertions change an address tree, and only free cells make insertions
\* possible: a queue full of marked cells would stay full for ever.  Each
\* insertion makes two changes, so more than half of sequence_threshold in
\* cells is enough.
QueueNeverJams ==
    Pending = {} /\ 2 * Cardinality(QueueSlot) > Threshold + 1
        => \E p \in QueueSlot : Queue!Free(p)

\* Every address is created at most once, although old roots are accepted and
\* queue cells are reused.
CreatedAddresses == INSTANCE AddressSet
CreateOnce == CreatedAddresses!Spec

\* An address that was created reaches the tree.
EventuallyInserted == \A a \in Address : (a \in Pending) ~> (a \in inserted \ Pending)
=============================================================================
