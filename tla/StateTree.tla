----------------------------- MODULE StateTree -----------------------------
(***************************************************************************)
(* A state Merkle tree with its nullifier queue, as the account-compression*)
(* program keeps them and as the light-system-program uses them.           *)
(*                                                                         *)
(* A compressed account is a leaf.  Its hash covers the tree and the leaf  *)
(* index, so a leaf is identified by its index.  A transaction proves its  *)
(* inputs against ANY root still in the root history, an old one included; *)
(* what stops an account from being consumed twice is the nullifier queue, *)
(* until the forester has replaced the leaf by zero, and after that the    *)
(* queue cell's sequence number, until every root that still contains the  *)
(* leaf has left the history.                                              *)
(*                                                                         *)
(* Abstractions: a root is the set of the accounts it can prove; the       *)
(* "zero root" of a non-terminal leaf of a batch, and a slot not yet       *)
(* written, prove nothing.  The queue is an ExpiringSet; HashSet shows     *)
(* that the real table implements it.  The zero-knowledge proof is taken   *)
(* to be sound and complete.  A failing instruction changes nothing.       *)
(***************************************************************************)
EXTENDS Integers, FiniteSets, QueueConfig

CONSTANTS
    TreeCapacity,       \* 2^height leaves
    RootsCapacity,      \* size of the root history
    ChangelogCapacity,  \* largest batch (BatchGreaterThanChangelog)
    QueueSlot,          \* the cells of the nullifier queue
    SafetyMargin,       \* SAFETY_MARGIN, 10 in the code
    MaxInputs           \* inputs a proof can cover (8 in the verifier)

\* process_initialize_nullifier_queue and the tree's size constraints.
ASSUME StateTreeAssumption ==
    /\ TreeCapacity \in Nat
    /\ RootsCapacity \in Nat \ {0}
    /\ ChangelogCapacity \in Nat \ {0}
    /\ SafetyMargin \in Nat
    /\ Threshold \in Nat
    /\ Threshold >= RootsCapacity + SafetyMargin
    /\ MaxInputs \in Nat
    /\ None \notin Nat
    /\ None \notin [value : Nat, sequence_number : Nat \cup {None}]

VARIABLES
    next_index,         \* leaves appended so far
    sequence_number,    \* changes of the tree so far
    live,               \* leaves not replaced by zero
    roots,              \* cyclic history: what each root can prove
    root_index,         \* roots.last_index()
    queue,              \* the nullifier queue
    consumed            \* history: how often each account was consumed

vars == <<next_index, sequence_number, live, roots, root_index, queue, consumed>>

RootSlot == 0 .. RootsCapacity - 1
Account == 0 .. TreeCapacity - 1

\* The nullifier queue; its sequence numbers are the tree's.
Queue == INSTANCE ExpiringSet
         WITH Value <- Nat, Slot <- QueueSlot, cells <- queue, seq <- sequence_number

Injective(f) == \A x, y \in DOMAIN f : f[x] = f[y] => x = y

\* Steps from the current root slot forward to slot r, 1 .. RootsCapacity.
StepsTo(r) == IF r > root_index THEN r - root_index ELSE r - root_index + RootsCapacity

\* The slot reached by n pushes.
SlotAfter(n) == (root_index + n) % RootsCapacity

\* n pushes into the cyclic history: the last one a root of the tree whose
\* leaves are l, the ones before it zero roots.
PushRoots(n, l) ==
    /\ root_index' = SlotAfter(n)
    /\ roots' = [r \in RootSlot |->
                    IF r = SlotAfter(n) THEN l
                    ELSE IF StepsTo(r) <= n THEN {} ELSE roots[r]]

\* Accounts whose nullifier waits in the queue for the forester.
Pending == {queue[p].value : p \in {q \in QueueSlot : Queue!Unmarked(q)}}

\* Accounts a transaction may still consume.
Unspent == live \ Pending

-----------------------------------------------------------------------------
\* ConcurrentMerkleTree::init and the empty queue.
Init ==
    /\ next_index = 0
    /\ sequence_number = 0
    /\ live = {}
    /\ roots = [r \in RootSlot |-> {}]
    /\ root_index = 0
    /\ queue = [p \in QueueSlot |-> None]
    /\ consumed = [i \in Account |-> 0]

\* fetch_input_compressed_account_roots and verify_state_proof: every input
\* names a root of the history in which it is a leaf.
ProofsVerify(inputs) == \A i \in inputs : \E r \in RootSlot : i \in roots[r]

\* Mutant: only the cells the forester has not processed are looked at.
NotPending(inputs) == inputs \cap Pending = {}

\* HashSet::insert does not return ElementAlreadyExists.
NotQueued(inputs) == \A i \in inputs : ~Queue!Present(i)

\* insert_nullifiers: the queue takes the inputs one by one, at the sequence
\* number the tree has before the outputs are appended.  A value inserted
\* twice by the same transaction is refused as any other duplicate.
InsertNullifiers(inputs) ==
    /\ NotQueued(inputs)
    /\ \E slot \in [inputs -> QueueSlot] :
        /\ Injective(slot)
        /\ \A i \in inputs : Queue!Free(slot[i])
        /\ queue' = [p \in QueueSlot |->
                        IF \E i \in inputs : slot[i] = p
                        THEN Queue!NewCell(CHOOSE i \in inputs : slot[i] = p)
                        ELSE queue[p]]

\* The indices a batch of n leaves takes.
NewLeaves(n) == next_index .. next_index + n - 1

\* append_batch of n output accounts: TreeFull and BatchGreaterThanChangelog
\* are its guards; every leaf advances the sequence number and pushes a root.
AppendLeaves(n) ==
    /\ next_index + n <= TreeCapacity
    /\ n <= ChangelogCapacity
    /\ next_index' = next_index + n
    /\ sequence_number' = sequence_number + n
    /\ live' = live \cup NewLeaves(n)
    /\ IF n = 0 THEN UNCHANGED <<roots, root_index>> ELSE PushRoots(n, live')

\* One invocation of the system program with state inputs and n outputs.
Transact(inputs, n) ==
    /\ ~(inputs = {} /\ n = 0)
    /\ Cardinality(inputs) <= MaxInputs
    /\ ProofsVerify(inputs)
    /\ InsertNullifiers(inputs)
    /\ AppendLeaves(n)
    /\ consumed' = [i \in Account |-> IF i \in inputs THEN consumed[i] + 1 ELSE consumed[i]]

\* Mutant: the threshold forgotten.
MarkedAtOnce(s) == s

\* mark_with_sequence_number
MarkedWith(s) == s + Threshold

\* ConcurrentMerkleTree::update of leaf i with zero
ZeroLeaf(i) == live \ {i}

\* nullify_leaves: the forester replaces the leaf of an unmarked cell by zero
\* and marks the cell with the tree's new sequence number.
NullifyLeaves(p) ==
    /\ Queue!Unmarked(p)
    /\ queue[p].value \in live
    /\ live' = ZeroLeaf(queue[p].value)
    /\ sequence_number' = sequence_number + 1
    /\ PushRoots(1, live')
    /\ queue' = [queue EXCEPT ![p].sequence_number = MarkedWith(sequence_number')]
    /\ UNCHANGED <<next_index, consumed>>

Next ==
    \/ \E inputs \in SUBSET (0 .. next_index - 1), n \in 0 .. ChangelogCapacity :
            Transact(inputs, n)
    \/ \E p \in QueueSlot : NullifyLeaves(p)

Spec == Init /\ [][Next]_vars

\* Foresters run all the time (forester/src/epoch_manager.rs polls the queues
\* of every tree in every light slot), so a nullifier that can be processed is
\* processed; nothing obliges a user to transact.
FairSpec == Spec /\ \A p \in QueueSlot : WF_vars(NullifyLeaves(p))

-----------------------------------------------------------------------------
\* The variables have their types and the tree holds the leaves it counts.
TypeOK ==
    /\ next_index \in 0 .. TreeCapacity
    /\ sequence_number \in Nat
    /\ live \subseteq 0 .. next_index - 1
    /\ roots \in [RootSlot -> SUBSET (0 .. next_index - 1)]
    /\ root_index \in RootSlot
    /\ queue \in [QueueSlot -> Queue!Cell \cup {None}]
    /\ consumed \in [Account -> Nat]

\* A nullified account that some root of the history still proves is held by
\* a valid cell of the queue.  This is what sequence_threshold is for.
StaleRootsCovered ==
    \A r \in RootSlot : \A i \in roots[r] \ live : Queue!Present(i)

\* Every nullifier the forester has to process is for a leaf still in the
\* tree, in a cell of its own: its update of the tree cannot fail for good.
PendingProcessable ==
    /\ Pending \subseteq live
    /\ \A p, q \in QueueSlot :
        Queue!Unmarked(p) /\ Queue!Unmarked(q) /\ queue[p].value = queue[q].value
            => p = q

\* Every account is consumed at most once, although old roots are accepted
\* and queue cells are reused.
SpentLedger == INSTANCE Ledger WITH unspent <- Unspent
SpendOnce == SpentLedger!Spec

\* An accepted nullifier reaches the tree and its cell is marked.
EventuallyNullified ==
    \A i \in Account : (i \in Pending) ~> (i \notin live \cup Pending)
=============================================================================
