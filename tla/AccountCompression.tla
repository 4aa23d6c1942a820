------------------------- MODULE AccountCompression -------------------------
(***************************************************************************)
(* The account-compression program as the keeper of tree and queue         *)
(* accounts: who may write to them (groups of registered programs, or an   *)
(* owner), what writing costs, and how a full pair of tree and queue is    *)
(* replaced by a new one that the collected fees pay for.                  *)
(*                                                                         *)
(* A tree is the number of its leaves and a queue the number of values     *)
(* that wait in it; StateTree and AddressTree say what is in them.  All    *)
(* trees have the same size, and so have all queues.                       *)
(***************************************************************************)
EXTENDS Integers, FiniteSets

CONSTANTS
    Wallet,         \* signers that are not programs
    Group,          \* addresses of GroupAuthority accounts
    Program,        \* programs that may be registered to a group
    TreeAccount,    \* addresses of Merkle tree accounts
    QueueAccount,   \* addresses of queue accounts
    Leaves,         \* 2^height
    Thresholds,     \* the values of rollover_threshold, None included
    TreeRent,       \* rent exemption of a tree account
    QueueRent,      \* rent exemption of a queue account
    MaxBatch,       \* leaves or values per instruction
    MaxQueued,      \* bound of this model: values waiting in a queue
    None            \* Option::None, and an account that is not initialized

Caller == Wallet \cup Program
Kind == {"state", "address"}

\* Metadata, leaf count and lamports of tree accounts; of queue accounts, with
\* the number of values that wait.
TreeType ==
    [kind : Kind, owner : Caller \cup Group,
     service : [network_fee : Nat, forester : Wallet \cup {None}],
     rollover_threshold : Nat \cup {None}, rollover_fee : Nat,
     associated_queue : QueueAccount, rolledover : BOOLEAN,
     next_merkle_tree : TreeAccount \cup {None}, next_index : Nat, lamports : Nat]
QueueType ==
    [kind : Kind, owner : Caller \cup Group,
     rollover_threshold : Nat \cup {None}, rollover_fee : Nat,
     associated_merkle_tree : TreeAccount, rolledover : BOOLEAN,
     next_queue : QueueAccount \cup {None}, waiting : Nat, lamports : Nat]

ASSUME AccountCompressionAssumption ==
    /\ Leaves \in Nat \ {0, 1}
    /\ TreeRent \in Nat \ {0} /\ QueueRent \in Nat \ {0}
    /\ MaxBatch \in Nat /\ MaxQueued \in Nat
    /\ \A h \in Thresholds : h = None \/ h \in Nat

\* A wallet is neither a program nor a derived address, and None is no account.
ASSUME AddressAssumption ==
    /\ Wallet \cap (Program \cup Group) = {}
    /\ None \notin TreeAccount /\ None \notin QueueAccount
    /\ None \notin TreeType /\ None \notin QueueType

VARIABLES
    group_authority,    \* GroupAuthority::authority of each group
    registered,         \* RegisteredProgram::group_authority_pda of each program
    trees,              \* tree accounts
    queues              \* queue accounts

groupVars == <<group_authority, registered>>
vars == <<group_authority, registered, trees, queues>>

\* check_signer_is_registered_or_authority, for an account with this owner
MayAccess(caller, owner) ==
    \/ caller \in Program /\ registered[caller] # None /\ registered[caller] = owner
    \/ caller = owner

-----------------------------------------------------------------------------
\* Rollover fees.

CeilDiv(a, b) == (a + b - 1) \div b

\* compute_rollover_fee, per leaf
compute_rollover_fee(threshold, rent) ==
    IF threshold = 0 THEN rent ELSE CeilDiv(rent * 100, Leaves * threshold)

RolloverFee(threshold) ==
    IF threshold = None THEN 0
    ELSE compute_rollover_fee(threshold, TreeRent) + compute_rollover_fee(threshold, QueueRent)

\* InvalidRolloverThreshold and check_rollover_fee_sufficient
FeeSufficient(threshold) ==
    threshold # None =>
        /\ threshold <= 100
        /\ \/ RolloverFee(threshold) = QueueRent + TreeRent
           \/ (RolloverFee(threshold) * threshold * Leaves) \div 100 >= QueueRent + TreeRent

-----------------------------------------------------------------------------
\* Accounts, with the metadata that init writes.

\* Who services the tree: protocol foresters for its network fee, or its own.
Service(network_fee, forester) == [network_fee |-> network_fee, forester |-> forester]

Tree(kind, owner, service, threshold, fee, queue, next_index) ==
    [kind |-> kind, owner |-> owner, service |-> service,
     rollover_threshold |-> threshold, rollover_fee |-> fee,
     associated_queue |-> queue, rolledover |-> FALSE, next_merkle_tree |-> None,
     next_index |-> next_index, lamports |-> TreeRent]

Queue(kind, owner, threshold, fee, tree) ==
    [kind |-> kind, owner |-> owner, rollover_threshold |-> threshold, rollover_fee |-> fee,
     associated_merkle_tree |-> tree, rolledover |-> FALSE, next_queue |-> None,
     waiting |-> 0, lamports |-> QueueRent]

\* process_initialize_state_merkle_tree: every appended leaf pays the fee.
StateMerkleTree(owner, service, threshold, queue) ==
    Tree("state", owner, service, threshold, RolloverFee(threshold), queue, 0)

\* process_initialize_nullifier_queue: no fee, and no threshold is 0.
NullifierQueue(owner, threshold, tree) ==
    Queue("state", owner, IF threshold = None THEN 0 ELSE threshold, 0, tree)

\* process_initialize_address_merkle_tree: two leaves from the start, no fee.
AddressMerkleTree(owner, service, threshold, queue) ==
    Tree("address", owner, service, threshold, 0, queue, 2)

\* process_initialize_address_queue: every queued address pays for both.
AddressQueue(owner, threshold, tree) ==
    Queue("address", owner, threshold, RolloverFee(threshold), tree)

\* Tree t and queue q, both not initialized before, become a pair.
TreesWith(kind, t, q, owner, service, threshold) ==
    [trees EXCEPT ![t] = IF kind = "state" THEN StateMerkleTree(owner, service, threshold, q)
                                           ELSE AddressMerkleTree(owner, service, threshold, q)]
QueuesWith(kind, t, q, owner, threshold) ==
    [queues EXCEPT ![q] = IF kind = "state" THEN NullifierQueue(owner, threshold, t)
                                            ELSE AddressQueue(owner, threshold, t)]

Fresh(t, q) == trees[t] = None /\ queues[q] = None

-----------------------------------------------------------------------------
Init ==
    /\ group_authority = [g \in Group |-> None]
    /\ registered = [p \in Program |-> None]
    /\ trees = [t \in TreeAccount |-> None]
    /\ queues = [q \in QueueAccount |-> None]

\* The seed of the group signs, so each group is initialized once.
initialize_group_authority(g, w) ==
    /\ group_authority[g] = None
    /\ group_authority' = [group_authority EXCEPT ![g] = w]
    /\ UNCHANGED <<registered, trees, queues>>

update_group_authority(g, signer, w) ==
    /\ group_authority[g] = signer
    /\ group_authority' = [group_authority EXCEPT ![g] = w]
    /\ UNCHANGED <<registered, trees, queues>>

\* The registration is derived from the program alone: one group at a time.
register_program_to_group(g, signer, p) ==
    /\ group_authority[g] = signer
    /\ registered[p] = None
    /\ registered' = [registered EXCEPT ![p] = g]
    /\ UNCHANGED <<group_authority, trees, queues>>

deregister_program(g, signer, p) ==
    /\ group_authority[g] = signer
    /\ registered[p] = g
    /\ registered' = [registered EXCEPT ![p] = None]
    /\ UNCHANGED <<group_authority, trees, queues>>

\* Who signs for the new accounts: their owner is the caller or, if it shows
\* its registration, its group.
InitializeChecks(caller, owner, t, q, threshold) ==
    /\ MayAccess(caller, owner)
    /\ Fresh(t, q)
    /\ FeeSufficient(threshold)

initialize_state_merkle_tree_and_nullifier_queue(caller, owner, service, t, q, threshold) ==
    /\ InitializeChecks(caller, owner, t, q, threshold)
    /\ trees' = TreesWith("state", t, q, owner, service, threshold)
    /\ queues' = QueuesWith("state", t, q, owner, threshold)
    /\ UNCHANGED groupVars

initialize_address_merkle_tree_and_queue(caller, owner, service, t, q, threshold) ==
    /\ InitializeChecks(caller, owner, t, q, threshold)
    /\ trees' = TreesWith("address", t, q, owner, service, threshold)
    /\ queues' = QueuesWith("address", t, q, owner, threshold)
    /\ UNCHANGED groupVars

\* Mutant: a batch pays like a single leaf.
FeePerBatch(fee, n) == fee

\* The fee for n leaves or values.
BatchFee(fee, n) == fee * n

\* append_leaves_to_merkle_trees: one batch for each of several trees, or
\* nothing at all.
append_leaves_to_merkle_trees(caller, batch) ==
    /\ \A t \in DOMAIN batch :
        /\ trees[t] # None /\ trees[t].kind = "state"
        /\ MayAccess(caller, trees[t].owner)
        /\ trees[t].next_index + batch[t] <= Leaves
    /\ trees' = [t \in TreeAccount |->
                    IF t \notin DOMAIN batch THEN trees[t]
                    ELSE [trees[t] EXCEPT
                            !.next_index = @ + batch[t],
                            !.lamports = @ + BatchFee(trees[t].rollover_fee, batch[t])]]
    /\ UNCHANGED <<group_authority, registered, queues>>

\* insert_into_nullifier_queues and insert_addresses: n values for queue q,
\* whose tree must be t.
insert_into_queues(kind, caller, q, t, n) ==
    /\ queues[q] # None /\ queues[q].kind = kind
    /\ queues[q].associated_merkle_tree = t
    /\ MayAccess(caller, queues[q].owner)
    /\ queues[q].waiting + n <= MaxQueued
    /\ queues' = [queues EXCEPT ![q].waiting = @ + n,
                                ![q].lamports = @ + BatchFee(queues[q].rollover_fee, n)]
    /\ UNCHANGED <<group_authority, registered, trees>>

\* What both take out of a queue: a value that waits in the queue of the tree,
\* also when tree and queue have been rolled over.
ProcessChecks(kind, caller, t, q) ==
    /\ trees[t] # None /\ trees[t].kind = kind /\ trees[t].associated_queue = q
    /\ MayAccess(caller, trees[t].owner)
    /\ queues[q].waiting > 0

nullify_leaves(caller, t, q) ==
    /\ ProcessChecks("state", caller, t, q)
    /\ queues' = [queues EXCEPT ![q].waiting = @ - 1]
    /\ UNCHANGED <<group_authority, registered, trees>>

\* The address becomes a leaf.
update_address_merkle_tree(caller, t, q) ==
    /\ ProcessChecks("address", caller, t, q)
    /\ trees[t].next_index < Leaves
    /\ queues' = [queues EXCEPT ![q].waiting = @ - 1]
    /\ trees' = [trees EXCEPT ![t].next_index = @ + 1]
    /\ UNCHANGED groupVars

-----------------------------------------------------------------------------
\* Rollover.

\* RolloverMetadata::rollover: RolloverNotConfigured, MerkleTreeAlreadyRolledOver
MayRollover(account) == account.rollover_threshold # None /\ ~account.rolledover

\* NotReadyForRollover
Ready(tree) == tree.next_index >= (Leaves * tree.rollover_threshold) \div 100

\* Mutant: the successor is not recorded.
TreeForgetsSuccessor(tree, t2) == [tree EXCEPT !.rolledover = TRUE]

\* MerkleTreeMetadata::rollover and QueueMetadata::rollover
RolledTree(tree, t2) == [tree EXCEPT !.rolledover = TRUE, !.next_merkle_tree = t2]

RolledQueue(queue, q2) == [queue EXCEPT !.rolledover = TRUE, !.next_queue = q2]

\* What all rollovers check before money moves.
RolloverChecks(kind, caller, t, q, t2, q2) ==
    /\ trees[t] # None /\ trees[t].kind = kind /\ queues[q] # None
    /\ Fresh(t2, q2)
    /\ MayAccess(caller, trees[t].owner)
    /\ trees[t].associated_queue = q /\ MayRollover(trees[t])
    /\ queues[q].associated_merkle_tree = t /\ MayRollover(queues[q])
    /\ Ready(trees[t])
    /\ FeeSufficient(trees[t].rollover_threshold)

\* transfer_lamports; the runtime lets no account fall below its rent.
Reimburses(account, rent) == account.lamports - (TreeRent + QueueRent) >= rent
Reimbursed(account) == [account EXCEPT !.lamports = @ - (TreeRent + QueueRent)]

\* rollover_state_merkle_tree_and_nullifier_queue: the old tree pays.
rollover_state_merkle_tree(caller, t, q, t2, q2) ==
    /\ RolloverChecks("state", caller, t, q, t2, q2)
    /\ Reimburses(trees[t], TreeRent)
    /\ trees' = [TreesWith("state", t2, q2, trees[t].owner, trees[t].service,
                           trees[t].rollover_threshold)
                    EXCEPT ![t] = Reimbursed(RolledTree(trees[t], t2))]
    /\ queues' = [QueuesWith("state", t2, q2, queues[q].owner, queues[q].rollover_threshold)
                    EXCEPT ![q] = RolledQueue(queues[q], q2)]
    /\ UNCHANGED groupVars

\* rollover_address_merkle_tree_and_queue: the old queue pays.
rollover_address_merkle_tree(caller, t, q, t2, q2) ==
    /\ RolloverChecks("address", caller, t, q, t2, q2)
    /\ Reimburses(queues[q], QueueRent)
    /\ trees' = [TreesWith("address", t2, q2, trees[t].owner, trees[t].service,
                           trees[t].rollover_threshold)
                    EXCEPT ![t] = RolledTree(trees[t], t2)]
    /\ queues' = [QueuesWith("address", t2, q2, queues[q].owner, queues[q].rollover_threshold)
                    EXCEPT ![q] = Reimbursed(RolledQueue(queues[q], q2))]
    /\ UNCHANGED groupVars

-----------------------------------------------------------------------------
\* Instructions of a wallet on groups and on trees of its own.
WalletCall(w) ==
    \/ \E g \in Group :
        \/ \E a \in Caller : initialize_group_authority(g, a) \/ update_group_authority(g, w, a)
        \/ \E p \in Program : register_program_to_group(g, w, p) \/ deregister_program(g, w, p)
    \/ \E t \in TreeAccount, q \in QueueAccount : nullify_leaves(w, t, q)

Batches == UNION {[ts -> 1 .. MaxBatch] : ts \in SUBSET TreeAccount \ {{}}}

\* The instructions by which accounts are created and consumed.
AppendOrInsert(c) ==
    \/ \E batch \in Batches : append_leaves_to_merkle_trees(c, batch)
    \/ \E k \in Kind, t \in TreeAccount, q \in QueueAccount, n \in 1 .. MaxBatch :
        insert_into_queues(k, c, q, t, n)

-----------------------------------------------------------------------------
\* assert_rolledover_merkle_trees_metadata
AssertRolledOverTree(old, new, new_queue) ==
    /\ old.rolledover
    /\ \A f \in {"kind", "owner", "service", "rollover_threshold", "rollover_fee"} :
        new[f] = old[f]
    /\ new.associated_queue = new_queue

\* assert_rolledover_queues_metadata
AssertRolledOverQueue(old, new, new_tree) ==
    /\ old.rolledover
    /\ new.owner = old.owner /\ new.rollover_fee = old.rollover_fee
    /\ new.associated_merkle_tree = new_tree

\* What the helpers of the tests assert of a pair that replaces another one.
assert_rolled_over_pair(t, q, t2, q2) ==
    /\ trees[t].kind = "state" /\ trees[t2] # None /\ queues[q2] # None
    /\ AssertRolledOverTree(trees[t], trees[t2], q2)
    /\ AssertRolledOverQueue(queues[q], queues[q2], t2)
assert_rolled_over_address_merkle_tree_and_queue(t, q, t2, q2) ==
    /\ trees[t].kind = "address" /\ trees[t2] # None /\ queues[q2] # None
    /\ AssertRolledOverTree(trees[t], trees[t2], q2)
    /\ AssertRolledOverQueue(queues[q], queues[q2], t2)

\* Whichever rollovers succeed and in whatever order, tree and queue are rolled
\* over together, exactly once, and their successors are a pair again that
\* belongs to the same owner, with the same threshold and the same fees: what
\* the test helpers assert after one rollover is true of all pairs for ever.
SuccessorsPaired ==
    \A t \in TreeAccount : trees[t] # None =>
        LET q == trees[t].associated_queue
            t2 == trees[t].next_merkle_tree
            q2 == queues[q].next_queue
        IN  /\ queues[q].associated_merkle_tree = t
            /\ queues[q].rolledover = trees[t].rolledover
            /\ (t2 # None) = trees[t].rolledover
            /\ t2 # None =>
                /\ \/ assert_rolled_over_pair(t, q, t2, q2)
                   \/ assert_rolled_over_address_merkle_tree_and_queue(t, q, t2, q2)
                /\ \A s \in TreeAccount \ {t} :
                    trees[s] # None => trees[s].next_merkle_tree # t2

\* A tree that has been filled to its threshold has collected the rent of both
\* new accounts and can keep its own: the threshold rounds down when the
\* rollover is checked, the fee rounds up.  In an address pair the queue
\* collects, and the two leaves the tree starts with have not paid.
FeesCoverRollover ==
    \A t \in TreeAccount :
        LET tree   == trees[t]
            queue  == queues[tree.associated_queue]
            paying == IF tree.kind = "state" THEN tree ELSE queue
            rent   == IF tree.kind = "state" THEN TreeRent ELSE QueueRent
            paid   == IF tree.kind = "state" THEN tree.next_index
                      ELSE tree.next_index - 2 + queue.waiting
        IN  /\ tree # None
            /\ MayRollover(tree)
            /\ paid > 0
            /\ 100 * paid >= Leaves * tree.rollover_threshold
            => Reimburses(paying, rent)
=============================================================================
