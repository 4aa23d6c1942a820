------------------------ MODULE ConcurrentMerkleTree ------------------------
(***************************************************************************)
(* merkle-tree/concurrent: a Merkle tree that keeps no leaves, only the    *)
(* hashes needed to append, a cache of its upper nodes, and two ring       *)
(* buffers, the roots and the changelog.  A client proves a leaf against   *)
(* the tree it has seen; when its update arrives the tree may have         *)
(* changed, and the changelog entries written since are used to bring the  *)
(* proof up to date.                                                       *)
(*                                                                         *)
(* Hashing is ideal: a leaf is a value, an inner node the pair of its      *)
(* children, so two hashes are equal only when what they hash is equal.    *)
(* The variables leaves and requests are not in the program: leaves is the *)
(* tree that the hashes stand for, requests what clients have prepared.    *)
(***************************************************************************)
EXTENDS Integers, Sequences, SequencesExt, CyclicBoundedVec

CONSTANTS
    Height,
    CanopyDepth,
    ChangelogCapacity,
    RootsCapacity,
    LeafValue,  \* hashes of accounts
    Zero,       \* the zero leaf, and the "zero root" of a non-terminal leaf
    Client,     \* the senders of update instructions
    None,       \* a client without a request
    MaxSeq      \* bound: changes of the tree

\* check_size_constraints_new
ASSUME SizeConstraints ==
    /\ Height \in Nat \ {0}
    /\ CanopyDepth \in 0 .. Height
    /\ ChangelogCapacity \in Nat \ {0}
    /\ RootsCapacity \in Nat \ {0}

VARIABLES
    tree,       \* the struct ConcurrentMerkleTree
    leaves,     \* the leaves the tree stands for
    requests    \* per client, the update it is about to send

vars == <<tree, leaves, requests>>

Level == 0 .. Height - 1
CanopyLevel == Height - CanopyDepth .. Height - 1
Leaf == LeafValue \cup {Zero}

\* 1 << n
Pow2[n \in 0 .. Height + 1] == IF n = 0 THEN 1 ELSE 2 * Pow2[n - 1]

LeafIndex == 0 .. Pow2[Height] - 1

\* The index, at a level, of the node above leaf i: i >> level.
Above(i, level) ==
    LET shifted[l \in 0 .. Height] == IF l = 0 THEN i ELSE shifted[l - 1] \div 2
    IN  shifted[level]

\* Whether that node is a left child.
IsLeft(i, level) == Above(i, level) % 2 = 0

\* H::zero_bytes()
ZeroBytes[i \in 0 .. Height] == IF i = 0 THEN Zero ELSE <<ZeroBytes[i - 1], ZeroBytes[i - 1]>>

\* hash.rs: compute_parent_node
compute_parent_node(node, sibling, leaf_index, level) ==
    IF IsLeft(leaf_index, level) THEN <<node, sibling>> ELSE <<sibling, node>>

\* The nodes from a leaf (level 0) to the root (level Height).
PathOf(leaf, leaf_index, proof) ==
    LET node[i \in 0 .. Height] ==
            IF i = 0 THEN leaf
            ELSE compute_parent_node(node[i - 1], proof[i - 1], leaf_index, i - 1)
    IN  node

\* hash.rs: compute_root
compute_root(leaf, leaf_index, proof) == PathOf(leaf, leaf_index, proof)[Height]

-----------------------------------------------------------------------------
\* Position in the canopy of the node above leaf i; its sibling is next to it.
CanopyIndex(i, level) == Pow2[Height - level] + Above(i, level) - 2
CanopySibling(i, level) ==
    CanopyIndex(i, level) + (IF IsLeft(i, level) THEN 1 ELSE -1)

\* update_canopy, one changelog entry: the nodes it defines replace the
\* cached ones.
CanopyAfter(canopy, entry) ==
    [n \in DOMAIN canopy |->
        LET hit == {l \in CanopyLevel : CanopyIndex(entry.index, l) = n /\ l \in DOMAIN entry.path}
        IN  IF hit = {} THEN canopy[n] ELSE entry.path[CHOOSE l \in hit : TRUE]]

\* Mutant: only the newest entry of a batch reaches the canopy.
UpdateCanopyLastOnly(t, first_changelog_index) ==
    [t EXCEPT !.canopy = CanopyAfter(t.canopy, LastOf(t.changelog))]

\* update_canopy, all entries from first_changelog_index to the newest
update_canopy(t, first_changelog_index) ==
    LET entries == IterFrom(t.changelog, ChangelogCapacity, first_changelog_index)
        canopy[k \in 0 .. Len(entries)] ==
            IF k = 0 THEN t.canopy ELSE CanopyAfter(canopy[k - 1], entries[k])
    IN  [t EXCEPT !.canopy = canopy[Len(entries)]]

\* A ChangelogEntry has the index of a leaf and its path, the nodes above it
\* by level.  Option::None in the path is a level outside its domain.

\* ChangelogEntry::intersection_index: the level at which the paths of two
\* leaves meet, the highest bit in which the indices differ.
intersection_index(entry, leaf_index) ==
    CHOOSE l \in Level :
        /\ Above(entry.index, l) # Above(leaf_index, l)
        /\ Above(entry.index, l + 1) = Above(leaf_index, l + 1)

\* ChangelogEntry::update_proof, for an entry of another leaf
update_proof(proof, entry, leaf_index) ==
    LET l == intersection_index(entry, leaf_index)
    IN  IF l \notin DOMAIN entry.path THEN proof ELSE [proof EXCEPT ![l] = entry.path[l]]

\* Mutant: changelog_entries that include the one the client has already seen.
EntriesNoSkip(t, changelog_index) ==
    IterFrom(t.changelog, ChangelogCapacity, changelog_index)

\* changelog_entries: the entries newer than the one the client has seen
changelog_entries(t, changelog_index) ==
    Tail(IterFrom(t.changelog, ChangelogCapacity, changelog_index))

-----------------------------------------------------------------------------
\* The siblings of the next leaf: zero nodes on the right, filled subtrees on
\* the left; append_with_proof returns them.
AppendProof(t) ==
    [i \in Level |-> IF IsLeft(t.next_index, i) THEN ZeroBytes[i] ELSE t.filled_subtrees[i]]

\* The parents of a leaf are computed up to the root, those of a non-terminal
\* one only up to the first level at which its node is a left child.
LastLevel(index, terminal) ==
    IF terminal THEN Height
    ELSE CHOOSE l \in Level : IsLeft(index, l) /\ \A k \in 0 .. l - 1 : ~IsLeft(index, k)

\* append_batch_common, one leaf.  The rest of its path stays undefined.
AppendLeaf(t, leaf, terminal) ==
    LET index == t.next_index
        last  == LastLevel(index, terminal)
        node  == PathOf(leaf, index, AppendProof(t))
        entry == [path |-> [l \in {k \in Level : k <= last} |-> node[l]], index |-> index]
    IN  [next_index      |-> index + 1,
         sequence_number |-> t.sequence_number + 1,
         rightmost_leaf  |-> leaf,
         filled_subtrees |-> [l \in Level |->
                                IF IsLeft(index, l) /\ l <= last THEN node[l]
                                ELSE t.filled_subtrees[l]],
         changelog       |-> Push(t.changelog, ChangelogCapacity, entry),
         roots           |-> Push(t.roots, RootsCapacity, IF terminal THEN node[Height] ELSE Zero),
         canopy          |-> t.canopy]

\* append_batch_common, the loop over the leaves
AppendAll(t, batch) ==
    LET after[k \in 0 .. Len(batch)] ==
            IF k = 0 THEN t ELSE AppendLeaf(after[k - 1], batch[k], k = Len(batch))
    IN  after[Len(batch)]

\* EmptyLeaves, TreeFull, BatchGreaterThanChangelog
BatchFits(t, batch) ==
    /\ batch # <<>>
    /\ t.next_index + Len(batch) - 1 < Pow2[Height]
    /\ Len(batch) <= ChangelogCapacity

\* append_batch_common
append_batch(t, batch) ==
    LET first_changelog_index == (t.changelog.last_index + 1) % ChangelogCapacity
    IN  update_canopy(AppendAll(t, batch), first_changelog_index)

-----------------------------------------------------------------------------
\* update: the proof of the client, completed by the canopy
\* (update_proof_from_canopy) and patched by the changelog
\* (update_proof_from_changelog), unless the client has seen the newest entry.
FreshProof(t, request) ==
    LET full == [l \in Level |->
            IF l \in CanopyLevel THEN t.canopy[CanopySibling(request.leaf_index, l)]
            ELSE request.proof[l]]
        entries == changelog_entries(t, request.changelog_index)
        patched[k \in 0 .. Len(entries)] ==
            IF k = 0 THEN full ELSE update_proof(patched[k - 1], entries[k], request.leaf_index)
    IN  IF request.changelog_index = t.changelog.last_index THEN full
        ELSE patched[Len(entries)]

\* CannotUpdateEmpty, and CannotUpdateLeaf: a newer entry changed the leaf.
MayUpdate(t, request) ==
    /\ request.leaf_index < t.next_index
    /\ \/ request.changelog_index = t.changelog.last_index
       \/ /\ InBounds(t.changelog, request.changelog_index)
          /\ \A e \in Range(changelog_entries(t, request.changelog_index)) :
                e.index # request.leaf_index

\* Mutant: update without validate_proof.
AcceptsUnvalidated(t, request) == MayUpdate(t, request)

\* update succeeds: validate_proof against the newest root
Accepts(t, request) ==
    /\ MayUpdate(t, request)
    /\ compute_root(request.old_leaf, request.leaf_index, FreshProof(t, request)) = LastOf(t.roots)

\* update_leaf_in_tree: the hash of a subtree left of the next leaf changes
\* with a leaf in it; a full tree has no next leaf.
SubtreesAfter(t, entry) ==
    IF t.next_index < Pow2[Height] THEN update_proof(t.filled_subtrees, entry, t.next_index)
    ELSE t.filled_subtrees

\* current_index
current_index(t) == IF t.next_index > 0 THEN t.next_index - 1 ELSE t.next_index

\* update_leaf_in_tree
update_leaf_in_tree(t, new_leaf, leaf_index, proof) ==
    LET node  == PathOf(new_leaf, leaf_index, proof)
        entry == [path |-> [l \in Level |-> node[l]], index |-> leaf_index]
        last  == t.next_index < Pow2[Height] /\ leaf_index >= current_index(t)
        after == [next_index      |-> t.next_index,
                  sequence_number |-> t.sequence_number + 1,
                  rightmost_leaf  |-> IF last THEN new_leaf ELSE t.rightmost_leaf,
                  filled_subtrees |-> SubtreesAfter(t, entry),
                  changelog       |-> Push(t.changelog, ChangelogCapacity, entry),
                  roots           |-> Push(t.roots, RootsCapacity, node[Height]),
                  canopy          |-> t.canopy]
    IN  update_canopy(after, after.changelog.last_index)

-----------------------------------------------------------------------------
\* The nodes of the tree with these leaves.
NodesOf(lvs) ==
    LET n[level \in 0 .. Height] ==
            IF level = 0 THEN lvs
            ELSE [i \in 0 .. Pow2[Height - level] - 1 |->
                    <<n[level - 1][2 * i], n[level - 1][2 * i + 1]>>]
    IN  n

SiblingIndex(i, level) == Above(i, level) + (IF IsLeft(i, level) THEN 1 ELSE -1)

\* new and init
NewTree ==
    [next_index      |-> 0,
     sequence_number |-> 0,
     rightmost_leaf  |-> Zero,
     filled_subtrees |-> [i \in Level |-> ZeroBytes[i]],
     changelog       |-> Push(EmptyVec, ChangelogCapacity,
                            [path |-> [i \in Level |-> ZeroBytes[i]], index |-> 0]),
     roots           |-> Push(EmptyVec, RootsCapacity, ZeroBytes[Height]),
     canopy          |-> [n \in 0 .. Pow2[CanopyDepth + 1] - 3 |->
                            ZeroBytes[CHOOSE l \in CanopyLevel :
                                \E i \in LeafIndex : CanopyIndex(i, l) = n]]]

Init ==
    /\ tree = NewTree
    /\ leaves = [i \in LeafIndex |-> Zero]
    /\ requests = [c \in Client |-> None]

\* append, append_batch
AppendBatch(batch) ==
    /\ BatchFits(tree, batch)
    /\ tree.sequence_number + Len(batch) <= MaxSeq
    /\ tree' = append_batch(tree, batch)
    /\ leaves' = [i \in LeafIndex |->
            IF i \in tree.next_index .. tree.next_index + Len(batch) - 1
            THEN batch[i - tree.next_index + 1] ELSE leaves[i]]
    /\ UNCHANGED requests

\* A client reads a leaf, its proof below the canopy and the changelog index.
\* The sequence number and whether the leaf has changed since are history.
FetchProof(c, leaf_index) ==
    /\ requests[c] = None
    /\ leaf_index < tree.next_index
    /\ requests' = [requests EXCEPT ![c] =
            [leaf_index      |-> leaf_index,
             old_leaf        |-> leaves[leaf_index],
             proof           |-> [l \in Level \ CanopyLevel |->
                                    NodesOf(leaves)[l][SiblingIndex(leaf_index, l)]],
             changelog_index |-> tree.changelog.last_index,
             sequence_number |-> tree.sequence_number,
             touched         |-> FALSE]]
    /\ UNCHANGED <<tree, leaves>>

\* update, sent by client c
Update(c, new_leaf) ==
    /\ requests[c] # None
    /\ tree.sequence_number < MaxSeq
    /\ Accepts(tree, requests[c])
    /\ LET i == requests[c].leaf_index
       IN  /\ tree' = update_leaf_in_tree(tree, new_leaf, i, FreshProof(tree, requests[c]))
           /\ leaves' = [leaves EXCEPT ![i] = new_leaf]
           /\ requests' = [d \in Client |->
                IF d = c \/ requests[d] = None THEN None
                ELSE [requests[d] EXCEPT !.touched = @ \/ requests[d].leaf_index = i]]

\* update fails; the client starts again with a new proof.
UpdateFails(c) ==
    /\ requests[c] # None
    /\ ~Accepts(tree, requests[c])
    /\ requests' = [requests EXCEPT ![c] = None]
    /\ UNCHANGED <<tree, leaves>>

Next ==
    \/ \E n \in 1 .. ChangelogCapacity : \E batch \in [1 .. n -> LeafValue] : AppendBatch(batch)
    \/ \E c \in Client, i \in LeafIndex : FetchProof(c, i)
    \/ \E c \in Client, new_leaf \in Leaf : Update(c, new_leaf)
    \/ \E c \in Client : UpdateFails(c)

Spec == Init /\ [][Next]_vars

-----------------------------------------------------------------------------
\* The newest root is the root of the tree with all the leaves appended and
\* all the updates applied, although appends hash only the filled subtrees
\* and updates only a patched proof; and the cached upper nodes are nodes of
\* that same tree, after batches too, whose non-terminal leaves leave most of
\* their path undefined.
NodesMatchLeaves ==
    /\ LastOf(tree.roots) = NodesOf(leaves)[Height][0]
    /\ \A i \in LeafIndex, l \in CanopyLevel :
        tree.canopy[CanopyIndex(i, l)] = NodesOf(leaves)[l][Above(i, l)]

\* A request survives the changes of other leaves: as long as its changelog
\* entry has not been overwritten and its leaf has not been changed, the
\* patched proof is accepted.
StaleRequestsAccepted ==
    \A c \in Client :
        /\ requests[c] # None
        /\ ~requests[c].touched
        /\ tree.sequence_number - requests[c].sequence_number < ChangelogCapacity
        => Accepts(tree, requests[c])

\* An accepted update replaces the leaf the client meant to replace, however
\* old its proof, and also when the changelog has wrapped past its entry.
UpdateSound ==
    [][\A c \in Client, new_leaf \in Leaf :
        Update(c, new_leaf) => leaves[requests[c].leaf_index] = requests[c].old_leaf]_vars
=============================================================================
