--------------------------- MODULE SystemProgram ---------------------------
(***************************************************************************)
(* programs/system, the invoke path: one instruction consumes compressed   *)
(* accounts and creates others, may create addresses, and may move         *)
(* lamports between the fee payer and the pool of compressed SOL.          *)
(*                                                                         *)
(* A leaf is the hash of an account with the tree and the leaf index it is *)
(* meant for; hashing is ideal, so the leaf is the record of what is       *)
(* hashed.  The trees are the sequences of the leaves appended to them,    *)
(* the nullifier queues the set of leaves consumed (StateTree shows that a *)
(* leaf is consumed once), the address trees and queues the set of         *)
(* addresses created.  Fees are left out.  An instruction that returns an  *)
(* error changes nothing.                                                  *)
(***************************************************************************)
EXTENDS Integers, Sequences, SequencesExt, FiniteSetsExt, Functions

CONSTANTS
    User,           \* signers that are not programs
    Program,        \* programs that invoke the system program
    Tree,           \* state Merkle trees
    TreeOwner,      \* program_owner of a tree, or None
    TreeCapacity,   \* leaves of a tree
    Address,        \* addresses that may be derived
    AddressOwner,   \* program_owner of the tree an address is derived from, or None
    Lamports,       \* amounts an instruction may name
    MaxU64,         \* the largest u64
    Supply,         \* lamports in existence outside and inside the pool
    Remaining,      \* remaining_accounts of an instruction, sequences of trees
    None,           \* Option::None
    MaxAccounts,    \* bound: inputs and outputs of an instruction
    MaxNewAddresses \* bound: addresses that an instruction creates

ASSUME SystemProgramAssumption ==
    /\ Lamports \subseteq Nat
    /\ TreeOwner \in [Tree -> Program \cup {None}]
    /\ AddressOwner \in [Address -> Program \cup {None}]
    /\ None \notin Address \cup Program
    /\ Remaining \subseteq Seq(Tree)

VARIABLES
    trees,          \* leaves appended to every tree
    nullified,      \* leaves consumed
    addresses,      \* addresses created
    sol_pool,       \* lamports in the SOL pool account that passed through the program
    returned,       \* history: lamports that were decompressed to the pool itself
    listed          \* history: compressed_account_addresses of the last instruction

stateVars == <<trees, nullified, addresses, sol_pool, returned>>
systemVars == <<stateVars, listed>>

\* CompressedAccount; of the data only whether there is any
CompressedAccount ==
    [owner : User \cup Program, lamports : Lamports, address : Address \cup {None}, data : BOOLEAN]

\* Every leaf of every tree.
Leaves == UNION {Range(trees[t]) : t \in Tree}

\* The sequences over S of at most n elements.
AtMost(S, n) == UNION {[1 .. k -> S] : k \in 0 .. n}

\* The tree an account names by its index, counted from 0, in remaining_accounts.
TreeAt(remaining, k) == remaining[k + 1]

\* The lamports of a sequence of accounts.
Total(accounts) ==
    LET sum[i \in 0 .. Len(accounts)] == IF i = 0 THEN 0 ELSE sum[i - 1] + accounts[i].lamports
    IN  sum[Len(accounts)]

-----------------------------------------------------------------------------
\* The lamports that enter or leave the pool.
Compressed(transfer) ==
    IF transfer = None THEN 0
    ELSE IF transfer.is_compress THEN transfer.lamports ELSE -transfer.lamports

\* Mutant: the outputs may be worth one lamport more.
SumCheckOneMore(inputs, outputs, transfer) ==
    LET sum == Total(inputs) + Compressed(transfer)
    IN  sum >= 0 /\ Total(outputs) \in {sum, sum + 1}

\* sum_check: no partial sum leaves the u64 range, and the sums agree.
sum_check(inputs, outputs, transfer) ==
    LET sum == Total(inputs) + Compressed(transfer)
    IN  /\ Total(inputs) <= MaxU64
        /\ sum \in 0 .. MaxU64
        /\ sum = Total(outputs)

\* decompress_lamports pays any account that the instruction names as the
\* recipient, the pool itself included; then the pool keeps the lamports.
Returned(transfer) ==
    IF transfer # None /\ transfer.decompression_recipient = "sol_pool"
    THEN transfer.lamports ELSE 0

\* compress_or_decompress_lamports: the transfer needs the lamports.
Affordable(transfer) == sol_pool + Compressed(transfer) \in 0 .. Supply
PoolAfterTransfer(transfer) == sol_pool + Compressed(transfer) + Returned(transfer)
compress_or_decompress_lamports(transfer) ==
    /\ sol_pool' = PoolAfterTransfer(transfer)
    /\ returned' = returned + Returned(transfer)

\* check_program_owner_state_merkle_tree
check_program_owner_state_merkle_tree(t, invoking_program) ==
    TreeOwner[t] \in {None, invoking_program}

\* hash_input_compressed_accounts, fetch_input_compressed_account_roots and
\* verify_state_proof: the leaf hashed for the tree that the instruction names
\* is in that tree and has not been consumed.
InputsProvable(inputs, remaining, invoking_program) ==
    /\ IsInjective([i \in DOMAIN inputs |-> inputs[i].leaf])
    /\ \A i \in DOMAIN inputs :
        LET t == TreeAt(remaining, inputs[i].merkle_tree_index)
        IN  /\ inputs[i].leaf.tree = t
            /\ inputs[i].leaf \in Range(trees[t]) \ nullified
            /\ check_program_owner_state_merkle_tree(t, invoking_program)

Nullified(inputs) == nullified \cup {inputs[i].leaf : i \in DOMAIN inputs}
insert_nullifiers(inputs) == nullified' = Nullified(inputs)

check_program_owner_address_merkle_tree(address, invoking_program) ==
    AddressOwner[address] \in {None, invoking_program}

\* derive_new_addresses and insert_addresses_into_address_merkle_tree_queue
AddressesNew(new_addresses, invoking_program) ==
    /\ IsInjective(new_addresses)
    /\ \A i \in DOMAIN new_addresses :
        /\ new_addresses[i] \notin addresses
        /\ check_program_owner_address_merkle_tree(new_addresses[i], invoking_program)
Inserted(new_addresses) == addresses \cup Range(new_addresses)
insert_addresses(new_addresses) == addresses' = Inserted(new_addresses)

-----------------------------------------------------------------------------
\* Mutant: the address stays available for the next output.
KeepAddress(pool, address) == pool

\* An output takes its address out of compressed_account_addresses.  The code
\* looks for its position among the entries that are Some and removes the
\* entry at that position of the whole vector.
TakeAddress(pool, address) ==
    LET found == CHOOSE k \in DOMAIN pool :
                    pool[k] = address /\ \A i \in 1 .. k - 1 : pool[i] # address
        position == Cardinality({i \in 1 .. found : pool[i] # None})
    IN  RemoveAt(pool, position)

\* compressed_account_addresses when the first j outputs have been handled.
PoolAfter(pool, outputs) ==
    LET after[j \in 0 .. Len(outputs)] ==
            IF j = 0 THEN pool
            ELSE IF outputs[j].address \in Range(after[j - 1]) \ {None}
                 THEN TakeAddress(after[j - 1], outputs[j].address)
                 ELSE after[j - 1]
    IN  after

\* Every output with an address finds it: InvalidAddress is not returned.
AddressesFound(pool, outputs) ==
    \A j \in DOMAIN outputs :
        outputs[j].address # None => outputs[j].address \in Range(PoolAfter(pool, outputs)[j - 1])

\* The addresses of the inputs, None for an account without one, then the new ones.
compressed_account_addresses(inputs, new_addresses) ==
    [i \in DOMAIN inputs |-> inputs[i].leaf.address] \o new_addresses

\* Mutant: one tree may be named by two indices.
TreesOrderedOnly(outputs, remaining) ==
    \A i, j \in DOMAIN outputs :
        i < j => outputs[i].merkle_tree_index <= outputs[j].merkle_tree_index

\* OutputMerkleTreeIndicesNotInOrder and OutputMerkleTreeNotUnique
TreesOrdered(outputs, remaining) ==
    \A i, j \in DOMAIN outputs :
        LET k == outputs[i].merkle_tree_index
            l == outputs[j].merkle_tree_index
        IN  /\ i < j => k <= l
            /\ k # l => TreeAt(remaining, k) # TreeAt(remaining, l)

\* The leaf index an output is hashed with: the tree's next index, plus the
\* outputs of this instruction that go to the same tree and come before.
LeafIndex(outputs, j, remaining) ==
    Len(trees[TreeAt(remaining, outputs[j].merkle_tree_index)])
        + Cardinality({i \in 1 .. j - 1 :
                        outputs[i].merkle_tree_index = outputs[j].merkle_tree_index})

\* CompressedAccount::hash
Hash(account, tree, leaf_index) ==
    [tree |-> tree, leaf_index |-> leaf_index, owner |-> account.owner,
     lamports |-> account.lamports, address |-> account.address, data |-> account.data]

\* create_cpi_accounts_and_instruction_data: the hash of output j
HashOf(outputs, j, remaining) ==
    Hash(outputs[j], TreeAt(remaining, outputs[j].merkle_tree_index),
         LeafIndex(outputs, j, remaining))

Hashes(outputs, remaining) == [j \in DOMAIN outputs |-> HashOf(outputs, j, remaining)]

\* The hashes for tree t, in the order of the outputs
Batch(hashes, t) ==
    LET batch[j \in 0 .. Len(hashes)] ==
            IF j = 0 THEN <<>>
            ELSE IF hashes[j].tree = t THEN Append(batch[j - 1], hashes[j]) ELSE batch[j - 1]
    IN  batch[Len(hashes)]

\* The leaves fit into their trees.
HasRoom(outputs, remaining) ==
    \A t \in Tree : Len(trees[t]) + Len(Batch(Hashes(outputs, remaining), t)) <= TreeCapacity

\* insert_output_compressed_accounts_into_state_merkle_tree, and the
\* account-compression program's batch_append_leaves: a batch for every tree.
Appendable(outputs, remaining, invoking_program) ==
    /\ TreesOrdered(outputs, remaining)
    /\ \A j \in DOMAIN outputs :
        /\ check_program_owner_state_merkle_tree(
                TreeAt(remaining, outputs[j].merkle_tree_index), invoking_program)
        /\ outputs[j].data => invoking_program # None
    /\ HasRoom(outputs, remaining)

Appended(outputs, remaining) ==
    LET hashes == Hashes(outputs, remaining)
    IN  [t \in Tree |-> trees[t] \o Batch(hashes, t)]
append_outputs(outputs, remaining) == trees' = Appended(outputs, remaining)

\* The accounts name their trees by indices that exist; the program panics
\* otherwise.
IndicesExist(ix) ==
    /\ \A i \in DOMAIN ix.inputs : ix.inputs[i].merkle_tree_index + 1 \in DOMAIN ix.remaining
    /\ \A j \in DOMAIN ix.outputs : ix.outputs[j].merkle_tree_index + 1 \in DOMAIN ix.remaining

\* The checks of process
Valid(ix, invoking_program) ==
    /\ IndicesExist(ix)
    /\ ~(ix.inputs = <<>> /\ ix.outputs = <<>> /\ ix.new_addresses = <<>>)
    /\ sum_check([i \in DOMAIN ix.inputs |-> ix.inputs[i].leaf], ix.outputs, ix.transfer)
    /\ InputsProvable(ix.inputs, ix.remaining, invoking_program)
    /\ AddressesFound(compressed_account_addresses(ix.inputs, ix.new_addresses), ix.outputs)
    /\ AddressesNew(ix.new_addresses, invoking_program)
    /\ Appendable(ix.outputs, ix.remaining, invoking_program)
    /\ Affordable(ix.transfer)

\* What process does once all checks have passed
Commit(ix) ==
    /\ insert_nullifiers(ix.inputs)
    /\ insert_addresses(ix.new_addresses)
    /\ append_outputs(ix.outputs, ix.remaining)
    /\ compress_or_decompress_lamports(ix.transfer)
    /\ listed' = compressed_account_addresses(ix.inputs, ix.new_addresses)

\* process
process(ix, invoking_program) == Valid(ix, invoking_program) /\ Commit(ix)

\* input_compressed_accounts_signer_check of invoke: only programs consume
\* accounts with data.
input_compressed_accounts_signer_check(inputs, authority) ==
    \A i \in DOMAIN inputs : inputs[i].leaf.owner = authority /\ ~inputs[i].leaf.data

\* invoke
invoke(ix, authority) ==
    /\ input_compressed_accounts_signer_check(ix.inputs, authority)
    /\ process(ix, None)

-----------------------------------------------------------------------------
\* The index by which an instruction names a tree, counted from 0.
TreeIndex(remaining, tree) == (CHOOSE k \in DOMAIN remaining : remaining[k] = tree) - 1

\* InstructionDataInvoke.  The accounts of an instruction that moves lamports
\* are the pool and, to decompress, a recipient; of any other, neither.
Input(remaining) ==
    {[merkle_tree_index |-> TreeIndex(remaining, l.tree), leaf |-> l]
        : l \in {m \in Leaves : m.tree \in Range(remaining)}}
Output(remaining) ==
    {[merkle_tree_index |-> k - 1, owner |-> a.owner, lamports |-> a.lamports,
      address |-> a.address, data |-> a.data] : k \in DOMAIN remaining, a \in CompressedAccount}
Compress(lamports) ==
    [is_compress |-> TRUE, lamports |-> lamports, decompression_recipient |-> None]
Decompress(lamports, recipient) ==
    [is_compress |-> FALSE, lamports |-> lamports, decompression_recipient |-> recipient]
DecompressionRecipient == {"sol_pool", "other"}
Transfer ==
    {None} \cup {Compress(n) : n \in Lamports \ {0}}
           \cup {Decompress(n, to) : n \in Lamports \ {0}, to \in DecompressionRecipient}

Init ==
    /\ trees = [t \in Tree |-> <<>>]
    /\ nullified = {}
    /\ addresses = {}
    /\ sol_pool = 0
    /\ returned = 0
    /\ listed = <<>>

InvokeInstruction(inputs, outputs, new_addresses, transfer, remaining) ==
    [inputs |-> inputs, outputs |-> outputs, new_addresses |-> new_addresses,
     transfer |-> transfer, remaining |-> remaining]

\* Inputs and addresses that are refused are not tried with every output, and
\* outputs with data, which only programs create, are not tried at all.
InvokeWith(Act(_, _)) ==
    \E remaining \in Remaining, authority \in User :
    \E inputs \in AtMost(Input(remaining), MaxAccounts) :
        /\ InputsProvable(inputs, remaining, None)
        /\ \E new_addresses \in AtMost(Address \ addresses, MaxNewAddresses) :
           \E outputs \in AtMost({o \in Output(remaining) : ~o.data}, MaxAccounts),
              transfer \in Transfer :
                Act(InvokeInstruction(inputs, outputs, new_addresses, transfer, remaining),
                    authority)

Invoke == InvokeWith(invoke)

Spec == Init /\ [][Invoke]_systemVars

-----------------------------------------------------------------------------
\* The accounts that exist.
Live == Leaves \ nullified

\* Every leaf sits at the index it was hashed with, in the tree it was hashed
\* for: only then can its owner ever prove it.
HashedWhereAppended ==
    \A t \in Tree : \A i \in DOMAIN trees[t] :
        trees[t][i].tree = t /\ trees[t][i].leaf_index = i - 1

\* The pool holds what all existing accounts together are worth, and what was
\* decompressed to the pool itself: every account can be decompressed, and no
\* other lamport is left behind.
PoolBacksAccounts == sol_pool = SumFunctionOnSet([l \in Live |-> l.lamports], Live) + returned

\* No two existing accounts have the same address.  types.ts describes it so:
\* an optional unique account ID that is persistent across transactions.
AddressUnique ==
    \A l, m \in Live : l.address = m.address /\ l.address # None => l = m

\* No account without an address comes before an address in s.
NoneLast(s) == \A i, j \in DOMAIN s : i < j /\ s[i] = None => s[j] = None

\* An account takes its address from one that the same instruction consumes, or
\* the instruction creates the address; and none of the addresses gets a second
\* account from an instruction that lists no account without an address before
\* an address.
AddressMoves ==
    [][/\ \A l \in Leaves' \ Leaves :
            \/ l.address \in {None} \cup (addresses' \ addresses)
            \/ \E m \in nullified' \ nullified : l.address = m.address
       /\ AddressUnique /\ NoneLast(listed') => AddressUnique']_systemVars
=============================================================================
