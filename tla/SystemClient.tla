---------------------------- MODULE SystemClient ----------------------------
(***************************************************************************)
(* The clients of the system program and the indexers they depend on:      *)
(* js/stateless.js (programs/system.ts, actions, the test-rpc that parses  *)
(* events), the Rust sdk of the program, and test-utils (TestIndexer,      *)
(* system_program.rs, the SOL actions of e2e_test_env.rs).                 *)
(*                                                                         *)
(* The program keeps hashes only.  A client learns what accounts exist     *)
(* from the events: an event lists the consumed hashes, the created        *)
(* accounts, their leaf indices and the remaining accounts that the tree   *)
(* indices refer to.  From these it picks inputs, computes outputs and     *)
(* packs both into an instruction, which the program checks against the    *)
(* hashes.  An account with its Merkle context has the form of a leaf.     *)
(***************************************************************************)
EXTENDS SystemProgram, RemainingAccounts

CONSTANTS
    Recipient,      \* keys that clients send lamports to
    RpcPayer,       \* payer of the Rust test helpers
    PubkeyOrder,    \* the state trees, as their keys are sorted
    DefaultTree,    \* defaultTestStateTreeAccounts().merkleTree
    AddressTree,    \* the address tree
    AddressQueue,   \* and its queue
    Seed,           \* seeds that addresses are derived from
    Amount,         \* lamports that a client call may name
    ProofSizes,     \* numbers of inputs the prover has circuits for
    MaxLeaves       \* bound: leaves in all trees

VARIABLES
    indexer,        \* TestIndexer: compressed accounts, local state trees
    log             \* what the events of all transactions list

vars == <<systemVars, indexer, log>>

\* nullifier_queue of a tree's accounts
QueueOf(t) == <<"nullifier_queue", t>>

\* derive_address and deriveAddress: a hash of the tree and the seed
derive_address(tree, seed) == <<tree, seed>>

-----------------------------------------------------------------------------
\* Events

\* emit_state_transition_event
emit_state_transition_event(ix) ==
    [input_compressed_account_hashes |-> [i \in DOMAIN ix.inputs |-> ix.inputs[i].leaf],
     output_compressed_account_hashes |-> Hashes(ix.outputs, ix.remaining),
     output_compressed_accounts |-> ix.outputs,
     output_leaf_indices |-> [j \in DOMAIN ix.outputs |-> LeafIndex(ix.outputs, j, ix.remaining)],
     pubkey_array |-> ix.remaining]

\* An output of an event with its Merkle context
CreatedAccount(event, j) ==
    Hash(event.output_compressed_accounts[j],
         event.pubkey_array[event.output_compressed_accounts[j].merkle_tree_index + 1],
         event.output_leaf_indices[j])

\* TestIndexer::add_event_and_compressed_accounts: the consumed accounts go,
\* the created ones are hashed again and appended to the local trees.
Created(event) == [j \in DOMAIN event.output_compressed_accounts |-> CreatedAccount(event, j)]
IndexerAfter(event) ==
    [compressed_accounts |->
        (indexer.compressed_accounts \ Range(event.input_compressed_account_hashes))
            \cup Range(Created(event)),
     state_merkle_trees |->
        [t \in Tree |-> indexer.state_merkle_trees[t] \o Batch(Created(event), t)]]
add_event_and_compressed_accounts(event) == indexer' = IndexerAfter(event)

\* getParsedEvents and parseEvents: the event is the last inner instruction.
ParsedEvents(event) ==
    log' = [outputs |-> log.outputs \cup
                {[hash |-> event.output_compressed_account_hashes[j],
                  leafIndex |-> event.output_leaf_indices[j],
                  account |-> event.output_compressed_accounts[j]]
                    : j \in DOMAIN event.output_compressed_accounts},
            inputs |-> log.inputs \cup Range(event.input_compressed_account_hashes)]

\* The transaction succeeds and its event is read.
Submit(ix, authority) ==
    /\ invoke(ix, authority)
    /\ add_event_and_compressed_accounts(emit_state_transition_event(ix))
    /\ ParsedEvents(emit_state_transition_event(ix))

-----------------------------------------------------------------------------
\* Requests: an instruction, its signer, and the hashes its proof is for.

\* Inputs and outputs with the indices of their accounts.  There is an output
\* for every tree named.
Pack(ins, outs, outTrees, remaining) ==
    [inputs |-> [i \in DOMAIN ins |->
        [merkle_tree_index |-> IndexOf(remaining, ins[i].tree) - 1,
         nullifier_queue_index |-> IndexOf(remaining, QueueOf(ins[i].tree)) - 1,
         leaf |-> ins[i]]],
     outputs |-> [j \in DOMAIN outTrees |->
        [merkle_tree_index |-> IndexOf(remaining, outTrees[j]) - 1, owner |-> outs[j].owner,
         lamports |-> outs[j].lamports, address |-> outs[j].address, data |-> outs[j].data]]]

\* packNewAddressParams and pack_new_address_params, one address tree
PackAddresses(seeds, remaining) ==
    [i \in DOMAIN seeds |->
        [seed |-> seeds[i],
         address_merkle_tree_index |-> IndexOf(remaining, AddressTree) - 1,
         address_queue_index |-> IndexOf(remaining, AddressQueue) - 1]]
AddressKeys(seeds) ==
    [i \in DOMAIN seeds |-> AddressTree] \o [i \in DOMAIN seeds |-> AddressQueue]

\* The instruction; the program derives the new addresses from its data.
Instruction(packed, params, transfer, remaining) ==
    [inputs |-> packed.inputs, outputs |-> packed.outputs, transfer |-> transfer,
     new_addresses |-> [i \in DOMAIN params |->
        derive_address(TreeAt(remaining, params[i].address_merkle_tree_index), params[i].seed)],
     address_params |-> params, remaining |-> remaining]

Request(authority, ix, hashes) == [authority |-> authority, ix |-> ix, hashes |-> hashes]

\* insert_into_queues: the queue that an account names is the tree's own.
QueuesMatch(ix) ==
    /\ \A i \in DOMAIN ix.inputs :
        TreeAt(ix.remaining, ix.inputs[i].nullifier_queue_index)
            = QueueOf(TreeAt(ix.remaining, ix.inputs[i].merkle_tree_index))
    /\ \A i \in DOMAIN ix.address_params :
        TreeAt(ix.remaining, ix.address_params[i].address_queue_index) = AddressQueue

\* The program accepts the instruction and the proof is for the leaves that
\* it hashes.
Accepted(r) ==
    /\ input_compressed_accounts_signer_check(r.ix.inputs, r.authority)
    /\ [i \in DOMAIN r.ix.inputs |-> r.ix.inputs[i].leaf] = r.hashes
    /\ QueuesMatch(r.ix)
    /\ Valid(r.ix, None)

-----------------------------------------------------------------------------
\* js/stateless.js: test-rpc

\* getCompressedAccountsForTest: what was created and not consumed, all of it
\* with the default tree as context
getCompressedAccountsForTest ==
    {[hash |-> o.hash, account |-> Hash(o.account, DefaultTree, o.leafIndex)]
        : o \in {p \in log.outputs : p.hash \notin log.inputs}}

getCompressedAccountsByOwner(owner) ==
    {a \in getCompressedAccountsForTest : a.account.owner = owner}

\* getMultipleCompressedAccountProofs: one tree is built of all leaves; the
\* root is expected at the index of their number.
getMultipleCompressedAccountProofs(hashes) ==
    /\ \A i \in DOMAIN hashes : \E o \in log.outputs : o.hash = hashes[i]
    /\ Cardinality(log.outputs) = Len(trees[DefaultTree])

\* getMultipleNewAddressProofs: the address tree is taken to be empty.
getMultipleNewAddressProofs(new) == Range(new) \subseteq Address

\* getValidityProof, and the prover's circuits
getValidityProof(hashes, new) ==
    /\ hashes # <<>> \/ new # <<>>
    /\ hashes # <<>> => Len(hashes) \in ProofSizes /\ getMultipleCompressedAccountProofs(hashes)
    /\ getMultipleNewAddressProofs(new)

-----------------------------------------------------------------------------
\* js/stateless.js: programs/system.ts

createCompressedAccount(owner, lamports, address) ==
    [owner |-> owner, lamports |-> lamports, address |-> address, data |-> FALSE]

sumUpLamports(ins) == Total(ins)

createTransferOutputState(ins, to, lamports) ==
    LET change == sumUpLamports(ins) - lamports
    IN  IF change = 0 THEN <<createCompressedAccount(to, lamports, None)>>
        ELSE <<createCompressedAccount(ins[1].owner, change, None),
               createCompressedAccount(to, lamports, None)>>

createDecompressOutputState(ins, lamports) ==
    LET change == sumUpLamports(ins) - lamports
    IN  IF change = 0 THEN <<>> ELSE <<createCompressedAccount(ins[1].owner, change, None)>>

createNewAddressOutputState(address, owner, lamports, ins) ==
    LET change == sumUpLamports(ins) - lamports
    IN  IF change = 0 \/ ins = <<>> THEN <<createCompressedAccount(owner, lamports, address)>>
        ELSE <<createCompressedAccount(ins[1].owner, change, None),
               createCompressedAccount(owner, lamports, address)>>

\* padOutputStateMerkleTrees; outputStateTrees is empty if undefined.
padOutputStateMerkleTrees(outputStateTrees, n, ins) ==
    [j \in 1 .. n |->
        IF outputStateTrees = <<>> THEN (IF ins = <<>> THEN DefaultTree ELSE ins[1].tree)
        ELSE outputStateTrees[IF j <= Len(outputStateTrees) THEN j ELSE 1]]

\* packCompressedAccounts and packNewAddressParams
packCompressedAccounts(ins, outs, outputStateTrees, seeds, transfer) ==
    LET outTrees == padOutputStateMerkleTrees(outputStateTrees, Len(outs), ins)
        remaining == AddAll(<<>>, FlattenSeq([i \in DOMAIN ins |-> <<ins[i].tree, QueueOf(ins[i].tree)>>])
                                    \o outTrees \o AddressKeys(seeds))
    IN  Instruction(Pack(ins, outs, outTrees, remaining), PackAddresses(seeds, remaining),
                    transfer, remaining)

\* LightSystemProgram.transfer, compress, decompress and createAccount: the
\* payer is the authority.  An input is [hash, account].
Account(ins) == [i \in DOMAIN ins |-> ins[i].account]
HashesOf(ins) == [i \in DOMAIN ins |-> ins[i].hash]

transferInstruction(payer, ins, to, lamports, outputStateTrees) ==
    Request(payer,
            packCompressedAccounts(Account(ins), createTransferOutputState(Account(ins), to, lamports),
                                   outputStateTrees, <<>>, None),
            HashesOf(ins))

compressInstruction(payer, to, lamports, outputStateTrees) ==
    Request(payer,
            packCompressedAccounts(<<>>, <<createCompressedAccount(to, lamports, None)>>,
                                   outputStateTrees, <<>>,
                                   Compress(lamports)),
            <<>>)

decompressInstruction(payer, ins, lamports, to, outputStateTrees) ==
    Request(payer,
            packCompressedAccounts(Account(ins), createDecompressOutputState(Account(ins), lamports),
                                   outputStateTrees, <<>>,
                                   Decompress(lamports, to)),
            HashesOf(ins))

createAccountInstruction(payer, ins, seed, lamports, outputStateTrees) ==
    Request(payer,
            packCompressedAccounts(Account(ins),
                createNewAddressOutputState(derive_address(AddressTree, seed), payer, lamports,
                                            Account(ins)),
                outputStateTrees, <<seed>>, None),
            HashesOf(ins))

-----------------------------------------------------------------------------
\* js/stateless.js: actions.  Each is the set of requests it may send: the
\* accounts come in any order, and a call that throws sends none.

Listings(S) == {s \in [1 .. Cardinality(S) -> S] : IsInjective(s)}

\* selectMinCompressedSolAccountsForTransfer: largest first, until it is enough
selectMinCompressedSolAccountsForTransfer(S, lamports) ==
    LET sorted == {s \in Listings(S) : \A i, j \in DOMAIN s :
                        i < j => s[i].account.lamports >= s[j].account.lamports}
        enough(s) == {n \in 0 .. Len(s) : sumUpLamports(Account(SubSeq(s, 1, n))) >= lamports}
    IN  {SubSeq(s, 1, Min(enough(s))) : s \in {t \in sorted : enough(t) # {}}}

\* The accounts are the owner's; the payer alone signs and is the authority.
transfer(payer, owner, to, lamports, outputStateTrees) ==
    {transferInstruction(payer, ins, to, lamports, outputStateTrees)
        : ins \in {s \in selectMinCompressedSolAccountsForTransfer(
                            getCompressedAccountsByOwner(owner), lamports) :
                    getValidityProof(HashesOf(s), <<>>)}}

compress(payer, to, lamports, outputStateTrees) ==
    {compressInstruction(payer, to, lamports, outputStateTrees)}

\* All accounts of the payer are consumed.
decompress(payer, lamports, recipient, outputStateTrees) ==
    {decompressInstruction(payer, ins, lamports, recipient, outputStateTrees)
        : ins \in {s \in Listings(getCompressedAccountsByOwner(payer)) :
                    /\ lamports <= sumUpLamports(Account(s))
                    /\ getValidityProof(HashesOf(s), <<>>)}}

createAccount(payer, seed, outputStateTrees) ==
    {createAccountInstruction(payer, <<>>, seed, 0, outputStateTrees)
        : new \in {a \in {<<derive_address(AddressTree, seed)>>} : getValidityProof(<<>>, a)}}

\* The lamports choose the inputs, but are not passed on: the new account
\* gets none.
createAccountWithLamports(payer, seed, lamports, outputStateTrees) ==
    {createAccountInstruction(payer, ins, seed, 0, outputStateTrees)
        : ins \in {s \in selectMinCompressedSolAccountsForTransfer(
                            getCompressedAccountsByOwner(payer), lamports) :
                    getValidityProof(HashesOf(s), <<derive_address(AddressTree, seed)>>)}}

JsRequests ==
    UNION ({compress(u, to, n, ts) : u \in User, to \in Recipient, n \in Amount,
                                     ts \in {<<>>, <<DefaultTree>>}}
            \cup {transfer(u, owner, to, n, <<>>) : u \in User, owner, to \in Recipient, n \in Amount}
            \cup {decompress(u, n, to, <<>>) : u \in User, n \in Amount, to \in DecompressionRecipient}
            \cup {createAccount(u, s, <<>>) : u \in User, s \in Seed}
            \cup {createAccountWithLamports(u, s, n, <<>>) : u \in User, s \in Seed, n \in Amount})

-----------------------------------------------------------------------------
\* The Rust sdk

\* Mutant: the outputs keep the order in which they were given.
UnsortedOutputs(outputs, remaining) == outputs

\* The stable sort of create_invoke_instruction
SortedOutputs(outputs, remaining) ==
    FlattenSeq([k \in DOMAIN remaining |->
        SelectSeq(outputs, LAMBDA o : o.merkle_tree_index = k - 1)])

\* create_invoke_instruction_data_and_remaining_accounts: the keys of the
\* input trees, the queues, the output trees, then of the addresses
create_invoke_instruction_data(ins, outs, outTrees, seeds, transfer_) ==
    LET remaining == AddAll(<<>>, [i \in DOMAIN ins |-> ins[i].tree]
                                    \o [i \in DOMAIN ins |-> QueueOf(ins[i].tree)]
                                    \o outTrees \o AddressKeys(seeds))
    IN  Instruction(Pack(ins, outs, outTrees, remaining), PackAddresses(seeds, remaining),
                    transfer_, remaining)

create_invoke_instruction(authority, ins, outs, outTrees, seeds, transfer_) ==
    LET ix == create_invoke_instruction_data(ins, outs, outTrees, seeds, transfer_)
    IN  Request(authority, [ix EXCEPT !.outputs = SortedOutputs(ix.outputs, ix.remaining)], ins)

-----------------------------------------------------------------------------
\* test-utils

\* process_inclusion_proofs: the leaf is in the local tree, whose root has to
\* be the one of the tree account.
process_inclusion_proofs(ins) ==
    \A i \in DOMAIN ins :
        LET local == indexer.state_merkle_trees[ins[i].tree]
        IN  Contains(local, ins[i]) /\ local = trees[ins[i].tree]

\* create_proof_for_compressed_accounts: the sizes of the circuits, two
\* addresses at most
create_proof_for_compressed_accounts(ins, seeds) ==
    /\ ins # <<>> => Len(ins) \in ProofSizes /\ process_inclusion_proofs(ins)
    /\ Len(seeds) <= 2

\* compressed_transaction_test: the request, with what is asserted afterwards
compressed_transaction_test(authority, ins, outs, outTrees, seeds, transfer_) ==
    {create_invoke_instruction(authority, ins, outs, outTrees, seeds, transfer_)
            @@ [outs |-> outs, outTrees |-> outTrees, compression |-> transfer_,
                created_addresses |-> {derive_address(AddressTree, s) : s \in Range(seeds)}]
        : proof \in {p \in {ins} : create_proof_for_compressed_accounts(p, seeds)}}

create_addresses_test(seeds, outTrees) ==
    compressed_transaction_test(RpcPayer, <<>>,
        [i \in DOMAIN seeds |->
            createCompressedAccount(RpcPayer, 0, derive_address(AddressTree, seeds[i]))],
        outTrees, seeds, None)

compress_sol_test(authority, ins, compress_amount, outTree) ==
    compressed_transaction_test(authority, ins,
        <<createCompressedAccount(authority, Total(ins) + compress_amount, None)>>,
        <<outTree>>, <<>>, Compress(compress_amount))

\* The change goes to the payer of the rpc, even if nothing is left.
decompress_sol_test(authority, ins, decompress_amount, outTree) ==
    compressed_transaction_test(authority, ins,
        <<createCompressedAccount(RpcPayer, Total(ins) - decompress_amount, None)>>,
        <<outTree>>, <<>>, Decompress(decompress_amount, "other"))

\* The lamports are divided among the recipients, the first gets the rest;
\* output i takes over the address of input i.
transfer_compressed_sol_test(authority, ins, recipients, outTrees) ==
    LET n == Len(outTrees)
        output(i) == createCompressedAccount(recipients[i],
                        (Total(ins) \div n) + (IF i = 1 THEN Total(ins) % n ELSE 0),
                        IF i <= Len(ins) THEN ins[i].address ELSE None)
    IN  compressed_transaction_test(authority, ins, [i \in 1 .. n |-> output(i)], outTrees, <<>>, None)

\* TestIndexer::get_compressed_accounts_by_owner and get_compressed_sol_accounts
get_compressed_accounts_by_owner(owner) == {a \in indexer.compressed_accounts : a.owner = owner}
get_compressed_sol_accounts(owner) == Listings(get_compressed_accounts_by_owner(owner))

\* get_random_compressed_sol_accounts: at most 4, here in any order
get_random_compressed_sol_accounts(owner) ==
    UNION {Listings(S) : S \in {T \in SUBSET get_compressed_accounts_by_owner(owner) :
                                    Cardinality(T) <= 4}}

\* get_merkle_tree_pubkeys: the keys of num trees, sorted
get_merkle_tree_pubkeys(num) ==
    {ts \in [1 .. num -> Tree] : \A i, j \in 1 .. num :
        i < j => IndexOf(PubkeyOrder, ts[i]) <= IndexOf(PubkeyOrder, ts[j])}

\* transfer_sol and transfer_sol_deterministic: the latter takes all accounts
transfer_sol(user) ==
    UNION {transfer_compressed_sol_test(user, ins, to, ts)
            : ins \in get_random_compressed_sol_accounts(user) \ {<<>>},
              to \in Listings(Recipient), ts \in get_merkle_tree_pubkeys(Cardinality(Recipient))}
transfer_sol_deterministic(from, to, tree) ==
    UNION {transfer_compressed_sol_test(from, ins, <<to>>, <<tree>>)
            : ins \in get_compressed_sol_accounts(from) \ {<<>>}}

decompress_sol(user, amount, tree) ==
    UNION {decompress_sol_test(user, ins, amount, tree)
            : ins \in {s \in get_random_compressed_sol_accounts(user) : Total(s) >= amount}}

compress_sol(user, amount, tree) ==
    UNION {compress_sol_test(user, ins, amount, tree) : ins \in get_random_compressed_sol_accounts(user)}
compress_sol_deterministic(from, amount, tree) ==
    UNION {compress_sol_test(from, ins, amount, tree) : ins \in get_compressed_sol_accounts(from)}

create_address(num_addresses) ==
    UNION {create_addresses_test(seeds, ts)
            : seeds \in {s \in [1 .. num_addresses -> Seed] : IsInjective(s)},
              ts \in get_merkle_tree_pubkeys(num_addresses)}

E2eRequests ==
    UNION ({transfer_sol(u) : u \in User}
            \cup {transfer_sol_deterministic(u, to, t) : u \in User, to \in Recipient, t \in Tree}
            \cup {decompress_sol(u, n, t) : u \in User, n \in Amount, t \in Tree}
            \cup {compress_sol(u, n, t) : u \in User, n \in Amount, t \in Tree}
            \cup {compress_sol_deterministic(u, n, t) : u \in User, n \in Amount, t \in Tree}
            \cup {create_address(n) : n \in 1 .. 2})

-----------------------------------------------------------------------------
\* test-utils/src/assert_compressed_tx.rs: what compressed_transaction_test
\* asserts of the transaction r, given its event and the state it leaves.

\* assert_created_compressed_accounts: the event creates nothing unexpected.
assert_created_compressed_accounts(r, event) ==
    \A a \in Range(Created(event)) :
        /\ \E o \in Range(r.outs) : /\ o.owner = a.owner /\ o.lamports = a.lamports
                                    /\ o.address = a.address /\ o.data = a.data
        /\ a.tree \in Range(r.outTrees)

assert_nullifiers_exist_in_hash_sets(r) == Range(r.hashes) \subseteq Nullified(r.ix.inputs)

assert_addresses_exist_in_hash_sets(r) ==
    r.created_addresses \subseteq Inserted(r.ix.new_addresses)

\* get_merkle_tree_snapshots, taken before the transaction
get_merkle_tree_snapshots(outTrees) ==
    {[tree |-> t, next_index |-> Len(trees[t]),
      num_added_accounts |-> Cardinality({j \in DOMAIN outTrees : outTrees[j] = t})]
        : t \in Range(outTrees)}

\* assert_merkle_tree_after_tx: the tree has grown by the outputs sent to it
\* and is the one of the indexer.
assert_merkle_tree_after_tx(r, event) ==
    \A s \in get_merkle_tree_snapshots(r.outTrees) :
        LET after == Appended(r.ix.outputs, r.ix.remaining)[s.tree]
        IN  /\ after # trees[s.tree]
            /\ Len(after) = s.next_index + s.num_added_accounts
            /\ after = IndexerAfter(event).state_merkle_trees[s.tree]

assert_public_transaction_event(r, event) ==
    /\ event.input_compressed_account_hashes = r.hashes
    /\ \A o \in Range(event.output_compressed_accounts) :
        TreeAt(event.pubkey_array, o.merkle_tree_index) \in Range(r.outTrees)
    /\ event.output_leaf_indices = [j \in DOMAIN Created(event) |-> Created(event)[j].leaf_index]

\* assert_compression: the pool has changed by the amount that was asked for.
assert_compression(r) ==
    r.compression # None =>
        PoolAfterTransfer(r.ix.transfer)
            = sol_pool + (IF r.compression.is_compress THEN r.compression.lamports
                          ELSE -r.compression.lamports)

assert_compressed_transaction(r) ==
    LET event == emit_state_transition_event(r.ix)
    IN  /\ assert_created_compressed_accounts(r, event)
        /\ assert_nullifiers_exist_in_hash_sets(r)
        /\ assert_addresses_exist_in_hash_sets(r)
        /\ assert_merkle_tree_after_tx(r, event)
        /\ assert_public_transaction_event(r, event)
        /\ assert_compression(r)

-----------------------------------------------------------------------------
\* TestIndexer::new
ClientInit ==
    /\ Init
    /\ indexer = [compressed_accounts |-> {}, state_merkle_trees |-> [t \in Tree |-> <<>>]]
    /\ log = [outputs |-> {}, inputs |-> {}]

\* The bound on the leaves keeps instructions of other clients small.
Bounded(n) == MapThenSumSet(LAMBDA t : Len(trees[t]), Tree) + n <= MaxLeaves

Send(r) == Bounded(Len(r.ix.outputs)) /\ Accepted(r) /\ Submit(r.ix, r.authority)

JsCall == \E r \in JsRequests : Send(r)
E2eCall == \E r \in E2eRequests : Send(r)
OtherCall == Bounded(MaxAccounts) /\ InvokeWith(Submit)

ClientNext == JsCall \/ E2eCall \/ OtherCall

ClientSpec == ClientInit /\ [][ClientNext]_vars

-----------------------------------------------------------------------------
\* test-rpc knows one tree only.
DefaultTreeOnly == \A t \in Tree \ {DefaultTree} : trees[t] = <<>>

\* Nothing but the state of the chain is in the way of a request: the leaves
\* fit, the lamports exist, the addresses have not been created.
Possible(r) ==
    /\ HasRoom(r.ix.outputs, r.ix.remaining)
    /\ Affordable(r.ix.transfer)
    /\ AddressesNew(r.ix.new_addresses, None)
    /\ \A i \in DOMAIN r.hashes : ~r.hashes[i].data
    /\ Total(r.hashes) <= MaxU64 /\ Total(r.ix.outputs) <= MaxU64

\* The payer of a request owns what it consumes.
PayerOwns(r) == \A i \in DOMAIN r.hashes : r.hashes[i].owner = r.authority

\* Whoever sent the transactions, the indexers know from the events alone the
\* accounts that exist and the trees they are in, and the program accepts
\* what the clients build on them: the right hashes under the right indices,
\* sums that agree, outputs in the order of their trees, addresses that are
\* there.  Then the assertions of the test helpers hold of what the program
\* does: sorting the outputs by tree changes neither which accounts a tree
\* gets nor how many.  test-rpc can do that for one tree, and transfer of
\* js/stateless.js, which takes an owner beside the payer, for the payer's own
\* accounts only.
IndexersFollow ==
    /\ indexer.compressed_accounts = Live
    /\ indexer.state_merkle_trees = trees
    /\ {a.hash : a \in getCompressedAccountsForTest} = Live
    /\ \A r \in E2eRequests : Possible(r) => Accepted(r) /\ assert_compressed_transaction(r)
    /\ DefaultTreeOnly => \A r \in JsRequests : Possible(r) => (Accepted(r) <=> PayerOwns(r))
=============================================================================
