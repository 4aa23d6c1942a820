# Light Protocol in TLA+

Specifications of Light Protocol (ZK compression on Solana): its on-chain programs, the forester service
and the clients that build transactions, model-checked with TLC and, for the parts where it matters most,
proved with TLAPS for every value of the constants.

A *compressed account* is a leaf of a state Merkle tree; only roots are kept on chain. A transaction
consumes accounts by proving their leaves against a root, puts their hashes (*nullifiers*) into a queue,
and appends new leaves. A *forester* later replaces the leaves of queued nullifiers by zero. New *addresses*
go the same way: proved absent from an old root of an address tree, queued, and later inserted by a forester.

## 1. Inventory

| Component | State | Operations | Interacts with | What makes it hard, and what is right |
|---|---|---|---|---|
| hash set (`merkle-tree/hash-set`) | buckets with an optional sequence number | `insert`, `contains`/`find_element`, `get_unmarked_bucket`, `mark_with_sequence_number` | is the nullifier queue and the address queue | expired buckets are reused in place: no duplicates, no lost values |
| cyclic bounded vec (`merkle-tree/bounded-vec`) | ring buffer, first and last index | `push`, `get`, `iter`, `iter_from` | root history and changelog of the trees | indices after wrapping |
| concurrent Merkle tree (`merkle-tree/concurrent`) | filled subtrees, canopy, changelog, roots, counters | `append_batch`, `update` | every tree account | proofs arrive late and are patched from the changelog; batches leave nodes undefined |
| indexed Merkle tree (`merkle-tree/indexed`) | a sorted linked list in the leaves, an indexed changelog; off chain an `IndexedArray` and a reference tree | `update`, `add_highest_element`; `find_low_element…`, `append…` | address trees, foresters | a stale low element is patched on chain; the copy off chain must arrive at the same list |
| account-compression program | tree, queue and group accounts, rollover metadata | `insert_into_nullifier_queues`, `insert_addresses`, `append_leaves_to_merkle_trees`, `nullify_leaves`, `update_address_merkle_tree`, rollovers | called by the system program and the registry | old roots are accepted: spend once; fees pay for the next tree |
| system program (`programs/system`) | SOL pool, CPI context accounts | `invoke`, `invoke_cpi`, `init_cpi_context_account` | calls account-compression; called by users and programs | value is conserved, addresses are unique, owners consent |
| registry program (`programs/registry`) | config, forester weights, epoch accounts | `register_forester_epoch`, `finalize_registration`, `report_work`, creation of trees, `nullify`, rollovers, ... | signs for its group at account-compression, creates CPI contexts at the system program | one forester per queue and slot, work counted once, every tree can be serviced, config changes |
| compressed-token program | a pool per mint; token accounts are account data | mint, transfer, approve, revoke, freeze, thaw, burn | calls `invoke_cpi` | the pool backs the tokens, delegates and frozen accounts |
| forester service (`forester/`) | per-epoch tasks, slot estimate, calls in flight | registration, phases, schedule, polling of queues, batches with retries, report | registry, indexer | timing of slots, timeouts, late transactions, restarts |
| token clients (`js/compressed-token`, Rust sdk, `test-utils/src/spl.rs`) | - | select accounts, compute outputs, pack | indexer, compressed-token program | what they build is accepted |
| system clients and test indexers (`js/stateless.js`, Rust sdk, `test-utils`) | the accounts and trees known from events | select, pack, order outputs; index events | system program | leaf indices and trees from events alone |
| registry clients (`registry/src/sdk.rs`, `test-utils/src/test_env.rs`, `forester/src/rollover`) | the trees known to the indexer | set-up, creation, work, rollover | registry | a sequence of transactions of which any may fail |
| prover, circuits, Photon, CLI | - | - | - | the proof system is taken to be sound and complete |

Concurrency on chain is the interleaving of transactions: an instruction is atomic, and a failing one
changes nothing. What a client or a forester computes off chain may be arbitrarily old when it arrives.
`PROJECT.json` lists the hazards with their lines.

## 2. Modules

| Module | Models | Extends / instantiates |
|---|---|---|
| `ExpiringSet` | abstract: what a queue promises | |
| `QueueConfig` | the constants that a tree and the table of its queue share | |
| `HashSet` | the hash set; implements `ExpiringSet` | `QueueConfig`, `ExpiringSet` |
| `CyclicBoundedVec` | the ring buffer, as operators on a record | |
| `ConcurrentMerkleTree` | the concurrent Merkle tree and its clients | `CyclicBoundedVec` |
| `AddressSet` | abstract: addresses are created at most once | |
| `IndexedArray` | the list of elements that is kept off chain, as operators on a record | |
| `IndexedMerkleTree` | the sorted linked list of addresses in a concurrent Merkle tree, its senders and the copy off chain; implements `AddressSet` | `IndexedArray`, `CyclicBoundedVec`, `ConcurrentMerkleTree`, `AddressSet` |
| `Ledger` | abstract: accounts are consumed at most once | |
| `StateTree` | a state tree with its nullifier queue, users and a forester; implements `Ledger` | `QueueConfig`, `ExpiringSet`, `Ledger` |
| `AddressTree` | an address tree with its queue, users and a forester; implements `AddressSet` | `QueueConfig`, `ExpiringSet`, `AddressSet` |
| `AccountCompression` | groups, tree and queue accounts, fees and rollover of several pairs | |
| `RegistryCpi` | the registry in front of the account-compression program, CPI contexts | `AccountCompression` |
| `RegistryClient` | set-up, end-to-end test and the forester's rollover, which call the registry | `RegistryCpi` |
| `Registry` | the registry's config, weights, epochs and work counters | |
| `Forester` | the forester service, with the registry as the chain | `Registry` |
| `SystemProgram` | the `invoke` path of the system program | |
| `RemainingAccounts` | how clients pack keys into remaining accounts | |
| `SystemClient` | clients of the system program, and two indexers | `SystemProgram`, `RemainingAccounts` |
| `CpiContext` | the `invoke_cpi` path and the CPI context account | `SystemProgram` |
| `CpiTest` | the test programs that share a CPI context account | `CpiContext` |
| `CompressedToken` | the compressed-token program | |
| `TokenClient` | clients of the compressed-token program | `CompressedToken`, `RemainingAccounts` |
| `TokenAssert` | what the end-to-end test asserts after each token transaction | `TokenClient` |
| `SumTheorems` | theorems about sums over finite sets, used by the proofs | `Functions`, `FiniteSetTheorems` |
| `StateTreeProofs` | theorems about `HashSet` and `StateTree` | `HashSet`, `StateTree`, `TLAPS` |
| `ForesterProofs` | theorems about `Registry` and `Forester` | `Forester`, `SumTheorems` |
| `MerkleTreeProofs` | theorems about `ConcurrentMerkleTree` and `IndexedMerkleTree` | `IndexedMerkleTree`, `SumTheorems` |
| `SystemProofs` | theorems about `SystemProgram`, `CpiContext` and `CpiTest` | `CpiTest`, `SumTheorems` |
| `TokenProofs` | theorems about `CompressedToken` | `CompressedToken`, `SumTheorems` |
| other `*Proofs` | theorems about the module they are named after | the module, `TLAPS` |
| `MC*` | values of the constants and symmetry for TLC | the module |

The layers are composed by abstraction. `HashSet` is shown to implement `ExpiringSet`, and `StateTree`
uses `ExpiringSet` as its queue. `ConcurrentMerkleTree` shows that the newest root is the root of the
leaves and that root number *n* sits at index *n* modulo the capacity; `StateTree` uses a root as the set
of leaves it proves and the same indexing. `IndexedMerkleTree` is built from the operators of
`ConcurrentMerkleTree` and shown to be a set of addresses; `AddressTree` uses it as one. `StateTree` is shown
to implement `Ledger`, and `SystemProgram` uses one set of consumed leaves per ledger; `CompressedToken` uses
the system program as a bag of accounts of which each is consumed once. Where components interact in many
steps they are composed in one specification: `Forester` with `Registry`, `RegistryClient` with `RegistryCpi`
and `AccountCompression`, `SystemClient` with `SystemProgram`, `TokenClient` with `CompressedToken`.

### HashSet
`buckets` is the array of `Option<HashSetCell>`, `seq` the sequence number that callers read from the tree.
`find_element_iter(v, i)` says that the search returns the bucket of iteration `i`. The offset and the
squares of `probe_index` are kept. `insert` returning `ElementAlreadyExists` or `Full` is no step.

### ConcurrentMerkleTree
`tree` is the struct, field by field, `leaves` (not in the program) the tree it stands for. Hashing is
ideal: a node is the pair of its children. A client's `FetchProof` reads leaf, proof and changelog index;
`Update` arrives any number of changes later and is accepted or fails exactly as `update` does, wrapped
changelog included. A batch pushes one changelog entry and one root per leaf; all roots but the last
are zero, and the paths of all leaves but the last are defined only as far as they are final.

### IndexedMerkleTree
`tree` and `indexed_changelog` are the struct, `leaves` the elements the hashes stand for. A client may take
any element for the low element of any address (`FetchLowElement`), and its insertion arrives any number of
insertions later. The recursion of `patch_elements_and_proof` is one fold over the newer changelog entries:
after the low element is replaced, the code starts again behind the entry that appended the new one, which in
the fold is passed over. A proof holds the levels below the canopy; the entries copy it, as the code does.
`relayer` is the copy of `empty_address_queue_test`: after an insertion it looks the low element up in its
`IndexedArray`, appends there and updates its reference tree. (`TestIndexer::address_tree_updated` uses the low
element of the time at which the proof was fetched instead. With several proofs fetched together that is wrong
for all but the first; it is the mutant of `CopyFollowsChain`.)

### StateTree
`Transact(inputs, n)` is one invocation of the system program seen from one tree: proofs against any roots
of the history, insertion of the nullifiers, append of `n` outputs. `NullifyLeaves(p)` is the forester's
instruction for one cell (the program accepts one nullifier per instruction). A root is the set of leaves
it proves. The accounts' hashes contain tree and leaf index, so a leaf is identified by its index. `consumed`
is a history variable: it counts how often each account was an input, so that a second time would show.

### AddressTree
The same protocol with absence in place of presence: a root is the set of addresses it proves absent, and
`CreateAddresses` needs for each address some root of the history. An insertion changes the tree twice, and the
root between the two changes proves less than either neighbour (`AbsentBetween`): the low element already
points to the new address, whose own leaf is missing. The initialization makes three changes. `creations` is a
history variable as `consumed` is.

### AccountCompression, RegistryCpi and RegistryClient
A tree account is its owner, terms of service, threshold, fee, lamports, number of leaves, queue and successor; a
queue account is the same with the number of values that wait. `MayAccess` is
`check_signer_is_registered_or_authority`. Appending and inserting pay the rollover fee per leaf (`BatchFee`); a
rollover reimburses the rent of the new pair from the account that collected: the tree of a state pair, the
queue of an address pair. `RegistryCpi` adds the registry's checks: terms on which anybody gets a tree
(`StateTerms`, `AddressTerms`), `check_forester`, the CPI context of each state tree. A forester may be eligible
at any time there; when it is, is the subject of `Registry`. Any network fee may come into force, zero too
(`SetConfig`); `fees`, a history variable, holds those that did. `RegistryClient` has the transactions of
`initialize_accounts`, of the end-to-end test and of the forester service, with the trees they know in
`bundles`. The steps of a set-up may be interleaved with everything else, and any of them may be refused. The
forester's own rollover of state trees does not sign for the CPI context account it creates and is refused
by the runtime, so it is not an action; wallets that own a pair roll it over themselves; the end-to-end test's rollover of address trees waits for lamports on
the tree that only the queue collects, and is never taken.

### Registry
One action per instruction; `forest` stands for the instructions that call `check_forester` (`nullify`,
`update_address_merkle_tree`, the rollovers). `Hash` is a parameter. Signers, derived addresses and
metadata of foresters are left out.

### Forester
`task` holds, per forester and epoch, where `process_epoch` is, `calls` the running `process_queue` calls, `late`
transactions that were given up and may still land. What the code reads at an await is read in a step of its
own. The slot tracker's estimate is any slot within `Drift` of the clock. `Restart` loses everything but the
chain. The weights and the config do not change here (they do in `Registry`). `process_queue` spawns chunks of
`INDEXER_BATCH_SIZE` items that run concurrently, each sending one item after the other; a call of the model has one
chunk, and what runs concurrently are the calls of different updates.

### SystemProgram and CpiContext
A leaf is the record of everything that is hashed. `process` follows the order of checks of the code;
since an instruction is atomic the order shows only in which error is returned. `TakeAddress` keeps the
search and the removal of the address vector as they are in the code; an index without a remaining account is a panic
(`IndicesExist`). The recipient of a decompression is any account, the pool too, which then keeps the lamports;
`returned`, a history variable, counts them. (Lamports that somebody sends to the pool's address without the program are
not in `sol_pool`.) `listed`, another one, is the vector of addresses that the last instruction started from. In
`CpiContext`, cached parts carry two history fields, the program and the payer they came from. `CpiTest` adds the test program, which has
the token program cache a part and then executes it with its own in one transaction (`pending` is what is left of
it), and every call of it that has to fail.

### SystemClient
`log` is what the test-rpc of stateless.js has read from the events, `indexer` is `TestIndexer`. `JsRequests` and
`E2eRequests` are the instructions the clients would build in the present state, each with the accounts it was
built from; `Send` submits one. Other clients send any instruction (`OtherCall`). Keys are packed as in the
code, first come first served; the Rust sdk sorts the outputs by tree index, the js client does not. `transfer` of
stateless.js takes a payer and an owner: the accounts are the owner's, the payer alone signs.

### CompressedToken and TokenClient
`accounts` is the bag of token accounts, `pool`, `spl` and `supply` the SPL side. Every instruction but `mint_to` may
carry a CPI context: the system program then caches its inputs and outputs without a proof, so that they need not exist
(`Claimed`), or executes them with all parts cached before (`process_invoke_cpi`, with the checks of
`process_cpi_context`; `CpiContext` has them for accounts of all programs). The SPL tokens move when the instruction
runs, whether it is cached or not. Three history values serve the properties: `unsettled` is what instructions moved
into the pool, or out of it, whose parts are not executed (those that were replaced stay in it), every part knows who signed it for which fee
payer, and `signers` are those of the instruction and of the parts it executed. The program rebuilds the inputs from instruction data (`check_signer`, `HashedAs`), and the
proof fails unless such accounts exist. `TokenClient` adds how clients choose inputs, compute outputs and pack
them, in js and in Rust, and the token actions of the end-to-end test.

## 3. Runs

| Run | Bounds, and why they are enough | Shows |
|---|---|---|
| `hash_set` | 4 buckets, 3 probes, 3 colliding values, threshold 2, 5 sequence numbers: cells expire and are reused before and behind the value searched for | `NoDuplicates`, `LookupComplete`, `ImplementsExpiringSet` |
| `concurrent_tree` | height 2, canopy 1, changelog 3, roots 2, 2 clients, 5 changes: both buffers wrap, the tree fills | `NodesMatchLeaves`, `StaleRequestsAccepted`, `UpdateSound` |
| `indexed_tree` | height 3, canopy 1, both changelogs 5, roots 3, 4 addresses, 2 clients: both changelogs wrap, a request is patched across several insertions and low elements | `SortedList`, `StaleInsertionsAccepted`, `CopyFollowsChain`, `InsertedOnce` |
| `state_tree` | 5 leaves, 2 roots, 3 cells, threshold 2: the tree fills, cells expire and are reused; with fairness | `StaleRootsCovered`, `PendingProcessable`, `SpendOnce`, `EventuallyNullified` |
| `address_tree` | 5 addresses, 3 roots, 3 cells, threshold 4 with margin 1: every address can be inserted, cells expire and are reused; with fairness | `StaleRootsCovered`, `PendingProcessable`, `QueueNeverJams`, `CreateOnce`, `EventuallyInserted` |
| `account_compression` | 2 trees, 2 queues, 3 CPI contexts (one of a wrong size), 1 wallet that is also a forester, trees of 4 leaves, thresholds none, 0, 95 and 101 (which is refused), network fees 0 and 1: a pair is created in every way, filled and rolled over into the other | `TreesServiced`, `SuccessorsPaired`, `FeesCoverRollover` |
| `registry` | 2 foresters, 2 epochs, weights 1 and 2, active phases of 2 and 3 slots | `RangesPartition`, `TotalsAgree`, `UniqueForester`, `WorkAccounted`, `ReportedIsFinal` |
| `system` | 2 inputs, 2 outputs, 1 new address, 2 trees, one of them named by two indices, 3 leaves, largest u64 2, decompressions to the pool and elsewhere | `HashedWhereAppended`, `PoolBacksAccounts`, `IndexersFollow`, `AddressMoves` |
| `cpi_context` | 2 programs, 2 payers, 2 cached parts, 2 leaves in a tree of 4, supply 1: parts of both programs are cached, replaced, executed and abandoned | `OwnersConsent` |
| `token` | 2 holders, an authority, 1 mint, 2 tokens and 1 lamport, 2 inputs and outputs: accounts are split, merged, delegated and frozen; with CPI contexts for 2 fee payers, 1 token, 1 account, 1 input and 1 output cached and an account of each holder that need not exist (`MaxShared`, `MaxCached`, `Claimed`): parts are cached, combined, replaced, executed and abandoned | `PoolBacksTokens`, `RequestsAccepted`, `DelegateBound`, `FrozenStays` |
| `forester` | 1 forester, 2 epochs, 5 slots, 1 queue, 1 item, drift 1, 1 retry, 1 call at a time; with fairness | `CountedWork`, `NeverEarly`, `OneTaskPerEpoch`, `CallsEnd` |

One run is expected to find a violation (`PROJECT.json`, findings), `address_unique`: `AddressUnique` fails. An
instruction whose list of addresses has an account without an address before an address removes another entry than the
one it found, and may give the address to two outputs.

Two more disagreements with the repository's words are modelled as the code has them. `get_schedule_for_queue` computes
the forester index of every light slot from the first slot of the schedule, so that slots in which the registry finds
the forester not eligible are in its schedule, and eligible ones are missing (`Schedule` in `Forester`; the registry
refuses the work of a wrong slot, and the properties of the service hold with this schedule). The error of the registry
says that a tree without a network fee needs a forester; while the config has the fee zero, a tree may name that fee and
no forester, and nobody may service it.

Every property has a mutant in `PROJECT.json`: a definition of the model changed as a plausible bug would change
the code, with which TLC finds the property violated.

Three properties say exactly where such a limit is. `AddressMoves`: an account's address was created by the
same instruction or comes from an account that the instruction consumes, always; and no address gets a second account from
an instruction that lists no account without an address before an address, where new addresses are listed last. Accounts without an address may come
after those with one. `TreesServiced`: a tree of the registry without a forester pays a network fee that was in force, so
that nothing but a fee of zero leaves a tree without service. `IndexersFollow`: of the js client's requests exactly those
are accepted whose payer owns the inputs.

`EventuallyInserted` is about a tree with room for every address: in the run it never fills. On a full tree a queued
address stays in the queue; nothing in the code takes it out. `FeesCoverRollover` is about the rent of tree and queue.
`UniqueForester` is about one epoch; after a change of the config a slot may be active in two. With a single tree in
`cpi_context`, two tree accounts in `account_compression` and one mint in `token`, that cached indices may be resolved
otherwise, that two pairs do not share a successor, that mints do not mix and that parts with several token accounts
are combined is shown by the proofs.

Deadlock is not checked: the counters are bounded, and on chain nothing obliges anyone to send a transaction.
The bounds (`MaxSeq`, `MaxSlot`, `MaxWork`, `MaxLeaves`, `MaxSupply`, `MaxQueued`, `MaxCalls`,
`MaxNewAddresses`, `MaxInputs`, `MaxCached`, `MaxShared`, ...) are conjuncts of guards or bound the instruction data, and are named in the modules;
`Claimed` bounds the accounts that a cached token instruction names and that do not exist. While the CPI context of
`CompressedToken` is in use fewer tokens exist, and token clients, who never pass a context, send what they build as
instructions of `Next`. Where accounts or clients are interchangeable, and no temporal property is checked
that could tell them apart, the runs use symmetry. History variables that describe the last step only (`listed`,
`signers`) are left out of the `VIEW`: invariants do not read them, and action properties are checked on every
step that TLC generates.

**Fairness.** `EventuallyNullified` and `EventuallyInserted` need weak fairness of `NullifyLeaves(p)` and of
`UpdateAddressMerkleTree(p)` for every cell: the forester polls the queues in every light slot
(`forester/src/epoch_manager.rs`), and the registry assigns every slot to some registered forester
(`RangesPartition`). `CallsEnd` needs weak fairness of the steps of the running calls: the runtime polls every
task, and a transaction is answered or times out. Nothing is assumed of users, of the chain's answers or of
restarts.

**Hazards without a property** are listed with the reason in `PROJECT.json`: the epoch that is given up after a restart,
updates that arrive before the subscription, the schedule of light slots, and the forester's rollover, which names epoch
0 and lacks a signature. Of others a part is left: the fee zero and configs with zero lengths, where the instructions abort, a slot that is active in two
epochs, and where an output lands whose tree index was cached.
Three limits of the clients are hazards with a property that says where the limit is: the js token client packs the
delegate of the first input for all inputs, and `RequestsAccepted` says that exactly the selections with one delegate
or none, and nothing frozen, are accepted; `transfer` of the js system client is accepted for the payer's own accounts only, and its test-rpc
takes every account to be in the default tree, so that `IndexersFollow` is about its requests while that is true.

## 4. Proofs

All theorems hold for every value of the constants that satisfies the module's named assumption.

* **StateTreeProofs**, the hash set, from `HashSetAssumption`. The inductive invariant `HashSetIInv` is
  `HashSetTypeOK`, `OnProbePath` and `NoDuplicates`. `OnProbePath` is needed because a search stops at the first empty bucket: a value that
  sits on its probe sequence with no empty bucket before it is found, and an occupied bucket never becomes
  empty again. From it: `HashSetNoDuplicates`, `HashSetLookupComplete` and the refinement
  `HashSetImplementsExpiringSet`.

  The state tree, from `StateTreeAssumption` (the threshold is at least the size of the root history plus
  the safety margin, which the initialization instruction enforces). `StaleRootsCovered` is not inductive:
  it must be known *when* a root that still proves a nullified leaf is overwritten. The invariant adds, for
  every such root slot, that the cell of the leaf expires no earlier than the number of pushes that reach
  the slot. For the refinement it adds that leaves not yet appended were never consumed. From it:
  `StateTreeStaleRootsCovered`, `StateTreePendingProcessable`, and the refinement `StateTreeSpendOnce`.
* **AddressTreeProofs**, from `AddressTreeAssumption`. The invariant has the same shape (`Covered`: a slot that
  proves an inserted address absent is overwritten before the cell expires, now with two pushes per insertion)
  and adds `CreationsCounted`: an address was created once if it is in the tree or waits in the queue, and never
  otherwise. From it: `AddressTreeStaleRootsCovered`, `AddressTreePendingProcessable` and the refinement
  `AddressTreeCreateOnce`. `AddressTreeQueueNeverJams` needs `MarksSpaced`: two marked cells were marked with sequence
  numbers that differ, by an even number because an insertion makes two changes, so at most half of the
  `sequence_threshold`, rounded up, can be valid and marked at a time. The marks are counted by an injection into an
  interval.
* **ForesterProofs**, the registry, from `RegistryAssumption`. The invariant adds that configs in use have been checked, that
  the copies of an epoch's config agree, that ranges are disjoint and cover the registered weight, that
  totals are copied only after the registration phase and that reports come after the active phase. From it:
  `RegistryRangesPartition`, `RegistryTotalsAgree`, `RegistryUniqueForester`, `RegistryReportedIsFinal`.

  `RegistryWorkAccounted` needs no more than that but sums over any number of foresters: a report moves one
  summand from zero to the forester's counter, every other step leaves all summands alone, and by
  `RegistryReportedIsFinal`'s lemma a summand that was reported is final.

  The service, from `ForesterAssumption`, for any number of foresters, queues, items, retries and any drift. Its
  invariant `FInv` has the registry's, that running calls belong to a task of the active phase, that a task which
  works has a registration on chain, and `ConfirmedCounted`: what a task has counted, and what calls in flight and
  late transactions may still confirm, is covered by the counter on chain. From it: `ForesterNeverEarly`,
  `ForesterOneTaskPerEpoch`, `ForesterCountedWork`.
* **RegistryClientProofs**, from the assumptions of `AccountCompression`, `RegistryCpi` and `RegistryClient`, for any
  number of wallets, groups, programs and accounts. The invariant adds that trees and queues point to each other
  and are of one kind, that fees were computed from the size and the threshold, that an account has kept every
  fee it was paid until it is rolled over, and that a successor has the terms of its predecessor. From it:
  `RegistryClientSuccessorsPaired`, `RegistryClientTreesServiced` and `RegistryClientFeesCoverRollover`.
* **SumTheorems.** `SumFunctionOnSet` is defined by a recursive function over sets. Its round, and from it that
  a sum over equal summands is equal, that changing one summand changes the sum by the difference and that a sum
  splits, are proved by the smallest counterexample: a well-founded order has a minimal element of the set of
  sets (or numbers) for which the claim fails, and the theorems that say so take no operator as a parameter.
  `SumUnion` splits a sum over disjoint sets; `NumberInduction` and `SetInduction` are induction up to a bound,
  for a set of numbers, and over the subsets of a finite set; `RecursionExists` says in the same way that the recursive functions
  of the models, which run over the prefixes of a sequence, are what their equations say. `SumPlus` and `SumTimes`
  add sums and take out a factor; `SumFibres` sums over the values that a function takes what it sums to on
  the arguments with that value.
* **MerkleTreeProofs**, from `SizeConstraints` and `IndexedAssumption`, for every height, canopy and size of the ring
  buffers, any leaves, addresses and clients. The nodes, paths and folds are recursive functions; that they are
  what their equations say follows from `RecursionExists`, and facts about all levels or all entries from
  `NumberInduction`.

  *The tree.* `TreeInv` says of a tree and its leaves that the rings are rings, that the newest root is the node at
  the top, that the cached nodes are the nodes of the leaves, and that a filled subtree is the node left of the
  next leaf's path, where there is one (`Appendable`). It is stated of any tree and leaves, so that it can be carried
  through the loop over a batch: in between, the nodes above the next leaf are old in the canopy, and an entry that
  follows has them (`HalfIn`). A proof that yields the newest root yields the nodes of the path, since hashing is
  ideal (`ProofSound`); so whatever a stale or wrong request is patched to, if it is accepted it is about a leaf that is
  there. From it: `RootsAndCanopyMatch` and `UpdatesAreSound`.

  *Stale requests.* `StaleInv` says of every request for an untouched leaf that lags by less than the capacity: the
  last entries of the changelog, as many as the lag, are still there in order (`Window`), and patching the client's
  part of the proof with them one after the other gives the siblings in the present tree (`FreshIn`). A push
  extends the window; the new entry has, at the level where the two paths meet, the node that replaces the sibling,
  or leaves that level undefined, and then a later entry of the batch has it. Where the canopy has replaced a
  sibling already, patching it again with newer entries ends at the same node. From it: `StaleRequestsSurvive`.

  *The indexed tree.* `IndexedInv` adds that the elements are one sorted list (`ListInv`), the shape of the
  indexed changelog and of the requests, and that the copy's array has the same elements (`ArrayIn`). About the
  patched request nothing needs to be known: the proof of the low leaf shows that the element is in the tree as it is
  claimed to be, and then the range check shows that the address lies between it and its successor and is new. From it:
  `AddressesStaySorted`, `CopiesFollow` and the refinement `AddressesInsertedOnce`.

  *Stale insertions.* That an insertion is not refused without need does depend on how it is patched.
  `StaleInsertionsInv` says of every request for a new address that lags by less than both capacities: patched with the
  entries of the indexed changelog written since, one after the other (`PatchRun`), it ends at the element that is the low
  element now (`CurrentAt`), with a proof and a position of the changelog from which the concurrent tree brings the
  proof up to date (`Reached`). Every insertion writes two entries, and the pair leaves the request alone, gives its low element a
  new successor or makes the new element the low one (`PatchPair`); `OtherFresh`, `LowFresh` and `NewFresh` say that the
  proof is good in each case. From it: `StaleInsertionsSurvive`.
* **SystemProofs**, from `SystemProgramAssumption` and `CpiTestAssumption` (a program is no fee payer), for any number of
  inputs and outputs, any trees, amounts and orders of remaining accounts, any number of programs and cached
  parts. The invariant `SInv` has the types, that there are finitely many leaves, that only leaves are nullified, that
  accounts have addresses that were created, and `HashedWhereAppended` and `PoolBacksAccounts`, with the lamports that
  were decompressed to the pool. `Batch` collects
  the hashes for a tree in the order of the outputs (`BatchCollects`); an output's leaf index counts the earlier outputs
  with the same tree *index*, and `TreesOrdered` gives every tree one index, so the index is the position in the batch
  (`LeafIndexCounts`, `AppendedWhereHashed`). Hence the new leaves are new and different from one another, the unspent
  accounts after the instruction are those before without the inputs and with the outputs, and both sums split.
  `AddressMoves`: the pool of addresses never has anything new, and if it starts with every `None` behind the addresses
  and with no address twice, the position that is found is the one removed, and an address that was taken is gone
  (`PoolRound`, `AddressesDifferent`). All of this is
  stated for every `process` of an instruction with the right types, whoever invokes it (`ProcessEffect`), so it covers the
  users' instructions (`SystemHashedWhereAppended`, `SystemPoolBacksAccounts`, `SystemAddressMoves`) and those of programs
  (`CpiAccounts`, `CpiAddressMoves`). For these the invariant `CpiInv` adds what the CPI context account holds
  (`ContextOK`): the program that a part came from owns its inputs and its outputs with data, and the fee payer is the
  one of the account; and the same of the copy that a failing transaction restores. What is executed is the
  instruction's own accounts, checked now, and accounts of parts, checked then (`CombinedContribution`). From it:
  `CpiOwnersConsent`.
* **TokenProofs**, from `CompressedTokenAssumption`, for any holders, mints and amounts, any number of inputs and
  outputs, fee payers and cached parts. The invariant `IInv` has the types (the accounts are a bag, no amount is negative),
  `PoolBacksTokens` and `ContextOK`: what the CPI context holds is put together from parts of which each takes from its
  inputs and gives to its outputs the same amount but for what it moved, takes only from owners and delegators of a
  signer, leaves frozen accounts alone unless the freeze authority signed it, and was signed for the fee payer of
  the account. Such parts put together are such a part again, and so is the instruction that executes them; an
  instruction without a CPI context is the case of a single part. Accounts are
  worth the sum, over the different accounts of the bag, of the amount times the number of copies. Taking a part of the bag
  and adding another changes what any class of accounts is worth by what the two are worth in it (`HeldReplaced`);
  outputs are made from a sequence and restated accounts from a bag, where different accounts may
  become the same, and `SumFibres` says that no token is lost when their copies are added. Every instruction either
  spends accounts of the signer, or delegated to it, that were hashed as initialized, and the check of the sums relates
  inputs, outputs, pool and SPL tokens (`SpentStep`), or restates accounts of the mint with their owner, delegate and
  amount. From it: `PoolBacks`, `FrozenAccountsStay`, `DelegatesAreBounded`. They are about `Spec`, in which
  the instructions that the program accepts come in any order, with and without a CPI context; of the instructions that
  the clients put together (`ClientSpec`), which have none, the run `token` checks the same.

Only model-checked: liveness, which is out of the prover's reach, and what the clients in
`SystemClient` and `TokenClient` are promised, `IndexersFollow` and `RequestsAccepted`.

## 5. Plan

1. Core (done): `HashSet`, `CyclicBoundedVec`, `ConcurrentMerkleTree`, `StateTree`, `Registry`,
   `SystemProgram`, `CpiContext` with the theorems above.
2. Addresses (done): `IndexedMerkleTree` over the operators of `ConcurrentMerkleTree`, `AddressTree` with its
   theorems, `IndexedArray` and the copy off chain.
3. Rollover and fees (done): `AccountCompression`, `RegistryCpi`, `RegistryClient`.
4. Tokens and clients (done): `CompressedToken`, `TokenClient`, `SystemClient`.
5. The forester service (done): `Forester`.
6. Proofs over the composed systems (done): `RegistryClientProofs`, `ForesterProofs`, `SumTheorems` with `WorkAccounted`,
   `SystemProofs`, `QueueNeverJams`.
7. Proofs over trees of every height (done): `MerkleTreeProofs`.
8. Proofs over bags of token accounts (done): `TokenProofs`.
9. Open: that the requests of `SystemClient` and `TokenClient` are instructions of the kind `SystemProofs` and `TokenProofs` are about.

## 6. Not modelled

* Byte layouts (zero copy, alignment, account sizes), the heap allocator, benchmarks and macros.
* The Groth16 verifier, the circuits and the prover service (taken to be sound and complete) and the hash
  functions (ideal).
* Photon and its generated client, RPC connections and pools, the CLI, the web examples.
* The forester's configuration, metrics and pub/sub transport; that it loses updates is modelled.
* Instructions that a wallet sends to `init_cpi_context_account` directly: a context for a tree in addition to
  its own changes nothing that `TreesServiced` says.
* Closing of accounts, which the code does not implement.
