------------------------ MODULE RegistryClientProofs ------------------------
(***************************************************************************)
(* For any wallets, groups, programs, accounts, thresholds and rents, and  *)
(* whatever sequence of transactions is sent: trees and queues are and     *)
(* stay pairs, a rollover makes a new pair on the same terms, trees of the *)
(* registry can be serviced, and a pair that is filled to its threshold    *)
(* has collected what the next one costs.                                  *)
(***************************************************************************)
EXTENDS RegistryClient, TLAPS

TypeOK ==
    /\ registered \in [Program -> Group \cup {None}]
    /\ trees \in [TreeAccount -> TreeType \cup {None}]
    /\ queues \in [QueueAccount -> QueueType \cup {None}]
    /\ protocol # None => protocol.network_fee \in fees
    /\ fees \subseteq NetworkFee
    /\ contexts \in [ContextAccount -> TreeAccount \cup {None}]
    /\ \A b \in bundles : b.merkle_tree \in TreeAccount /\ b.queue \in QueueAccount

\* The queue of a tree is initialized, is of its kind and points back to it.
TreesPaired ==
    \A t \in TreeAccount : trees[t] # None =>
        LET q == trees[t].associated_queue
        IN  /\ queues[q] # None
            /\ queues[q].associated_merkle_tree = t
            /\ queues[q].kind = trees[t].kind
            /\ queues[q].rolledover = trees[t].rolledover
            /\ (trees[t].next_merkle_tree # None) = trees[t].rolledover
            /\ (queues[q].next_queue # None) = trees[t].rolledover

\* No queue is initialized without its tree.
QueuesPaired ==
    \A q \in QueueAccount : queues[q] # None =>
        LET t == queues[q].associated_merkle_tree
        IN  trees[t] # None /\ trees[t].associated_queue = q

\* The account that collects has the fee of the tree's threshold, the other one none.
FeesSet ==
    \A t \in TreeAccount : trees[t] # None =>
        LET q == trees[t].associated_queue
            h == trees[t].rollover_threshold
        IN  IF trees[t].kind = "state"
            THEN trees[t].rollover_fee = RolloverFee(h) /\ queues[q].rollover_fee = 0
            ELSE /\ trees[t].rollover_fee = 0
                 /\ queues[q].rollover_threshold = h
                 /\ queues[q].rollover_fee = RolloverFee(h)

\* Until it is rolled over, a pair keeps what leaves or addresses have paid.
FeesKept ==
    \A t \in TreeAccount : trees[t] # None /\ ~trees[t].rolledover =>
        LET queue == queues[trees[t].associated_queue]
        IN  IF trees[t].kind = "state"
            THEN trees[t].lamports = TreeRent + trees[t].rollover_fee * trees[t].next_index
            ELSE /\ trees[t].next_index >= 2
                 /\ queue.lamports = QueueRent
                        + queue.rollover_fee * (trees[t].next_index - 2 + queue.waiting)

\* SuccessorsPaired, for the four accounts of a rollover.
Succeeds(old, old_queue, new, new_queue, t2, q2) ==
    /\ new # None /\ new_queue # None
    /\ AssertRolledOverTree(old, new, q2)
    /\ AssertRolledOverQueue(old_queue, new_queue, t2)

SuccessorsLinked ==
    \A t \in TreeAccount : trees[t] # None /\ trees[t].next_merkle_tree # None =>
        LET q == trees[t].associated_queue
            t2 == trees[t].next_merkle_tree
            q2 == queues[q].next_queue
        IN  /\ Succeeds(trees[t], queues[q], trees[t2], queues[q2], t2, q2)
            /\ \A s \in TreeAccount \ {t} : trees[s] # None => trees[s].next_merkle_tree # t2

IInv ==
    /\ TypeOK /\ TreesPaired /\ QueuesPaired /\ FeesSet /\ FeesKept
    /\ SuccessorsLinked /\ TreesServiced

\* The stronger form that is inductive implies the property that the run checks.
LEMMA LinkedIsPaired ==
    ASSUME TypeOK, TreesPaired, SuccessorsLinked
    PROVE  SuccessorsPaired
<1>1. \A t \in TreeAccount : trees[t] # None => trees[t].kind \in Kind
  BY DEF TypeOK, TreeType
<1> SUFFICES ASSUME NEW t \in TreeAccount, trees[t] # None
             PROVE  LET q == trees[t].associated_queue
                        t2 == trees[t].next_merkle_tree
                        q2 == queues[q].next_queue
                    IN  /\ queues[q].associated_merkle_tree = t
                        /\ queues[q].rolledover = trees[t].rolledover
                        /\ (t2 # None) = trees[t].rolledover
                        /\ t2 # None =>
                            /\ \/ assert_rolled_over_pair(t, q, t2, q2)
                               \/ assert_rolled_over_address_merkle_tree_and_queue(t, q, t2, q2)
                            /\ \A s \in TreeAccount \ {t} :
                                trees[s] # None => trees[s].next_merkle_tree # t2
  BY DEF SuccessorsPaired
<1> QED
  BY <1>1 DEF TreesPaired, SuccessorsLinked, Succeeds, Kind, assert_rolled_over_pair,
              assert_rolled_over_address_merkle_tree_and_queue

-----------------------------------------------------------------------------
\* Fees.

\* Division that rounds up covers what is divided.
LEMMA CeilDivCovers ==
    ASSUME NEW a \in Nat, NEW b \in Nat \ {0}
    PROVE  CeilDiv(a, b) \in Nat /\ CeilDiv(a, b) * b >= a
<1> DEFINE x == a + b - 1
           k == x \div b
<1>1. x \in Nat /\ k \in Nat /\ x % b \in 0 .. b - 1 /\ x = b * k + (x % b)
  OBVIOUS
<1>2. k * b = b * k /\ b * k \in Nat
  BY <1>1
<1>3. CeilDiv(a, b) = k
  BY DEF CeilDiv
<1> QED
  BY <1>1, <1>2, <1>3

\* The fee is a number, and as many leaves as the threshold asks for pay the
\* rent of both accounts: the fee is rounded up.
LEMMA FeeCovers ==
    ASSUME NEW h \in Nat \cup {None}
    PROVE  /\ RolloverFee(h) \in Nat
           /\ h # None =>
                \A paid \in Nat \ {0} : 100 * paid >= Leaves * h =>
                    RolloverFee(h) * paid >= TreeRent + QueueRent
<1>0. TreeRent \in Nat /\ QueueRent \in Nat /\ Leaves \in Nat \ {0}
  BY AccountCompressionAssumption
<1>1. CASE h = None
  BY <1>1 DEF RolloverFee
<1>2. CASE h # None /\ h = 0
  <2>1. RolloverFee(h) = TreeRent + QueueRent
    BY <1>2 DEF RolloverFee, compute_rollover_fee
  <2>2. ASSUME NEW paid \in Nat \ {0} PROVE (TreeRent + QueueRent) * paid >= TreeRent + QueueRent
    BY <1>0
  <2> QED
    BY <1>0, <2>1, <2>2
<1>3. CASE h # None /\ h # 0
  <2> DEFINE b == Leaves * h
             m == CeilDiv(TreeRent * 100, b)
             n == CeilDiv(QueueRent * 100, b)
  <2>1. h \in Nat \ {0}
    BY <1>3
  <2>2. b \in Nat \ {0} /\ TreeRent * 100 \in Nat /\ QueueRent * 100 \in Nat
    BY <1>0, <2>1
  <2>3. RolloverFee(h) = m + n
    BY <1>3, <2>1 DEF RolloverFee, compute_rollover_fee
  <2> HIDE DEF b
  <2>4. /\ m \in Nat /\ m * b >= TreeRent * 100
        /\ n \in Nat /\ n * b >= QueueRent * 100
    BY <2>2, CeilDivCovers
  <2> HIDE DEF m, n
  <2>5. (m + n) * b = m * b + n * b /\ (m + n) * b \in Nat
    BY <2>2, <2>4
  <2>6. ASSUME NEW paid \in Nat \ {0}, 100 * paid >= b
        PROVE  (m + n) * paid >= TreeRent + QueueRent
    <3> DEFINE f == m + n
    <3>1. f \in Nat /\ f * b >= 100 * (TreeRent + QueueRent)
      BY <1>0, <2>2, <2>4, <2>5
    <3> HIDE DEF f
    <3>2. f * (100 * paid) >= f * b
      BY <2>2, <2>6, <3>1
    <3>3. f * (100 * paid) = 100 * (f * paid) /\ f * paid \in Nat /\ f * b \in Nat
      BY <2>2, <3>1
    <3>4. f * paid >= TreeRent + QueueRent
      BY <1>0, <3>1, <3>2, <3>3
    <3> QED
      BY <3>4 DEF f
  <2> QED
    BY <2>3, <2>4, <2>6 DEF b
<1> QED
  BY <1>1, <1>2, <1>3

-----------------------------------------------------------------------------
\* What a step does to trees, queues and contexts: nothing, a change of
\* counters, a new pair, or a rollover.

ServiceType == [network_fee : Nat, forester : Wallet \cup {None}]

IdleStep == UNCHANGED <<trees, queues, contexts>>

CounterStep ==
    /\ UNCHANGED contexts
    /\ \E caller \in Caller :
        \/ \E batch \in Batches : append_leaves_to_merkle_trees(caller, batch)
        \/ \E t \in TreeAccount, q \in QueueAccount :
            \/ \E k \in Kind, n \in 1 .. MaxBatch : insert_into_queues(k, caller, q, t, n)
            \/ nullify_leaves(caller, t, q)
            \/ update_address_merkle_tree(caller, t, q)

\* A new tree of a group has terms and, if it needs one, a context.
ContextFor(t) == \E c \in ContextAccount : init_cpi_context_account(c, t)

Serves(kind, owner, service, t) ==
    /\ UNCHANGED contexts \/ ContextFor(t)
    /\ owner \in Group =>
        /\ service.forester # None \/ service.network_fee \in fees
        /\ kind = "state" => ContextFor(t)

CreateStep ==
    \E kind \in Kind, t \in TreeAccount, q \in QueueAccount, owner \in Caller \cup Group,
       service \in ServiceType, h \in Nat \cup {None} :
        /\ Fresh(t, q)
        /\ trees' = TreesWith(kind, t, q, owner, service, h)
        /\ queues' = QueuesWith(kind, t, q, owner, h)
        /\ Serves(kind, owner, service, t)

RollStep ==
    \E t, t2 \in TreeAccount, q, q2 \in QueueAccount, caller \in Caller :
        /\ UNCHANGED contexts \/ ContextFor(t2)
        /\ trees[t].kind = "state" /\ trees[t].owner \in Group => ContextFor(t2)
        /\ \/ rollover_state_merkle_tree(caller, t, q, t2, q2)
           \/ rollover_address_merkle_tree(caller, t, q, t2, q2)

\* The rest of the state keeps its type.
BooksOK ==
    /\ registered \in [Program -> Group \cup {None}]
    /\ protocol # None => protocol.network_fee \in fees
    /\ fees \subseteq NetworkFee
    /\ \A b \in bundles : b.merkle_tree \in TreeAccount /\ b.queue \in QueueAccount

\* So does a step, and a fee that was in force remains one.
BooksStep == BooksOK' /\ fees \subseteq fees'

\* Creation through the registry.
LEMMA RegistryCreates ==
    ASSUME TypeOK, NEW t \in TreeAccount, NEW q \in QueueAccount,
           NEW h \in Nat \cup {None}, NEW fee \in NetworkFee \cup {None},
           NEW forester \in Wallet \cup {None}
    PROVE  /\ initialize_address_merkle_tree(t, q, h, fee, forester) => CreateStep
           /\ \A c \in ContextAccount :
                initialize_state_merkle_tree(t, q, c, h, fee, forester) => CreateStep
<1> DEFINE owner == registered[Registry]
           service == ServiceOf(fee, forester)
<1>1. Registry \in Program /\ NetworkFee \subseteq Nat
  BY RegistryCpiAssumption
<1>2. owner \in Group \cup {None}
  BY <1>1 DEF TypeOK
<1>3. MayAccess(Registry, owner) => owner \in Caller \cup Group
  BY <1>1, <1>2 DEF MayAccess, Caller
<1>4. service \in ServiceType
  BY <1>1 DEF ServiceOf, Service, ServiceType
<1>5. /\ protocol # None /\ AddressTerms(fee, forester)
            => service.forester # None \/ service.network_fee \in fees
      /\ protocol # None /\ StateTerms(fee, forester)
            => service.forester # None \/ service.network_fee \in fees
  BY <1>1 DEF TypeOK, AddressTerms, StateTerms, ServiceOf, Service
<1>6. ASSUME initialize_address_merkle_tree(t, q, h, fee, forester) PROVE CreateStep
  <2>1. /\ Fresh(t, q) /\ MayAccess(Registry, owner) /\ contexts' = contexts
        /\ trees' = TreesWith("address", t, q, owner, service, h)
        /\ queues' = QueuesWith("address", t, q, owner, h)
        /\ protocol # None /\ AddressTerms(fee, forester)
    BY <1>6 DEF initialize_address_merkle_tree, process_initialize_address_merkle_tree,
                initialize_address_merkle_tree_and_queue, InitializeChecks, registryVars
  <2>2. Serves("address", owner, service, t)
    BY <1>5, <2>1 DEF Serves
  <2> HIDE DEF owner, service
  <2> QED
    BY <1>3, <1>4, <2>1, <2>2 DEF CreateStep, Kind
<1>7. ASSUME NEW c \in ContextAccount, initialize_state_merkle_tree(t, q, c, h, fee, forester)
      PROVE  CreateStep
  <2>1. /\ Fresh(t, q) /\ MayAccess(Registry, owner) /\ init_cpi_context_account(c, t)
        /\ trees' = TreesWith("state", t, q, owner, service, h)
        /\ queues' = QueuesWith("state", t, q, owner, h)
        /\ protocol # None /\ StateTerms(fee, forester)
    BY <1>7 DEF initialize_state_merkle_tree, process_initialize_state_merkle_tree,
                initialize_state_merkle_tree_and_nullifier_queue, InitializeChecks,
                process_initialize_cpi_context
  <2>2. Serves("state", owner, service, t)
    BY <1>5, <2>1 DEF Serves, ContextFor
  <2> HIDE DEF owner, service
  <2> QED
    BY <1>3, <1>4, <2>1, <2>2 DEF CreateStep, Kind
<1> QED
  BY <1>6, <1>7

\* Creation without the registry: the payer is the owner.
LEMMA WalletCreates ==
    ASSUME TypeOK, NEW w \in Wallet, NEW t \in TreeAccount, NEW q \in QueueAccount,
           NEW h \in Nat \cup {None},
           \/ create_address_tree_directly(w, t, q, h, None, w)
           \/ create_state_tree_directly(w, t, q, h, None, w)
    PROVE  CreateStep
<1> DEFINE service == ServiceOf(None, w)
<1>1. service \in ServiceType /\ w \in Caller \cup Group /\ w \notin Group
  BY AddressAssumption DEF ServiceOf, Service, ServiceType, Caller
<1>2. PICK kind \in Kind :
        /\ Fresh(t, q) /\ contexts' = contexts
        /\ trees' = TreesWith(kind, t, q, w, service, h)
        /\ queues' = QueuesWith(kind, t, q, w, h)
  BY DEF create_address_tree_directly, create_state_tree_directly, registryVars, Kind,
         initialize_address_merkle_tree_and_queue, InitializeChecks,
         initialize_state_merkle_tree_and_nullifier_queue
<1>3. Serves(kind, w, service, t)
  BY <1>1, <1>2 DEF Serves
<1> HIDE DEF service
<1> QED
  BY <1>1, <1>2, <1>3 DEF CreateStep

\* Work through the registry.
LEMMA RegistryWorks ==
    ASSUME NEW w, NEW pda, NEW t \in TreeAccount, NEW q \in QueueAccount
    PROVE  /\ nullify(w, pda, t, q) => CounterStep
           /\ update_address_tree(w, pda, t, q) => CounterStep
<1>1. Registry \in Caller
  BY RegistryCpiAssumption DEF Caller
<1>2. nullify(w, pda, t, q) => UNCHANGED contexts /\ nullify_leaves(Registry, t, q)
  BY DEF nullify, process_nullify, registryVars
<1>3. update_address_tree(w, pda, t, q)
        => UNCHANGED contexts /\ update_address_merkle_tree(Registry, t, q)
  BY DEF update_address_tree, process_update_address_merkle_tree, registryVars
<1> QED
  BY <1>1, <1>2, <1>3 DEF CounterStep

\* A rollover through the registry is a rollover of the account-compression program.
LEMMA RegistryRolls ==
    ASSUME NEW w, NEW pda, NEW t \in TreeAccount, NEW q \in QueueAccount,
           NEW t2 \in TreeAccount, NEW q2 \in QueueAccount
    PROVE  /\ rollover_address_merkle_tree_and_queue(w, pda, t, q, t2, q2) => RollStep
           /\ \A c \in ContextAccount :
                rollover_state_merkle_tree_and_queue(w, pda, t, q, t2, q2, c) => RollStep
<1>1. Registry \in Caller
  BY RegistryCpiAssumption DEF Caller
<1>2. rollover_address_merkle_tree_and_queue(w, pda, t, q, t2, q2) =>
        /\ UNCHANGED contexts /\ trees[t].kind # "state"
        /\ rollover_address_merkle_tree(Registry, t, q, t2, q2)
  BY DEF rollover_address_merkle_tree_and_queue, registryVars, RolloverChecks,
         process_rollover_address_merkle_tree_and_queue, rollover_address_merkle_tree
<1>3. ASSUME NEW c \in ContextAccount,
             rollover_state_merkle_tree_and_queue(w, pda, t, q, t2, q2, c)
      PROVE  /\ ContextFor(t2)
             /\ rollover_state_merkle_tree(Registry, t, q, t2, q2)
  BY <1>3 DEF rollover_state_merkle_tree_and_queue, process_initialize_cpi_context, ContextFor,
              process_rollover_state_merkle_tree_and_queue
<1> QED
  BY <1>1, <1>2, <1>3 DEF RollStep

\* Without the registry, only trees that belong to no group are rolled over.
LEMMA WalletRolls ==
    ASSUME NEW w \in Wallet, NEW t \in TreeAccount, NEW q \in QueueAccount,
           NEW t2 \in TreeAccount, NEW q2 \in QueueAccount
    PROVE  /\ perform_own_address_merkle_tree_roll_over(w, t, q, t2, q2) => RollStep
           /\ \A mode : perform_state_merkle_tree_roll_over(w, mode, t, q, t2, q2) => RollStep
<1>1. w \in Caller /\ w \notin Program /\ w \notin Group
  BY AddressAssumption DEF Caller
<1>2. perform_own_address_merkle_tree_roll_over(w, t, q, t2, q2) =>
        /\ UNCHANGED contexts /\ trees[t].kind # "state"
        /\ rollover_address_merkle_tree(w, t, q, t2, q2)
  BY DEF perform_own_address_merkle_tree_roll_over, registryVars, RolloverChecks,
         rollover_address_merkle_tree
<1>3. ASSUME NEW mode, perform_state_merkle_tree_roll_over(w, mode, t, q, t2, q2)
      PROVE  /\ UNCHANGED contexts /\ trees[t].owner \notin Group
             /\ rollover_state_merkle_tree(w, t, q, t2, q2)
  BY <1>1, <1>3 DEF perform_state_merkle_tree_roll_over, registryVars, RolloverChecks,
                    rollover_state_merkle_tree, MayAccess
<1> QED
  BY <1>1, <1>2, <1>3 DEF RollStep

\* What the books need to keep their type.
LEMMA BooksKept ==
    ASSUME TypeOK, registered' = registered, protocol' = protocol, fees' = fees,
           \/ bundles' = bundles
           \/ \E c : \E t \in TreeAccount, q \in QueueAccount :
                bundles' = bundles \cup {Bundle(t, q, c)}
    PROVE  BooksStep
  BY DEF TypeOK, BooksStep, BooksOK, Bundle

\* The instructions on groups leave trees and queues alone.
LEMMA GroupsOnly ==
    ASSUME TypeOK, UNCHANGED <<registryVars, bundles>>, NEW g \in Group, NEW p \in Program, NEW a,
           NEW signer,
           \/ initialize_group_authority(g, a)
           \/ update_group_authority(g, signer, a)
           \/ register_program_to_group(g, signer, p)
           \/ deregister_program(g, signer, p)
    PROVE  IdleStep /\ BooksStep
<1>1. IdleStep
  BY DEF IdleStep, registryVars, initialize_group_authority, update_group_authority,
         register_program_to_group, deregister_program
<1>2. registered' \in [Program -> Group \cup {None}]
  BY DEF TypeOK, initialize_group_authority, update_group_authority,
         register_program_to_group, deregister_program
<1> QED
  BY <1>1, <1>2 DEF BooksStep, BooksOK, TypeOK, registryVars

\* Which steps leave registered and protocol alone.
WorkFrame == registered' = registered /\ protocol' = protocol /\ fees' = fees

\* Creating a pair leaves the registered programs and the protocol config alone.
LEMMA CreateFrame ==
    ASSUME NEW t, NEW q, NEW c, NEW h, NEW fee, NEW forester, NEW w,
           \/ initialize_address_merkle_tree(t, q, h, fee, forester)
           \/ initialize_state_merkle_tree(t, q, c, h, fee, forester)
           \/ create_address_tree_directly(w, t, q, h, fee, forester)
           \/ create_state_tree_directly(w, t, q, h, fee, forester)
    PROVE  WorkFrame
  BY DEF WorkFrame, initialize_address_merkle_tree, initialize_state_merkle_tree, registryVars,
         create_address_tree_directly, create_state_tree_directly, groupVars,
         process_initialize_address_merkle_tree, process_initialize_state_merkle_tree,
         initialize_address_merkle_tree_and_queue,
         initialize_state_merkle_tree_and_nullifier_queue

\* A rollover leaves the registered programs and the protocol config alone.
LEMMA RollFrame ==
    ASSUME NEW t, NEW q, NEW t2, NEW q2, NEW c, NEW w, NEW pda, NEW mode,
           \/ rollover_address_merkle_tree_and_queue(w, pda, t, q, t2, q2)
           \/ rollover_state_merkle_tree_and_queue(w, pda, t, q, t2, q2, c)
           \/ perform_own_address_merkle_tree_roll_over(w, t, q, t2, q2)
           \/ perform_state_merkle_tree_roll_over(w, mode, t, q, t2, q2)
    PROVE  WorkFrame
  BY DEF WorkFrame, rollover_address_merkle_tree_and_queue, rollover_state_merkle_tree_and_queue,
         perform_own_address_merkle_tree_roll_over, perform_state_merkle_tree_roll_over,
         process_rollover_address_merkle_tree_and_queue, registryVars, groupVars,
         process_rollover_state_merkle_tree_and_queue, rollover_address_merkle_tree,
         rollover_state_merkle_tree

\* The work of a forester leaves the registered programs and the protocol config alone.
LEMMA CounterFrame ==
    ASSUME NEW t, NEW q, NEW w, NEW pda,
           \/ nullify(w, pda, t, q)
           \/ update_address_tree(w, pda, t, q)
           \/ update_own_merkle_tree(w, t, q)
    PROVE  WorkFrame
  BY DEF WorkFrame, nullify, update_address_tree, update_own_merkle_tree, process_nullify,
         process_update_address_merkle_tree, registryVars, groupVars, nullify_leaves,
         update_address_merkle_tree

StepKind == IdleStep \/ CounterStep \/ CreateStep \/ RollStep

\* Every transaction of the set-up is one of the four kinds of step.
LEMMA GovernCases ==
    ASSUME TypeOK, NEW w \in Wallet, Govern(w), UNCHANGED bundles
    PROVE  StepKind /\ BooksStep
<1>0. Registry \in Program /\ System \in Program /\ DefaultFee \in NetworkFee
  BY RegistryCpiAssumption, RegistryClientAssumption
<1>1. CASE \E g \in Group : initialize_new_group(g)
  BY <1>0, <1>1, GroupsOnly
     DEF initialize_new_group, create_initialize_group_authority_instruction, StepKind,
         registryVars
<1>2. CASE \E g \in Group, p \in Program :
                \/ register_program_with_registry_program(w, g, p)
                \/ deregister_program_with_registry_program(w, g, p)
  BY <1>2, GroupsOnly
     DEF register_program_with_registry_program, create_register_program_instruction,
         register_system_program, deregister_program_with_registry_program, registryVars,
         create_deregister_program_instruction, deregister_system_program, StepKind
<1>3. ASSUME NEW a, NEW fee \in NetworkFee,
             SetConfig(a, fee)
      PROVE  StepKind /\ BooksStep
  BY <1>3 DEF SetConfig, StepKind, IdleStep, BooksStep, BooksOK, TypeOK, compressionVars, vars
<1>4. CASE create_initialize_governance_authority_instruction(w, DefaultFee)
  BY <1>0, <1>3, <1>4
     DEF create_initialize_governance_authority_instruction, initialize_protocol_config
<1>5. CASE \E v \in Wallet \cup {None}, fee \in NetworkFee \cup {None} :
                create_update_protocol_config_instruction(w, v, fee)
  BY <1>3, <1>5 DEF create_update_protocol_config_instruction, update_protocol_config,
                    IsAuthority, TypeOK
<1> QED
  BY <1>0, <1>1, <1>2, <1>4, <1>5 DEF Govern, initialize_protocol

\* So is every transaction on a pair that the clients know,
LEMMA KnownCases ==
    ASSUME TypeOK, NEW w \in Wallet, NEW b \in bundles, WorkOnKnown(w, b)
    PROVE  StepKind /\ BooksStep
<1>0. b.merkle_tree \in TreeAccount /\ b.queue \in QueueAccount /\ RightSize \subseteq ContextAccount
  BY RegistryCpiAssumption DEF TypeOK
<1>1. CASE \/ nullify_compressed_accounts(w, FALSE, b)
           \/ empty_address_queue_test(w, FALSE, b)
  <2>1. CounterStep /\ WorkFrame /\ bundles' = bundles
    BY <1>0, <1>1, RegistryWorks, CounterFrame
       DEF nullify_compressed_accounts, create_nullify_instruction, empty_address_queue_test,
           update_merkle_tree, create_update_address_merkle_tree_instruction
  <2> QED
    BY <2>1, BooksKept DEF StepKind, WorkFrame
<1>2. ASSUME NEW t \in TreeAccount, NEW q \in QueueAccount,
             forester_rollover_address_merkle_tree(w, b, t, q)
      PROVE  StepKind /\ BooksStep
  <2>1. /\ rollover_address_merkle_tree_and_queue(w, TRUE, b.merkle_tree, b.queue, t, q)
        /\ bundles' = bundles \cup {Bundle(t, q, None)}
    BY <1>2 DEF forester_rollover_address_merkle_tree, perform_address_merkle_tree_roll_over,
                create_rollover_address_merkle_tree_instruction
  <2>2. RollStep /\ WorkFrame
    BY <1>0, <2>1, RegistryRolls, RollFrame
  <2> QED
    BY <2>1, <2>2, BooksKept DEF StepKind, WorkFrame
<1>3. ASSUME NEW t \in TreeAccount, NEW q \in QueueAccount, NEW c \in RightSize,
             e2e_rollover_state_merkle_tree_and_queue(w, b, t, q, c)
      PROVE  StepKind /\ BooksStep
  <2>1. /\ rollover_state_merkle_tree_and_queue(w, TRUE, b.merkle_tree, b.queue, t, q, c)
        /\ bundles' = bundles \cup {Bundle(t, q, c)}
    BY <1>3 DEF e2e_rollover_state_merkle_tree_and_queue,
                perform_state_merkle_tree_roll_over_forester,
                create_rollover_state_merkle_tree_instructions,
                create_rollover_state_merkle_tree_instruction
  <2>2. RollStep /\ WorkFrame
    BY <1>0, <2>1, RegistryRolls, RollFrame
  <2> QED
    BY <2>1, <2>2, BooksKept DEF StepKind, WorkFrame
<1> QED
  BY <1>1, <1>2, <1>3 DEF WorkOnKnown

\* every creation of a pair that they come to know,
LEMMA CreateKnownCases ==
    ASSUME TypeOK, NEW t \in TreeAccount, NEW q \in QueueAccount, NEW c \in RightSize,
           CreateKnown(t, q, c)
    PROVE  StepKind /\ BooksStep
<1>0. /\ c \in ContextAccount /\ DefaultFee \in NetworkFee
      /\ DefaultThreshold \in Nat \cup {None} /\ Thresholds \subseteq Nat \cup {None}
  BY RegistryCpiAssumption, RegistryClientAssumption, AccountCompressionAssumption
<1>1. /\ \E h \in Nat \cup {None}, forester \in Wallet \cup {None} :
            \/ initialize_address_merkle_tree(t, q, h, DefaultFee, forester)
            \/ initialize_state_merkle_tree(t, q, c, h, DefaultFee, forester)
      /\ \E x : bundles' = bundles \cup {Bundle(t, q, x)}
  BY <1>0 DEF CreateKnown, initialize_accounts, create_state_tree, create_address_tree,
              create_state_merkle_tree_and_queue_account,
              create_address_merkle_tree_and_queue_account
<1>2. CreateStep /\ WorkFrame
  BY <1>0, <1>1, RegistryCreates, CreateFrame
<1> QED
  BY <1>1, <1>2, BooksKept DEF StepKind, WorkFrame

\* every transaction on a wallet's own pair,
LEMMA OwnCases ==
    ASSUME TypeOK, NEW w \in Wallet, NEW t \in TreeAccount, NEW q \in QueueAccount,
           CreateOwn(w, t, q) \/ WorkOnOwn(w, t, q), UNCHANGED bundles
    PROVE  StepKind /\ BooksStep
<1>0. Thresholds \subseteq Nat \cup {None} /\ w \in Caller
  BY AccountCompressionAssumption DEF Caller
<1> SUFFICES StepKind /\ WorkFrame
  BY BooksKept DEF WorkFrame
<1>1. ASSUME NEW h \in Thresholds,
             \/ create_address_tree_directly(w, t, q, h, None, w)
             \/ create_state_tree_directly(w, t, q, h, None, w)
      PROVE  StepKind /\ WorkFrame
  BY <1>0, <1>1, WalletCreates, CreateFrame DEF StepKind
<1>2. ASSUME NEW h \in Thresholds, NEW fee \in NetworkFee \cup {None}, NEW forester \in {w, None},
             \/ create_address_merkle_tree_and_queue_account(t, q, h, fee, forester)
             \/ \E c \in ContextAccount :
                    create_state_merkle_tree_and_queue_account(t, q, c, h, fee, forester)
      PROVE  StepKind /\ WorkFrame
  <2>1. h \in Nat \cup {None} /\ forester \in Wallet \cup {None}
    BY <1>0
  <2>2. \/ initialize_address_merkle_tree(t, q, h, fee, forester)
        \/ \E c \in ContextAccount : initialize_state_merkle_tree(t, q, c, h, fee, forester)
    BY <1>2 DEF create_state_merkle_tree_and_queue_account,
                create_address_merkle_tree_and_queue_account
  <2> QED
    BY <2>1, <2>2, RegistryCreates, CreateFrame DEF StepKind
<1>3. CASE \/ create_nullify_instruction(w, TRUE, t, q)
           \/ update_merkle_tree(w, TRUE, t, q)
  BY <1>3, RegistryWorks, CounterFrame
     DEF create_nullify_instruction, update_merkle_tree, StepKind,
         create_update_address_merkle_tree_instruction
<1>4. CASE update_own_merkle_tree(w, t, q)
  <2>1. CounterStep
    BY <1>0, <1>4 DEF update_own_merkle_tree, CounterStep, registryVars
  <2> QED
    BY <1>4, <2>1, CounterFrame DEF StepKind
<1>5. ASSUME NEW t2 \in TreeAccount, NEW q2 \in QueueAccount,
             \/ perform_address_merkle_tree_roll_over_forester(w, TRUE, t, q, t2, q2)
             \/ perform_own_address_merkle_tree_roll_over(w, t, q, t2, q2)
             \/ \E mode \in StateMerkleTreeRolloverMode :
                    perform_state_merkle_tree_roll_over(w, mode, t, q, t2, q2)
             \/ \E c \in ContextAccount :
                    create_rollover_state_merkle_tree_instruction(w, TRUE, t, q, t2, q2, c)
      PROVE  StepKind /\ WorkFrame
  BY <1>5, RegistryRolls, WalletRolls, RollFrame
     DEF perform_address_merkle_tree_roll_over_forester, StepKind,
         create_rollover_address_merkle_tree_instructions,
         create_rollover_address_merkle_tree_instruction,
         create_rollover_state_merkle_tree_instruction
<1> QED
  BY <1>1, <1>2, <1>3, <1>4, <1>5 DEF CreateOwn, WorkOnOwn

\* and every direct call of the account-compression program.
LEMMA CallCases ==
    ASSUME TypeOK, UNCHANGED <<registryVars, bundles>>,
           \/ \E w \in Wallet : WalletCall(w) \/ AppendOrInsert(w)
           \/ AppendOrInsert(System)
    PROVE  StepKind /\ BooksStep
<1>0. Wallet \subseteq Caller /\ System \in Caller
  BY RegistryCpiAssumption DEF Caller
<1>1. ASSUME NEW caller \in Caller, AppendOrInsert(caller)
      PROVE  StepKind /\ BooksStep
  <2>1. CounterStep
    BY <1>1 DEF AppendOrInsert, CounterStep, registryVars
  <2>2. registered' = registered
    BY <1>1 DEF AppendOrInsert, append_leaves_to_merkle_trees, insert_into_queues
  <2> QED
    BY <2>1, <2>2, BooksKept DEF StepKind, registryVars
<1>2. ASSUME NEW w \in Wallet, NEW t \in TreeAccount, NEW q \in QueueAccount,
             nullify_leaves(w, t, q)
      PROVE  StepKind /\ BooksStep
  <2>1. CounterStep
    BY <1>0, <1>2 DEF CounterStep, registryVars
  <2>2. registered' = registered
    BY <1>2 DEF nullify_leaves
  <2> QED
    BY <2>1, <2>2, BooksKept DEF StepKind, registryVars
<1>3. ASSUME NEW w \in Wallet, WalletCall(w)
      PROVE  StepKind /\ BooksStep
  <2>1. Program # {}
    BY RegistryCpiAssumption
  <2> QED
    BY <1>2, <1>3, <2>1, GroupsOnly DEF WalletCall, StepKind
<1> QED
  BY <1>0, <1>1, <1>3

\* Every step is of one of the four kinds.
LEMMA StepCases ==
    ASSUME TypeOK, [ClientNext]_clientVars
    PROVE  StepKind /\ BooksStep
<1>1. CASE UNCHANGED clientVars
  BY <1>1, BooksKept DEF clientVars, compressionVars, vars, registryVars, StepKind, IdleStep
<1>2. CASE ClientNext
  BY <1>2, GovernCases, KnownCases, CreateKnownCases, OwnCases, CallCases DEF ClientNext
<1> QED
  BY <1>1, <1>2

-----------------------------------------------------------------------------
\* The accounts that a step writes.

\* The accounts of a new pair.
NewTree(kind, owner, service, h, q) ==
    IF kind = "state" THEN StateMerkleTree(owner, service, h, q)
                      ELSE AddressMerkleTree(owner, service, h, q)
NewQueue(kind, owner, h, t) ==
    IF kind = "state" THEN NullifierQueue(owner, h, t) ELSE AddressQueue(owner, h, t)

IsNewTree(r, kind, owner, service, h, q) ==
    /\ r \in TreeType /\ r # None
    /\ r.kind = kind /\ r.owner = owner /\ r.service = service
    /\ r.rollover_threshold = h
    /\ r.rollover_fee = IF kind = "state" THEN RolloverFee(h) ELSE 0
    /\ r.associated_queue = q /\ r.rolledover = FALSE /\ r.next_merkle_tree = None
    /\ r.next_index = IF kind = "state" THEN 0 ELSE 2
    /\ r.lamports = TreeRent
IsNewQueue(r, kind, owner, h, t) ==
    /\ r \in QueueType /\ r # None
    /\ r.kind = kind /\ r.owner = owner
    /\ kind = "address" => r.rollover_threshold = h
    /\ r.rollover_fee = IF kind = "state" THEN 0 ELSE RolloverFee(h)
    /\ r.associated_merkle_tree = t /\ r.rolledover = FALSE /\ r.next_queue = None
    /\ r.waiting = 0 /\ r.lamports = QueueRent

\* The fields of a new tree account.
LEMMA NewTreeFields ==
    ASSUME NEW kind \in Kind, NEW owner \in Caller \cup Group, NEW service \in ServiceType,
           NEW h \in Nat \cup {None}, NEW q \in QueueAccount
    PROVE  IsNewTree(NewTree(kind, owner, service, h, q), kind, owner, service, h, q)
<1> DEFINE r == NewTree(kind, owner, service, h, q)
<1>1. RolloverFee(h) \in Nat /\ TreeRent \in Nat
  BY FeeCovers, AccountCompressionAssumption
<1>2. r = Tree(kind, owner, service, h, IF kind = "state" THEN RolloverFee(h) ELSE 0, q,
               IF kind = "state" THEN 0 ELSE 2)
  BY DEF NewTree, StateMerkleTree, AddressMerkleTree, Kind
<1>3. r \in TreeType
  BY <1>1, <1>2 DEF Tree, TreeType, ServiceType
<1>4. r # None
  BY <1>3, AddressAssumption
<1> QED
  BY <1>2, <1>3, <1>4 DEF Tree, IsNewTree

\* The fields of a new queue account.
LEMMA NewQueueFields ==
    ASSUME NEW kind \in Kind, NEW owner \in Caller \cup Group,
           NEW h \in Nat \cup {None}, NEW t \in TreeAccount
    PROVE  IsNewQueue(NewQueue(kind, owner, h, t), kind, owner, h, t)
<1> DEFINE r == NewQueue(kind, owner, h, t)
<1>1. RolloverFee(h) \in Nat /\ QueueRent \in Nat
  BY FeeCovers, AccountCompressionAssumption
<1>2. CASE kind = "state"
  <2>1. r = Queue("state", owner, IF h = None THEN 0 ELSE h, 0, t)
    BY <1>2 DEF NewQueue, NullifierQueue
  <2>2. r \in QueueType
    BY <1>1, <2>1 DEF Queue, QueueType, Kind
  <2> QED
    BY <1>2, <2>1, <2>2, AddressAssumption DEF Queue, IsNewQueue
<1>3. CASE kind = "address"
  <2>1. r = Queue("address", owner, h, RolloverFee(h), t)
    BY <1>3 DEF NewQueue, AddressQueue
  <2>2. r \in QueueType
    BY <1>1, <2>1 DEF Queue, QueueType, Kind
  <2> QED
    BY <1>3, <2>1, <2>2, AddressAssumption DEF Queue, IsNewQueue
<1> QED
  BY <1>2, <1>3 DEF Kind

\* The accounts of a pair that is rolled over: one of them pays.
IsRolledTree(r, tree, t2) ==
    /\ r \in TreeType /\ r.rolledover = TRUE /\ r.next_merkle_tree = t2
    /\ r.kind = tree.kind /\ r.owner = tree.owner /\ r.service = tree.service
    /\ r.rollover_threshold = tree.rollover_threshold
    /\ r.rollover_fee = tree.rollover_fee /\ r.associated_queue = tree.associated_queue
IsRolledQueue(r, queue, q2) ==
    /\ r \in QueueType /\ r.rolledover = TRUE /\ r.next_queue = q2
    /\ r.kind = queue.kind /\ r.owner = queue.owner
    /\ r.rollover_threshold = queue.rollover_threshold
    /\ r.rollover_fee = queue.rollover_fee
    /\ r.associated_merkle_tree = queue.associated_merkle_tree

\* A tree that is rolled over keeps its terms and names its successor, reimbursement or not.
LEMMA RolledTreeFields ==
    ASSUME NEW tree \in TreeType, NEW t2 \in TreeAccount
    PROVE  /\ IsRolledTree(RolledTree(tree, t2), tree, t2)
           /\ Reimburses(tree, TreeRent) => IsRolledTree(Reimbursed(RolledTree(tree, t2)), tree, t2)
<1> DEFINE s == RolledTree(tree, t2)
<1>1. s \in TreeType /\ s.lamports = tree.lamports
  BY DEF RolledTree, TreeType
<1>2. /\ s.rolledover = TRUE /\ s.next_merkle_tree = t2
      /\ s.kind = tree.kind /\ s.owner = tree.owner /\ s.service = tree.service
      /\ s.rollover_threshold = tree.rollover_threshold
      /\ s.rollover_fee = tree.rollover_fee /\ s.associated_queue = tree.associated_queue
  BY DEF RolledTree, TreeType
<1>3. ASSUME Reimburses(tree, TreeRent) PROVE IsRolledTree(Reimbursed(s), tree, t2)
  <2> DEFINE r == Reimbursed(s)
  <2>1. s.lamports - (TreeRent + QueueRent) \in Nat
    BY <1>1, <1>3, AccountCompressionAssumption DEF Reimburses, TreeType
  <2> HIDE DEF s
  <2>2. r \in TreeType
    BY <1>1, <2>1 DEF Reimbursed, TreeType
  <2>3. /\ r.rolledover = s.rolledover /\ r.next_merkle_tree = s.next_merkle_tree
        /\ r.kind = s.kind /\ r.owner = s.owner /\ r.service = s.service
        /\ r.rollover_threshold = s.rollover_threshold
        /\ r.rollover_fee = s.rollover_fee /\ r.associated_queue = s.associated_queue
    BY <1>1 DEF Reimbursed, TreeType
  <2> QED
    BY <1>2, <2>2, <2>3 DEF IsRolledTree
<1> QED
  BY <1>1, <1>2, <1>3 DEF IsRolledTree

\* So does its queue.
LEMMA RolledQueueFields ==
    ASSUME NEW queue \in QueueType, NEW q2 \in QueueAccount
    PROVE  /\ IsRolledQueue(RolledQueue(queue, q2), queue, q2)
           /\ Reimburses(queue, QueueRent)
                => IsRolledQueue(Reimbursed(RolledQueue(queue, q2)), queue, q2)
<1> DEFINE s == RolledQueue(queue, q2)
<1>1. s \in QueueType /\ s.lamports = queue.lamports
  BY DEF RolledQueue, QueueType
<1>2. /\ s.rolledover = TRUE /\ s.next_queue = q2
      /\ s.kind = queue.kind /\ s.owner = queue.owner
      /\ s.rollover_threshold = queue.rollover_threshold
      /\ s.rollover_fee = queue.rollover_fee
      /\ s.associated_merkle_tree = queue.associated_merkle_tree
  BY DEF RolledQueue, QueueType
<1>3. ASSUME Reimburses(queue, QueueRent) PROVE IsRolledQueue(Reimbursed(s), queue, q2)
  <2> DEFINE r == Reimbursed(s)
  <2>1. s.lamports - (TreeRent + QueueRent) \in Nat
    BY <1>1, <1>3, AccountCompressionAssumption DEF Reimburses, QueueType
  <2> HIDE DEF s
  <2>2. r \in QueueType
    BY <1>1, <2>1 DEF Reimbursed, QueueType
  <2>3. /\ r.rolledover = s.rolledover /\ r.next_queue = s.next_queue
        /\ r.kind = s.kind /\ r.owner = s.owner
        /\ r.rollover_threshold = s.rollover_threshold
        /\ r.rollover_fee = s.rollover_fee
        /\ r.associated_merkle_tree = s.associated_merkle_tree
    BY <1>1 DEF Reimbursed, QueueType
  <2> QED
    BY <1>2, <2>2, <2>3 DEF IsRolledQueue
<1> QED
  BY <1>1, <1>2, <1>3 DEF IsRolledQueue

-----------------------------------------------------------------------------
\* Steps that leave the terms and the links of all accounts as they are.

SameTree(r, s) ==
    /\ r.kind = s.kind /\ r.owner = s.owner /\ r.service = s.service
    /\ r.rollover_threshold = s.rollover_threshold /\ r.rollover_fee = s.rollover_fee
    /\ r.associated_queue = s.associated_queue
SameQueue(r, s) ==
    /\ r.kind = s.kind /\ r.owner = s.owner
    /\ r.rollover_threshold = s.rollover_threshold /\ r.rollover_fee = s.rollover_fee
    /\ r.associated_merkle_tree = s.associated_merkle_tree

\* Initialized accounts keep terms and links.
TermsKept ==
    /\ \A t \in TreeAccount : trees[t] # None =>
        /\ trees'[t] # None /\ SameTree(trees'[t], trees[t])
        /\ trees'[t].rolledover = trees[t].rolledover
        /\ trees'[t].next_merkle_tree = trees[t].next_merkle_tree
    /\ \A q \in QueueAccount : queues[q] # None =>
        /\ queues'[q] # None /\ SameQueue(queues'[q], queues[q])
        /\ queues'[q].rolledover = queues[q].rolledover
        /\ queues'[q].next_queue = queues[q].next_queue

\* Accounts that are initialized in this step are paired on proper terms.
NewPaired ==
    /\ \A t \in TreeAccount : trees[t] = None /\ trees'[t] # None =>
        LET q == trees'[t].associated_queue
            h == trees'[t].rollover_threshold
        IN  /\ trees'[t].rolledover = FALSE /\ trees'[t].next_merkle_tree = None
            /\ queues'[q] # None /\ queues'[q].associated_merkle_tree = t
            /\ queues'[q].rolledover = FALSE /\ queues'[q].next_queue = None
            /\ queues'[q].kind = trees'[t].kind
            /\ IF trees'[t].kind = "state"
               THEN trees'[t].rollover_fee = RolloverFee(h) /\ queues'[q].rollover_fee = 0
               ELSE /\ trees'[t].rollover_fee = 0 /\ queues'[q].rollover_threshold = h
                    /\ queues'[q].rollover_fee = RolloverFee(h)
    /\ \A q \in QueueAccount : queues[q] = None /\ queues'[q] # None =>
        LET t == queues'[q].associated_merkle_tree
        IN  trees'[t] # None /\ trees'[t].associated_queue = q

NewServed ==
    /\ fees \subseteq fees'
    /\ \A c \in ContextAccount : contexts[c] # None => contexts'[c] = contexts[c]
    /\ \A t \in TreeAccount :
        trees[t] = None /\ trees'[t] # None /\ trees'[t].owner \in Group =>
            /\ trees'[t].service.forester # None \/ trees'[t].service.network_fee \in fees'
            /\ trees'[t].kind = "state" => \E c \in ContextAccount : contexts'[c] = t

\* A step that keeps the terms of all accounts, and creates pairs only, keeps pairs and service.
LEMMA TermsKeptPreserves ==
    ASSUME IInv, TypeOK', TermsKept, NewPaired, NewServed
    PROVE  TreesPaired' /\ QueuesPaired' /\ FeesSet' /\ SuccessorsLinked' /\ TreesServiced'
<1>0. /\ \A t \in TreeAccount : trees[t] # None => trees[t] \in TreeType
      /\ \A t \in TreeAccount : trees'[t] # None => trees'[t] \in TreeType
      /\ \A q \in QueueAccount : queues[q] # None => queues[q] \in QueueType
      /\ \A q \in QueueAccount : queues'[q] # None => queues'[q] \in QueueType
      /\ None \notin TreeAccount /\ None \notin QueueAccount
  BY AddressAssumption DEF IInv, TypeOK
<1>1. TreesPaired'
  <2> SUFFICES ASSUME NEW t \in TreeAccount, trees'[t] # None
               PROVE  LET q == trees'[t].associated_queue
                      IN  /\ queues'[q] # None
                          /\ queues'[q].associated_merkle_tree = t
                          /\ queues'[q].kind = trees'[t].kind
                          /\ queues'[q].rolledover = trees'[t].rolledover
                          /\ (trees'[t].next_merkle_tree # None) = trees'[t].rolledover
                          /\ (queues'[q].next_queue # None) = trees'[t].rolledover
    BY DEF TreesPaired
  <2>1. CASE trees[t] = None
    BY <2>1 DEF NewPaired
  <2>2. CASE trees[t] # None
    <3>1. trees[t].associated_queue \in QueueAccount
      BY <1>0, <2>2 DEF TreeType
    <3> QED
      BY <2>2, <3>1 DEF TermsKept, SameTree, SameQueue, IInv, TreesPaired
  <2> QED
    BY <2>1, <2>2
<1>2. QueuesPaired'
  <2> SUFFICES ASSUME NEW q \in QueueAccount, queues'[q] # None
               PROVE  LET t == queues'[q].associated_merkle_tree
                      IN  trees'[t] # None /\ trees'[t].associated_queue = q
    BY DEF QueuesPaired
  <2>1. CASE queues[q] = None
    BY <2>1 DEF NewPaired
  <2>2. CASE queues[q] # None
    <3>1. queues[q].associated_merkle_tree \in TreeAccount
      BY <1>0, <2>2 DEF QueueType
    <3> QED
      BY <2>2, <3>1 DEF TermsKept, SameTree, SameQueue, IInv, QueuesPaired
  <2> QED
    BY <2>1, <2>2
<1>3. FeesSet'
  <2> SUFFICES ASSUME NEW t \in TreeAccount, trees'[t] # None
               PROVE  LET q == trees'[t].associated_queue
                          h == trees'[t].rollover_threshold
                      IN  IF trees'[t].kind = "state"
                          THEN /\ trees'[t].rollover_fee = RolloverFee(h)
                               /\ queues'[q].rollover_fee = 0
                          ELSE /\ trees'[t].rollover_fee = 0
                               /\ queues'[q].rollover_threshold = h
                               /\ queues'[q].rollover_fee = RolloverFee(h)
    BY DEF FeesSet, RolloverFee, compute_rollover_fee
  <2>1. CASE trees[t] = None
    BY <2>1 DEF NewPaired
  <2>2. CASE trees[t] # None
    <3>1. /\ trees[t].associated_queue \in QueueAccount
          /\ queues[trees[t].associated_queue] # None
      BY <1>0, <2>2 DEF TreeType, IInv, TreesPaired
    <3> QED
      BY <2>2, <3>1 DEF TermsKept, SameTree, SameQueue, IInv, FeesSet
  <2> QED
    BY <2>1, <2>2
<1>4. SuccessorsLinked'
  <2> DEFINE q(t) == trees[t].associated_queue
             t2(t) == trees[t].next_merkle_tree
             q2(t) == queues[q(t)].next_queue
  <2>0. SUFFICES ASSUME NEW t \in TreeAccount, trees'[t] # None, trees'[t].next_merkle_tree # None
        PROVE  LET u == trees'[t].associated_queue
                   v == trees'[t].next_merkle_tree
                   w == queues'[u].next_queue
               IN  /\ Succeeds(trees'[t], queues'[u], trees'[v], queues'[w], v, w)
                   /\ \A s \in TreeAccount \ {t} :
                        trees'[s] # None => trees'[s].next_merkle_tree # v
    BY DEF SuccessorsLinked, Succeeds, AssertRolledOverTree, AssertRolledOverQueue
  <2>1. trees[t] # None
    BY <2>0 DEF NewPaired
  <2>2. /\ trees'[t].associated_queue = q(t) /\ q(t) \in QueueAccount /\ queues[q(t)] # None
        /\ trees'[t].next_merkle_tree = t2(t) /\ t2(t) # None
        /\ queues'[q(t)].next_queue = q2(t) /\ q2(t) # None /\ q2(t) \in QueueAccount
        /\ t2(t) \in TreeAccount
    BY <1>0, <2>0, <2>1 DEF TermsKept, SameTree, IInv, TreesPaired, TreeType, QueueType
  <2>3. /\ Succeeds(trees[t], queues[q(t)], trees[t2(t)], queues[q2(t)], t2(t), q2(t))
        /\ \A s \in TreeAccount \ {t} : trees[s] # None => trees[s].next_merkle_tree # t2(t)
    BY <2>1, <2>2 DEF IInv, SuccessorsLinked
  <2>4. Succeeds(trees'[t], queues'[q(t)], trees'[t2(t)], queues'[q2(t)], t2(t), q2(t))
    <3> DEFINE x == t2(t)
               y == q2(t)
               z == q(t)
    <3>1. trees[x] # None /\ queues[y] # None
      BY <2>3 DEF Succeeds
    <3>2. /\ trees'[t] # None /\ SameTree(trees'[t], trees[t])
          /\ trees'[t].rolledover = trees[t].rolledover
          /\ trees'[x] # None /\ SameTree(trees'[x], trees[x])
          /\ queues'[z] # None /\ SameQueue(queues'[z], queues[z])
          /\ queues'[z].rolledover = queues[z].rolledover
          /\ queues'[y] # None /\ SameQueue(queues'[y], queues[y])
      BY <2>1, <2>2, <3>1 DEF TermsKept
    <3> HIDE DEF x, y, z
    <3>3. Succeeds(trees[t], queues[z], trees[x], queues[y], x, y)
      BY <2>3 DEF x, y, z
    <3>4. Succeeds(trees'[t], queues'[z], trees'[x], queues'[y], x, y)
      BY <3>2, <3>3 DEF Succeeds, AssertRolledOverTree, AssertRolledOverQueue, SameTree, SameQueue
    <3> QED
      BY <3>4 DEF x, y, z
  <2>5. \A s \in TreeAccount \ {t} : trees'[s] # None => trees'[s].next_merkle_tree # t2(t)
    BY <2>2, <2>3 DEF TermsKept, NewPaired
  <2> QED
    BY <2>2, <2>4, <2>5
<1>5. TreesServiced'
  <2> SUFFICES ASSUME NEW t \in TreeAccount, trees'[t] # None, trees'[t].owner \in Group
               PROVE  /\ trees'[t].service.forester # None \/ trees'[t].service.network_fee \in fees'
                      /\ trees'[t].kind = "state" => \E c \in ContextAccount : contexts'[c] = t
    BY DEF TreesServiced
  <2>1. CASE trees[t] = None
    BY <2>1 DEF NewServed
  <2>2. CASE trees[t] # None
    <3>1. SameTree(trees'[t], trees[t])
      BY <2>2 DEF TermsKept
    <3>2. /\ trees[t].service.forester # None \/ trees[t].service.network_fee \in fees
          /\ trees[t].kind = "state" => \E c \in ContextAccount : contexts[c] = t
      BY <2>2, <3>1 DEF SameTree, IInv, TreesServiced
    <3> QED
      BY <1>0, <3>1, <3>2 DEF SameTree, NewServed
  <2> QED
    BY <2>1, <2>2
<1> QED
  BY <1>1, <1>2, <1>3, <1>4, <1>5

\* Creating a pair preserves the invariant.
LEMMA CreatePreserves ==
    ASSUME IInv, BooksStep, CreateStep
    PROVE  IInv'
<1>1. PICK kind \in Kind, t \in TreeAccount, q \in QueueAccount, owner \in Caller \cup Group,
           service \in ServiceType, h \in Nat \cup {None} :
        /\ Fresh(t, q)
        /\ trees' = TreesWith(kind, t, q, owner, service, h)
        /\ queues' = QueuesWith(kind, t, q, owner, h)
        /\ Serves(kind, owner, service, t)
  BY DEF CreateStep
<1>2. /\ trees[t] = None /\ queues[q] = None
      /\ trees \in [TreeAccount -> TreeType \cup {None}]
      /\ queues \in [QueueAccount -> QueueType \cup {None}]
      /\ contexts \in [ContextAccount -> TreeAccount \cup {None}]
      /\ None \notin TreeAccount /\ None \notin QueueAccount
  BY <1>1, AddressAssumption DEF Fresh, IInv, TypeOK
<1>3. /\ trees' = [trees EXCEPT ![t] = NewTree(kind, owner, service, h, q)]
      /\ queues' = [queues EXCEPT ![q] = NewQueue(kind, owner, h, t)]
  BY <1>1 DEF TreesWith, QueuesWith, NewTree, NewQueue
<1>4. /\ trees'[t] = NewTree(kind, owner, service, h, q)
      /\ \A s \in TreeAccount \ {t} : trees'[s] = trees[s]
      /\ queues'[q] = NewQueue(kind, owner, h, t)
      /\ \A u \in QueueAccount \ {q} : queues'[u] = queues[u]
  BY <1>2, <1>3
<1>5. IsNewTree(trees'[t], kind, owner, service, h, q)
  BY <1>4, NewTreeFields
<1>6. IsNewQueue(queues'[q], kind, owner, h, t)
  BY <1>4, NewQueueFields
<1>7. TypeOK'
  <2>1. contexts' \in [ContextAccount -> TreeAccount \cup {None}]
    BY <1>1, <1>2 DEF Serves, ContextFor, init_cpi_context_account
  <2>2. /\ trees' \in [TreeAccount -> TreeType \cup {None}]
        /\ queues' \in [QueueAccount -> QueueType \cup {None}]
    BY <1>2, <1>3, <1>4, <1>5, <1>6 DEF IsNewTree, IsNewQueue
  <2> QED
    BY <2>1, <2>2 DEF TypeOK, BooksStep, BooksOK
<1>8. TermsKept
  BY <1>2, <1>4 DEF TermsKept, SameTree, SameQueue
<1>9. NewPaired
  BY <1>2, <1>4, <1>5, <1>6 DEF NewPaired, Kind, IsNewTree, IsNewQueue
<1>10. NewServed
  <2>1. \A c \in ContextAccount : contexts[c] # None => contexts'[c] = contexts[c]
    BY <1>1, <1>2 DEF Serves, ContextFor, init_cpi_context_account
  <2>2. ContextFor(t) => \E c \in ContextAccount : contexts'[c] = t
    BY <1>2 DEF ContextFor, init_cpi_context_account
  <2> QED
    BY <1>1, <1>2, <1>4, <1>5, <2>1, <2>2 DEF NewServed, Serves, IsNewTree, BooksStep
<1>11. FeesKept'
  <2> SUFFICES ASSUME NEW s \in TreeAccount, trees'[s] # None, ~trees'[s].rolledover
               PROVE  LET queue == queues'[trees'[s].associated_queue]
                      IN  IF trees'[s].kind = "state"
                          THEN trees'[s].lamports
                                 = TreeRent + trees'[s].rollover_fee * trees'[s].next_index
                          ELSE /\ trees'[s].next_index >= 2
                               /\ queue.lamports = QueueRent + queue.rollover_fee
                                        * (trees'[s].next_index - 2 + queue.waiting)
    BY DEF FeesKept
  <2>1. CASE s = t
    <3>1. RolloverFee(h) \in Nat /\ TreeRent \in Nat /\ QueueRent \in Nat
      BY FeeCovers, AccountCompressionAssumption
    <3>2. RolloverFee(h) * 0 = 0 /\ RolloverFee(h) * (2 - 2 + 0) = 0
      BY <3>1
    <3> QED
      BY <1>5, <1>6, <2>1, <3>1, <3>2 DEF Kind, IsNewTree, IsNewQueue
  <2>2. CASE s # t
    <3>1. /\ trees'[s] = trees[s] /\ trees[s] # None
          /\ trees[s].associated_queue \in QueueAccount
          /\ queues[trees[s].associated_queue] # None
      BY <1>2, <1>4, <2>2 DEF IInv, TreesPaired, TreeType
    <3>2. queues'[trees[s].associated_queue] = queues[trees[s].associated_queue]
      BY <1>2, <1>4, <3>1
    <3> QED
      BY <3>1, <3>2 DEF IInv, FeesKept
  <2> QED
    BY <2>1, <2>2
<1> QED
  BY <1>7, <1>8, <1>9, <1>10, <1>11, TermsKeptPreserves DEF IInv

\* What is left to show of a step that changes counters only.
LEMMA CountersPreserve ==
    ASSUME IInv, BooksStep, UNCHANGED contexts, TermsKept, FeesKept',
           trees' \in [TreeAccount -> TreeType \cup {None}],
           queues' \in [QueueAccount -> QueueType \cup {None}],
           \A t \in TreeAccount : trees[t] = None => trees'[t] = None,
           \A q \in QueueAccount : queues[q] = None => queues'[q] = None
    PROVE  IInv'
<1>1. TypeOK'
  BY DEF IInv, TypeOK, BooksStep, BooksOK
<1>2. NewPaired /\ NewServed
  BY DEF NewPaired, NewServed, BooksStep
<1> QED
  BY <1>1, <1>2, TermsKeptPreserves DEF IInv

\* The fees of one pair, to show FeesKept pair by pair.
PairKept(tree, queue) ==
    IF tree.kind = "state"
    THEN tree.lamports = TreeRent + tree.rollover_fee * tree.next_index
    ELSE /\ tree.next_index >= 2
         /\ queue.lamports = QueueRent + queue.rollover_fee * (tree.next_index - 2 + queue.waiting)

\* So does appending leaves, which pays the fees of the batch to the trees,
LEMMA AppendPreserves ==
    ASSUME IInv, BooksStep, UNCHANGED contexts, NEW caller, NEW batch \in Batches,
           append_leaves_to_merkle_trees(caller, batch)
    PROVE  IInv'
<1>0. /\ trees \in [TreeAccount -> TreeType \cup {None}]
      /\ queues \in [QueueAccount -> QueueType \cup {None}]
      /\ DOMAIN batch \subseteq TreeAccount
      /\ \A t \in DOMAIN batch : batch[t] \in Nat
      /\ TreeRent \in Nat
  BY AccountCompressionAssumption DEF IInv, TypeOK, Batches
<1>1. /\ queues' = queues
      /\ trees' = [t \in TreeAccount |->
                    IF t \notin DOMAIN batch THEN trees[t]
                    ELSE [trees[t] EXCEPT
                            !.next_index = @ + batch[t],
                            !.lamports = @ + BatchFee(trees[t].rollover_fee, batch[t])]]
      /\ \A t \in DOMAIN batch : trees[t] # None /\ trees[t].kind = "state"
  BY DEF append_leaves_to_merkle_trees
<1>2. ASSUME NEW t \in TreeAccount, t \notin DOMAIN batch PROVE trees'[t] = trees[t]
  BY <1>1, <1>2
<1>3. ASSUME NEW t \in TreeAccount, t \in DOMAIN batch
      PROVE  /\ trees'[t] \in TreeType /\ SameTree(trees'[t], trees[t])
             /\ trees'[t].rolledover = trees[t].rolledover
             /\ trees'[t].next_merkle_tree = trees[t].next_merkle_tree
             /\ trees'[t].next_index = trees[t].next_index + batch[t]
             /\ trees'[t].lamports = trees[t].lamports + trees[t].rollover_fee * batch[t]
  <2> DEFINE r == trees[t]
             n == batch[t]
  <2>1. r \in TreeType /\ n \in Nat
    BY <1>0, <1>1, <1>3
  <2>2. trees'[t] = [r EXCEPT !.next_index = @ + n, !.lamports = @ + r.rollover_fee * n]
    BY <1>1, <1>3 DEF BatchFee
  <2> HIDE DEF r, n
  <2>3. r.next_index + n \in Nat /\ r.lamports + r.rollover_fee * n \in Nat
    BY <2>1 DEF TreeType
  <2>4. trees'[t] \in TreeType
    BY <2>1, <2>2, <2>3 DEF TreeType
  <2>5. /\ SameTree(trees'[t], r)
        /\ trees'[t].rolledover = r.rolledover /\ trees'[t].next_merkle_tree = r.next_merkle_tree
        /\ trees'[t].next_index = r.next_index + n
        /\ trees'[t].lamports = r.lamports + r.rollover_fee * n
    BY <2>1, <2>2 DEF TreeType, SameTree
  <2> QED
    BY <2>4, <2>5 DEF r, n
<1>4. /\ trees' \in [TreeAccount -> TreeType \cup {None}]
      /\ \A t \in TreeAccount : trees'[t] \in TreeType \cup {None}
  BY <1>0, <1>1, <1>2, <1>3
<1>5. TermsKept
  <2>1. ASSUME NEW t \in TreeAccount, trees[t] # None
        PROVE  /\ trees'[t] # None /\ SameTree(trees'[t], trees[t])
               /\ trees'[t].rolledover = trees[t].rolledover
               /\ trees'[t].next_merkle_tree = trees[t].next_merkle_tree
    <3>1. CASE t \in DOMAIN batch
      BY <1>3, <3>1, AddressAssumption
    <3>2. CASE t \notin DOMAIN batch
      BY <1>2, <2>1, <3>2 DEF SameTree
    <3> QED
      BY <3>1, <3>2
  <2> QED
    BY <1>1, <2>1 DEF TermsKept, SameQueue
<1>6. FeesKept'
  <2> SUFFICES ASSUME NEW t \in TreeAccount, trees'[t] # None, ~trees'[t].rolledover
               PROVE  PairKept(trees'[t], queues'[trees'[t].associated_queue])
    BY DEF FeesKept, PairKept
  <2>1. CASE t \notin DOMAIN batch
    BY <1>1, <1>2, <2>1 DEF IInv, FeesKept, PairKept
  <2>2. CASE t \in DOMAIN batch
    <3> DEFINE f == trees[t].rollover_fee
               i == trees[t].next_index
               n == batch[t]
    <3>1. /\ trees[t] # None /\ trees[t].kind = "state" /\ ~trees[t].rolledover
          /\ trees'[t].kind = "state" /\ trees'[t].rollover_fee = f
          /\ trees'[t].next_index = i + n /\ trees'[t].lamports = trees[t].lamports + f * n
          /\ f \in Nat /\ i \in Nat /\ n \in Nat
      <4>1. /\ SameTree(trees'[t], trees[t]) /\ trees'[t].rolledover = trees[t].rolledover
            /\ trees'[t].next_index = i + n /\ trees'[t].lamports = trees[t].lamports + f * n
        BY <1>3, <2>2
      <4>2. trees[t] # None /\ trees[t] \in TreeType /\ trees[t].kind = "state" /\ n \in Nat
        BY <1>0, <1>1, <2>2
      <4>3. f \in Nat /\ i \in Nat
        BY <4>2 DEF TreeType
      <4> QED
        BY <4>1, <4>2, <4>3 DEF SameTree
    <3>2. trees[t].lamports = TreeRent + f * i
      BY <3>1 DEF IInv, FeesKept
    <3> HIDE DEF f, i, n
    <3>3. f * (i + n) = f * i + f * n /\ f * i \in Nat /\ f * n \in Nat
      BY <3>1
    <3> QED
      BY <1>0, <3>1, <3>2, <3>3 DEF PairKept
  <2> QED
    BY <2>1, <2>2
<1> QED
  BY <1>0, <1>1, <1>2, <1>4, <1>5, <1>6, CountersPreserve

\* A queue whose counters change.
IsCounted(r, queue, waiting, lamports) ==
    /\ r \in QueueType /\ SameQueue(r, queue)
    /\ r.rolledover = queue.rolledover /\ r.next_queue = queue.next_queue
    /\ r.waiting = waiting /\ r.lamports = lamports

\* inserting into queues, which pays the fees of an address pair to the queue,
LEMMA InsertPreserves ==
    ASSUME IInv, BooksStep, UNCHANGED contexts, NEW kind, NEW caller, NEW t, NEW q \in QueueAccount,
           NEW n \in 1 .. MaxBatch, insert_into_queues(kind, caller, q, t, n)
    PROVE  IInv'
<1>0. /\ trees \in [TreeAccount -> TreeType \cup {None}]
      /\ queues \in [QueueAccount -> QueueType \cup {None}]
      /\ n \in Nat /\ QueueRent \in Nat
  BY AccountCompressionAssumption DEF IInv, TypeOK
<1> DEFINE r == queues[q]
<1>1. /\ trees' = trees /\ r # None /\ r \in QueueType
      /\ queues' = [queues EXCEPT ![q].waiting = @ + n,
                                  ![q].lamports = @ + r.rollover_fee * n]
  BY <1>0 DEF insert_into_queues, BatchFee
<1>2. /\ queues'[q] = [r EXCEPT !.waiting = @ + n, !.lamports = @ + r.rollover_fee * n]
      /\ \A u \in QueueAccount \ {q} : queues'[u] = queues[u]
  BY <1>0, <1>1
<1>3. IsCounted(queues'[q], r, r.waiting + n, r.lamports + r.rollover_fee * n)
  <2> HIDE DEF r
  <2>1. r.waiting + n \in Nat /\ r.lamports + r.rollover_fee * n \in Nat
    BY <1>0, <1>1 DEF QueueType
  <2> QED
    BY <1>0, <1>1, <1>2, <2>1 DEF QueueType, SameQueue, IsCounted
<1>4. queues' \in [QueueAccount -> QueueType \cup {None}]
  BY <1>0, <1>1, <1>2, <1>3 DEF IsCounted
<1>5. TermsKept
  BY <1>0, <1>1, <1>2, <1>3, AddressAssumption DEF TermsKept, SameTree, SameQueue, IsCounted
<1>6. FeesKept'
  <2> SUFFICES ASSUME NEW s \in TreeAccount, trees[s] # None, ~trees[s].rolledover
               PROVE  PairKept(trees[s], queues'[trees[s].associated_queue])
    BY <1>1 DEF FeesKept, PairKept
  <2>0. trees[s].associated_queue \in QueueAccount /\ trees[s].next_index \in Nat
    BY <1>0 DEF TreeType
  <2>1. CASE trees[s].associated_queue # q \/ trees[s].kind = "state"
    BY <1>2, <2>0, <2>1 DEF IInv, FeesKept, PairKept
  <2>2. CASE trees[s].associated_queue = q /\ trees[s].kind # "state"
    <3> DEFINE f == r.rollover_fee
               i == trees[s].next_index - 2
               k == r.waiting
    <3>1. i >= 0 /\ r.lamports = QueueRent + f * (i + k)
      BY <2>0, <2>2 DEF IInv, FeesKept
    <3>2. f \in Nat /\ i \in Nat /\ k \in Nat
      BY <1>1, <2>0, <3>1 DEF QueueType
    <3>3. queues'[q].rollover_fee = f /\ queues'[q].waiting = k + n
          /\ queues'[q].lamports = r.lamports + f * n
      BY <1>3 DEF IsCounted, SameQueue
    <3> HIDE DEF f, k, r
    <3>4. f * (i + (k + n)) = f * (i + k) + f * n /\ f * (i + k) \in Nat /\ f * n \in Nat
      BY <1>0, <3>2
    <3>5. queues'[q].lamports
            = QueueRent + queues'[q].rollover_fee * (trees[s].next_index - 2 + queues'[q].waiting)
      BY <1>0, <3>1, <3>3, <3>4
    <3> QED
      BY <2>0, <2>2, <3>2, <3>5 DEF PairKept
  <2> QED
    BY <2>1, <2>2
<1> QED
  BY <1>0, <1>1, <1>2, <1>4, <1>5, <1>6, CountersPreserve

\* A value leaves the queue; in an address pair it becomes a leaf.
LEMMA ProcessPreserves ==
    ASSUME IInv, BooksStep, UNCHANGED contexts, NEW caller, NEW t \in TreeAccount,
           NEW q \in QueueAccount,
           nullify_leaves(caller, t, q) \/ update_address_merkle_tree(caller, t, q)
    PROVE  IInv'
<1> DEFINE r == queues[q]
           tree == trees[t]
<1>0. /\ trees \in [TreeAccount -> TreeType \cup {None}]
      /\ queues \in [QueueAccount -> QueueType \cup {None}]
      /\ QueueRent \in Nat /\ None \notin TreeType /\ None \notin QueueType
  BY AccountCompressionAssumption, AddressAssumption DEF IInv, TypeOK
<1>1. /\ tree # None /\ tree \in TreeType /\ tree.associated_queue = q
      /\ r # None /\ r \in QueueType /\ r.waiting > 0
      /\ queues' = [queues EXCEPT ![q].waiting = @ - 1]
      /\ \/ trees' = trees /\ tree.kind = "state"
         \/ trees' = [trees EXCEPT ![t].next_index = @ + 1] /\ tree.kind = "address"
  <2>1. tree # None /\ tree.associated_queue = q /\ r.waiting > 0
    BY DEF nullify_leaves, update_address_merkle_tree, ProcessChecks
  <2>2. r # None
    BY <2>1 DEF IInv, TreesPaired
  <2>3. tree \in TreeType /\ r \in QueueType
    BY <1>0, <2>1, <2>2
  <2>4. CASE nullify_leaves(caller, t, q)
    BY <2>1, <2>2, <2>3, <2>4 DEF nullify_leaves, ProcessChecks
  <2>5. CASE update_address_merkle_tree(caller, t, q)
    BY <2>1, <2>2, <2>3, <2>5 DEF update_address_merkle_tree, ProcessChecks
  <2> QED
    BY <2>4, <2>5
<1>2. /\ queues'[q] = [r EXCEPT !.waiting = @ - 1]
      /\ \A u \in QueueAccount \ {q} : queues'[u] = queues[u]
      /\ \A s \in TreeAccount \ {t} : trees'[s] = trees[s]
      /\ \/ trees'[t] = tree /\ tree.kind = "state"
         \/ trees'[t] = [tree EXCEPT !.next_index = @ + 1] /\ tree.kind = "address"
  BY <1>0, <1>1
<1> HIDE DEF r, tree
<1>3. IsCounted(queues'[q], r, r.waiting - 1, r.lamports)
  <2>1. r.waiting - 1 \in Nat
    BY <1>1 DEF QueueType
  <2> QED
    BY <1>1, <1>2, <2>1 DEF QueueType, SameQueue, IsCounted
<1>4. /\ trees'[t] \in TreeType /\ SameTree(trees'[t], tree)
      /\ trees'[t].rolledover = tree.rolledover
      /\ trees'[t].next_merkle_tree = tree.next_merkle_tree
      /\ tree.kind = "state" => trees'[t] = tree
      /\ tree.kind = "address" => trees'[t].next_index = tree.next_index + 1
  <2>1. CASE tree.kind = "state"
    BY <1>1, <1>2, <2>1 DEF SameTree
  <2>2. CASE trees'[t] = [tree EXCEPT !.next_index = @ + 1] /\ tree.kind = "address"
    <3>1. tree.next_index + 1 \in Nat
      BY <1>1 DEF TreeType
    <3>2. trees'[t] \in TreeType
      BY <1>1, <2>2, <3>1 DEF TreeType
    <3> QED
      BY <1>1, <2>2, <3>2 DEF TreeType, SameTree
  <2> QED
    BY <1>2, <2>1, <2>2
<1>5. /\ queues' \in [QueueAccount -> QueueType \cup {None}]
      /\ trees' \in [TreeAccount -> TreeType \cup {None}]
  BY <1>0, <1>1, <1>2, <1>3, <1>4 DEF IsCounted
<1>6. TermsKept
  <2>1. trees'[t] # None /\ queues'[q] # None
    BY <1>0, <1>3, <1>4 DEF IsCounted
  <2> QED
    BY <1>2, <1>3, <1>4, <2>1 DEF TermsKept, SameTree, SameQueue, IsCounted, r, tree
<1>7. FeesKept'
  <2> SUFFICES ASSUME NEW s \in TreeAccount, trees'[s] # None, ~trees'[s].rolledover
               PROVE  PairKept(trees'[s], queues'[trees'[s].associated_queue])
    BY DEF FeesKept, PairKept
  <2>1. CASE s # t
    <3>1. trees'[s] = trees[s] /\ trees[s] # None /\ trees[s].associated_queue \in QueueAccount
      BY <1>0, <1>2, <2>1 DEF TreeType
    <3>2. trees[s].associated_queue # q
      BY <1>1, <2>1, <3>1 DEF IInv, TreesPaired, tree
    <3> QED
      BY <1>2, <3>1, <3>2 DEF IInv, FeesKept, PairKept
  <2>2. CASE s = t /\ tree.kind = "state"
    BY <1>1, <1>4, <2>2 DEF IInv, FeesKept, PairKept, tree
  <2>3. CASE s = t /\ tree.kind # "state"
    <3>1. /\ tree.kind = "address" /\ ~tree.rolledover /\ trees'[t].associated_queue = q
          /\ trees'[t].next_index = tree.next_index + 1 /\ trees'[t].kind # "state"
      BY <1>1, <1>4, <2>3 DEF SameTree, TreeType, Kind
    <3>2. /\ tree.next_index >= 2
          /\ r.lamports = QueueRent + r.rollover_fee * (tree.next_index - 2 + r.waiting)
      BY <1>1, <2>3, <3>1 DEF IInv, FeesKept, tree, r
    <3>3. /\ queues'[q].lamports = r.lamports /\ queues'[q].rollover_fee = r.rollover_fee
          /\ queues'[q].waiting = r.waiting - 1
      BY <1>3 DEF IsCounted, SameQueue
    <3>4. tree.next_index \in Nat /\ r.waiting \in Nat
      BY <1>1 DEF TreeType, QueueType
    <3>5. (tree.next_index + 1) - 2 + (r.waiting - 1) = tree.next_index - 2 + r.waiting
      BY <3>4
    <3>6. /\ trees'[t].next_index >= 2
          /\ queues'[q].lamports = QueueRent
                + queues'[q].rollover_fee * (trees'[t].next_index - 2 + queues'[q].waiting)
      BY <3>1, <3>2, <3>3, <3>4, <3>5
    <3> QED
      BY <2>3, <3>1, <3>6 DEF PairKept
  <2> QED
    BY <2>1, <2>2, <2>3
<1> QED
  BY <1>0, <1>1, <1>2, <1>5, <1>6, <1>7, CountersPreserve DEF tree, r

\* and therefore every step that only moves counters and lamports.
LEMMA CounterPreserves ==
    ASSUME IInv, BooksStep, CounterStep
    PROVE  IInv'
  BY AppendPreserves, InsertPreserves, ProcessPreserves DEF CounterStep

-----------------------------------------------------------------------------
\* Rollovers.

\* What both kinds of rollover do to the four accounts.
RollEffect(t, q, t2, q2) ==
    /\ trees[t] # None /\ trees[t] \in TreeType /\ queues[q] # None /\ queues[q] \in QueueType
    /\ trees[t2] = None /\ queues[q2] = None
    /\ trees[t].associated_queue = q /\ queues[q].associated_merkle_tree = t
    /\ ~trees[t].rolledover
    /\ IsNewTree(trees'[t2], trees[t].kind, trees[t].owner, trees[t].service,
                 trees[t].rollover_threshold, q2)
    /\ IsNewQueue(queues'[q2], trees[t].kind, queues[q].owner, queues[q].rollover_threshold, t2)
    /\ trees'[t] # None /\ IsRolledTree(trees'[t], trees[t], t2)
    /\ queues'[q] # None /\ IsRolledQueue(queues'[q], queues[q], q2)
    /\ \A s \in TreeAccount \ {t, t2} : trees'[s] = trees[s]
    /\ \A u \in QueueAccount \ {q, q2} : queues'[u] = queues[u]
    /\ trees' \in [TreeAccount -> TreeType \cup {None}]
    /\ queues' \in [QueueAccount -> QueueType \cup {None}]

\* Both rollovers have the effect just defined.
LEMMA RollHasEffect ==
    ASSUME TypeOK, NEW t \in TreeAccount, NEW q \in QueueAccount,
           NEW t2 \in TreeAccount, NEW q2 \in QueueAccount, NEW caller,
           \/ rollover_state_merkle_tree(caller, t, q, t2, q2)
           \/ rollover_address_merkle_tree(caller, t, q, t2, q2)
    PROVE  RollEffect(t, q, t2, q2)
<1> DEFINE tree == trees[t]
           queue == queues[q]
           kind == tree.kind
           newTree == NewTree(kind, tree.owner, tree.service, tree.rollover_threshold, q2)
           newQueue == NewQueue(kind, queue.owner, queue.rollover_threshold, t2)
<1>1. /\ tree # None /\ queue # None /\ trees[t2] = None /\ queues[q2] = None
      /\ tree.associated_queue = q /\ queue.associated_merkle_tree = t /\ ~tree.rolledover
  BY DEF rollover_state_merkle_tree, rollover_address_merkle_tree, RolloverChecks, Fresh,
         MayRollover
<1>2. /\ trees \in [TreeAccount -> TreeType \cup {None}]
      /\ queues \in [QueueAccount -> QueueType \cup {None}]
      /\ None \notin TreeType /\ None \notin QueueType
  BY AddressAssumption DEF TypeOK
<1>3. tree \in TreeType /\ queue \in QueueType /\ t # t2 /\ q # q2
  BY <1>1, <1>2
<1>4. /\ tree.kind \in Kind /\ tree.owner \in Caller \cup Group /\ tree.service \in ServiceType
      /\ tree.rollover_threshold \in Nat \cup {None}
      /\ queue.owner \in Caller \cup Group /\ queue.rollover_threshold \in Nat \cup {None}
  BY <1>3 DEF TreeType, QueueType, ServiceType
<1>5. /\ IsNewTree(newTree, kind, tree.owner, tree.service, tree.rollover_threshold, q2)
      /\ IsNewQueue(newQueue, kind, queue.owner, queue.rollover_threshold, t2)
  BY <1>4, NewTreeFields, NewQueueFields
<1>6. \E oldTree, oldQueue :
        /\ IsRolledTree(oldTree, tree, t2) /\ IsRolledQueue(oldQueue, queue, q2)
        /\ trees' = [[trees EXCEPT ![t2] = newTree] EXCEPT ![t] = oldTree]
        /\ queues' = [[queues EXCEPT ![q2] = newQueue] EXCEPT ![q] = oldQueue]
  <2>1. CASE rollover_state_merkle_tree(caller, t, q, t2, q2)
    <3>1. kind = "state" /\ Reimburses(tree, TreeRent)
      BY <2>1 DEF rollover_state_merkle_tree, RolloverChecks
    <3>2. /\ trees' = [[trees EXCEPT ![t2] = newTree]
                        EXCEPT ![t] = Reimbursed(RolledTree(tree, t2))]
          /\ queues' = [[queues EXCEPT ![q2] = newQueue] EXCEPT ![q] = RolledQueue(queue, q2)]
      BY <2>1, <3>1 DEF rollover_state_merkle_tree, TreesWith, QueuesWith, NewTree, NewQueue
    <3> HIDE DEF tree, queue, newTree, newQueue
    <3> QED
      BY <1>3, <3>1, <3>2, RolledTreeFields, RolledQueueFields
  <2>2. CASE rollover_address_merkle_tree(caller, t, q, t2, q2)
    <3>1. kind = "address" /\ Reimburses(queue, QueueRent)
      BY <2>2 DEF rollover_address_merkle_tree, RolloverChecks
    <3>2. /\ trees' = [[trees EXCEPT ![t2] = newTree] EXCEPT ![t] = RolledTree(tree, t2)]
          /\ queues' = [[queues EXCEPT ![q2] = newQueue]
                            EXCEPT ![q] = Reimbursed(RolledQueue(queue, q2))]
      BY <2>2, <3>1 DEF rollover_address_merkle_tree, TreesWith, QueuesWith, NewTree, NewQueue
    <3> HIDE DEF tree, queue, newTree, newQueue
    <3> QED
      BY <1>3, <3>1, <3>2, RolledTreeFields, RolledQueueFields
  <2> QED
    BY <2>1, <2>2
<1>7. PICK oldTree, oldQueue :
        /\ IsRolledTree(oldTree, tree, t2) /\ IsRolledQueue(oldQueue, queue, q2)
        /\ trees' = [[trees EXCEPT ![t2] = newTree] EXCEPT ![t] = oldTree]
        /\ queues' = [[queues EXCEPT ![q2] = newQueue] EXCEPT ![q] = oldQueue]
  BY <1>6
<1> HIDE DEF newTree, newQueue
<1>8. /\ trees'[t2] = newTree /\ trees'[t] = oldTree
      /\ queues'[q2] = newQueue /\ queues'[q] = oldQueue
      /\ \A s \in TreeAccount \ {t, t2} : trees'[s] = trees[s]
      /\ \A u \in QueueAccount \ {q, q2} : queues'[u] = queues[u]
  BY <1>2, <1>3, <1>7
<1>9. /\ newTree \in TreeType /\ oldTree \in TreeType
      /\ newQueue \in QueueType /\ oldQueue \in QueueType
  BY <1>5, <1>7 DEF IsNewTree, IsNewQueue, IsRolledTree, IsRolledQueue
<1>10. /\ trees' \in [TreeAccount -> TreeType \cup {None}]
       /\ queues' \in [QueueAccount -> QueueType \cup {None}]
  BY <1>2, <1>7, <1>9
<1>11. trees'[t] # None /\ queues'[q] # None
  BY <1>2, <1>8, <1>9
<1> QED
  BY <1>1, <1>3, <1>5, <1>7, <1>8, <1>10, <1>11 DEF RollEffect

\* A rollover preserves the invariant: the old pair holds what the new pair cost.
LEMMA RollPreserves ==
    ASSUME IInv, BooksStep, RollStep
    PROVE  IInv'
<1>1. PICK t \in TreeAccount, t2 \in TreeAccount, q \in QueueAccount, q2 \in QueueAccount,
           caller \in Caller :
        /\ UNCHANGED contexts \/ ContextFor(t2)
        /\ trees[t].kind = "state" /\ trees[t].owner \in Group => ContextFor(t2)
        /\ \/ rollover_state_merkle_tree(caller, t, q, t2, q2)
           \/ rollover_address_merkle_tree(caller, t, q, t2, q2)
  BY DEF RollStep
<1>2. RollEffect(t, q, t2, q2)
  BY <1>1, RollHasEffect DEF IInv
<1>3. /\ t # t2 /\ q # q2 /\ trees[t].kind \in Kind
      /\ None \notin TreeAccount /\ None \notin QueueAccount
      /\ trees \in [TreeAccount -> TreeType \cup {None}]
      /\ queues \in [QueueAccount -> QueueType \cup {None}]
      /\ contexts \in [ContextAccount -> TreeAccount \cup {None}]
  BY <1>2, AddressAssumption DEF RollEffect, IInv, TypeOK, TreeType
\* The other pairs are not touched.
<1>4. ASSUME NEW s \in TreeAccount, trees'[s] # None, s # t, s # t2
      PROVE  LET u == trees[s].associated_queue
             IN  /\ trees'[s] = trees[s] /\ trees[s] # None
                 /\ u \in QueueAccount /\ queues[u] # None /\ queues'[u] = queues[u]
  <2>1. trees'[s] = trees[s] /\ trees[s] # None /\ trees[s] \in TreeType
    BY <1>2, <1>3, <1>4 DEF RollEffect
  <2>2. /\ trees[s].associated_queue \in QueueAccount
        /\ queues[trees[s].associated_queue] # None
        /\ queues[trees[s].associated_queue].associated_merkle_tree = s
    BY <2>1 DEF TreeType, IInv, TreesPaired
  <2> QED
    BY <1>2, <1>4, <2>1, <2>2 DEF RollEffect
<1>5. TypeOK'
  <2>1. contexts' \in [ContextAccount -> TreeAccount \cup {None}]
    BY <1>1, <1>3 DEF ContextFor, init_cpi_context_account
  <2> QED
    BY <1>2, <2>1 DEF TypeOK, BooksStep, BooksOK, RollEffect
<1>6. TreesPaired'
  <2> SUFFICES ASSUME NEW s \in TreeAccount, trees'[s] # None
               PROVE  LET u == trees'[s].associated_queue
                      IN  /\ queues'[u] # None
                          /\ queues'[u].associated_merkle_tree = s
                          /\ queues'[u].kind = trees'[s].kind
                          /\ queues'[u].rolledover = trees'[s].rolledover
                          /\ (trees'[s].next_merkle_tree # None) = trees'[s].rolledover
                          /\ (queues'[u].next_queue # None) = trees'[s].rolledover
    BY DEF TreesPaired
  <2>1. CASE s = t
    <3>1. queues[q].kind = trees[t].kind
      BY <1>2 DEF RollEffect, IInv, TreesPaired
    <3>2. /\ trees'[t].associated_queue = q /\ queues'[q] # None
          /\ queues'[q].associated_merkle_tree = t /\ queues'[q].kind = trees'[t].kind
          /\ trees'[t].next_merkle_tree = t2 /\ queues'[q].next_queue = q2
      BY <1>2, <3>1 DEF RollEffect, IsRolledTree, IsRolledQueue
    <3>3. trees'[t].rolledover = TRUE /\ queues'[q].rolledover = TRUE
      BY <1>2 DEF RollEffect, IsRolledTree, IsRolledQueue
    <3> QED
      BY <1>3, <2>1, <3>2, <3>3
  <2>2. CASE s = t2
    BY <1>2, <2>2 DEF RollEffect, IsNewTree, IsNewQueue
  <2>3. CASE s # t /\ s # t2
    BY <1>4, <2>3 DEF IInv, TreesPaired
  <2> QED
    BY <2>1, <2>2, <2>3
<1>7. QueuesPaired'
  <2> SUFFICES ASSUME NEW u \in QueueAccount, queues'[u] # None
               PROVE  LET s == queues'[u].associated_merkle_tree
                      IN  trees'[s] # None /\ trees'[s].associated_queue = u
    BY DEF QueuesPaired
  <2>1. CASE u = q
    BY <1>2, <2>1 DEF RollEffect, IsRolledTree, IsRolledQueue
  <2>2. CASE u = q2
    BY <1>2, <2>2 DEF RollEffect, IsNewTree, IsNewQueue
  <2>3. CASE u # q /\ u # q2
    <3>1. queues'[u] = queues[u] /\ queues[u] # None /\ queues[u] \in QueueType
      BY <1>2, <1>3, <2>3 DEF RollEffect
    <3> DEFINE s == queues[u].associated_merkle_tree
    <3>2. s \in TreeAccount /\ trees[s] # None /\ trees[s].associated_queue = u
      BY <3>1 DEF QueueType, IInv, QueuesPaired
    <3>3. s # t /\ s # t2
      BY <1>2, <2>3, <3>2 DEF RollEffect
    <3> QED
      BY <1>2, <3>1, <3>2, <3>3 DEF RollEffect
  <2> QED
    BY <2>1, <2>2, <2>3
<1>8. FeesSet'
  <2> DEFINE Set(tree, queue) ==
        LET h == tree.rollover_threshold
        IN  IF tree.kind = "state"
            THEN tree.rollover_fee = RolloverFee(h) /\ queue.rollover_fee = 0
            ELSE /\ tree.rollover_fee = 0 /\ queue.rollover_threshold = h
                 /\ queue.rollover_fee = RolloverFee(h)
  <2> SUFFICES ASSUME NEW s \in TreeAccount, trees'[s] # None
               PROVE  Set(trees'[s], queues'[trees'[s].associated_queue])
    BY DEF FeesSet, RolloverFee, compute_rollover_fee
  <2>1. Set(trees[t], queues[q])
    BY <1>2 DEF RollEffect, IInv, FeesSet
  <2>2. CASE s = t
    BY <1>2, <2>1, <2>2 DEF RollEffect, IsRolledTree, IsRolledQueue
  <2>3. CASE s = t2
    BY <1>2, <1>3, <2>1, <2>3 DEF RollEffect, IsNewTree, IsNewQueue, Kind
  <2>4. CASE s # t /\ s # t2
    BY <1>4, <2>4 DEF IInv, FeesSet
  <2> QED
    BY <2>2, <2>3, <2>4
<1>9. FeesKept'
  <2> SUFFICES ASSUME NEW s \in TreeAccount, trees'[s] # None, ~trees'[s].rolledover
               PROVE  PairKept(trees'[s], queues'[trees'[s].associated_queue])
    BY DEF FeesKept, PairKept
  <2>1. s # t
    BY <1>2 DEF RollEffect, IsRolledTree
  <2>2. CASE s = t2
    <3> DEFINE f == trees'[t2].rollover_fee
               g == queues'[q2].rollover_fee
    <3>1. /\ trees'[t2].associated_queue = q2 /\ f \in Nat /\ g \in Nat
          /\ trees'[t2].kind = "state" => trees'[t2].next_index = 0
          /\ trees'[t2].kind # "state" => trees'[t2].next_index = 2
          /\ trees'[t2].lamports = TreeRent /\ queues'[q2].lamports = QueueRent
          /\ queues'[q2].waiting = 0
      BY <1>2 DEF RollEffect, IsNewTree, IsNewQueue, TreeType, QueueType
    <3>2. TreeRent \in Nat /\ QueueRent \in Nat
      BY AccountCompressionAssumption
    <3> HIDE DEF f, g
    <3>3. f * 0 = 0 /\ g * (2 - 2 + 0) = 0
      BY <3>1
    <3> QED
      BY <2>2, <3>1, <3>2, <3>3 DEF PairKept, f, g
  <2>3. CASE s # t2
    BY <1>4, <2>1, <2>3 DEF IInv, FeesKept, PairKept
  <2> QED
    BY <2>2, <2>3
<1>10. SuccessorsLinked'
  <2> SUFFICES ASSUME NEW s \in TreeAccount, trees'[s] # None, trees'[s].next_merkle_tree # None
        PROVE  LET u == trees'[s].associated_queue
                   v == trees'[s].next_merkle_tree
                   w == queues'[u].next_queue
               IN  /\ Succeeds(trees'[s], queues'[u], trees'[v], queues'[w], v, w)
                   /\ \A x \in TreeAccount \ {s} :
                        trees'[x] # None => trees'[x].next_merkle_tree # v
    BY DEF SuccessorsLinked, Succeeds, AssertRolledOverTree, AssertRolledOverQueue
  <2>1. ASSUME NEW x \in TreeAccount, trees[x] # None, trees[x].next_merkle_tree # None
        PROVE  trees[trees[x].next_merkle_tree] # None
    BY <2>1 DEF IInv, SuccessorsLinked, Succeeds
  <2>2. CASE s = t
    <3>1. /\ trees'[t].associated_queue = q /\ trees'[t].next_merkle_tree = t2
          /\ queues'[q].next_queue = q2
      BY <1>2 DEF RollEffect, IsRolledTree, IsRolledQueue
    <3>2. trees'[t2] # None /\ queues'[q2] # None
      BY <1>2 DEF RollEffect, IsNewTree, IsNewQueue
    <3>3. AssertRolledOverTree(trees'[t], trees'[t2], q2)
      <4>1. trees[t].rollover_fee
                = IF trees[t].kind = "state" THEN RolloverFee(trees[t].rollover_threshold) ELSE 0
        BY <1>2 DEF RollEffect, IInv, FeesSet
      <4> QED
        BY <1>2, <4>1 DEF RollEffect, IsRolledTree, IsNewTree, AssertRolledOverTree
    <3>4. AssertRolledOverQueue(queues'[q], queues'[q2], t2)
      <4>1. queues[q].rollover_fee
                = IF trees[t].kind = "state" THEN 0 ELSE RolloverFee(queues[q].rollover_threshold)
        BY <1>2 DEF RollEffect, IInv, FeesSet
      <4> QED
        BY <1>2, <4>1 DEF RollEffect, IsRolledQueue, IsNewQueue, AssertRolledOverQueue
    <3>5. \A x \in TreeAccount \ {t} : trees'[x] # None => trees'[x].next_merkle_tree # t2
      <4> SUFFICES ASSUME NEW x \in TreeAccount \ {t}, trees'[x] # None
                   PROVE  trees'[x].next_merkle_tree # t2
        OBVIOUS
      <4>1. CASE x = t2
        BY <1>2, <1>3, <4>1 DEF RollEffect, IsNewTree
      <4>2. CASE x # t2
        BY <1>2, <1>3, <1>4, <2>1, <4>2 DEF RollEffect
      <4> QED
        BY <4>1, <4>2
    <3> QED
      BY <2>2, <3>1, <3>2, <3>3, <3>4, <3>5 DEF Succeeds
  <2>3. CASE s = t2
    BY <1>2, <2>3 DEF RollEffect, IsNewTree
  <2>4. CASE s # t /\ s # t2
    <3> DEFINE u == trees[s].associated_queue
               v == trees[s].next_merkle_tree
               w == queues[u].next_queue
    <3>1. /\ trees'[s] = trees[s] /\ trees[s] # None /\ v # None
          /\ u \in QueueAccount /\ queues[u] # None /\ queues'[u] = queues[u]
      BY <1>4, <2>4
    <3>2. /\ Succeeds(trees[s], queues[u], trees[v], queues[w], v, w)
          /\ \A x \in TreeAccount \ {s} : trees[x] # None => trees[x].next_merkle_tree # v
      BY <3>1 DEF IInv, SuccessorsLinked
    <3>3. v \in TreeAccount /\ w \in QueueAccount
      <4>1. w # None
        BY <3>1 DEF IInv, TreesPaired
      <4>2. trees[s] \in TreeType /\ queues[u] \in QueueType
        BY <1>3, <3>1
      <4> QED
        BY <3>1, <4>1, <4>2 DEF TreeType, QueueType
    <3>4. trees[v] # None /\ queues[w] # None
      BY <3>2 DEF Succeeds
    <3> HIDE DEF u, v, w
    <3>5. /\ trees'[v] # None /\ SameTree(trees'[v], trees[v])
          /\ queues'[w] # None /\ SameQueue(queues'[w], queues[w])
      <4>1. v # t2 /\ w # q2
        BY <1>2, <3>4 DEF RollEffect
      <4>2. trees'[v] # None /\ SameTree(trees'[v], trees[v])
        BY <1>2, <3>3, <3>4, <4>1 DEF RollEffect, IsRolledTree, SameTree
      <4>3. queues'[w] # None /\ SameQueue(queues'[w], queues[w])
        BY <1>2, <3>3, <3>4, <4>1 DEF RollEffect, IsRolledQueue, SameQueue
      <4> QED
        BY <4>2, <4>3
    <3>6. Succeeds(trees'[s], queues'[u], trees'[v], queues'[w], v, w)
      BY <3>1, <3>2, <3>5 DEF Succeeds, AssertRolledOverTree, AssertRolledOverQueue,
                              SameTree, SameQueue
    <3>7. \A x \in TreeAccount \ {s} : trees'[x] # None => trees'[x].next_merkle_tree # v
      <4> SUFFICES ASSUME NEW x \in TreeAccount \ {s}, trees'[x] # None
                   PROVE  trees'[x].next_merkle_tree # v
        OBVIOUS
      <4>1. CASE x = t
        BY <1>2, <3>4, <4>1 DEF RollEffect, IsRolledTree
      <4>2. CASE x = t2
        BY <1>2, <3>1, <4>2 DEF RollEffect, IsNewTree
      <4>3. CASE x # t /\ x # t2
        BY <1>4, <3>2, <4>3
      <4> QED
        BY <4>1, <4>2, <4>3
    <3> QED
      BY <3>1, <3>6, <3>7 DEF u, v, w
  <2> QED
    BY <2>2, <2>3, <2>4
<1>11. TreesServiced'
  <2> SUFFICES ASSUME NEW s \in TreeAccount, trees'[s] # None, trees'[s].owner \in Group
               PROVE  /\ trees'[s].service.forester # None \/ trees'[s].service.network_fee \in fees'
                      /\ trees'[s].kind = "state" => \E c \in ContextAccount : contexts'[c] = s
    BY DEF TreesServiced
  <2>1. \A c \in ContextAccount : contexts[c] # None => contexts'[c] = contexts[c]
    BY <1>1, <1>3 DEF ContextFor, init_cpi_context_account
  <2>2. ASSUME NEW x \in TreeAccount, trees[x] # None, trees[x].owner \in Group
        PROVE  /\ trees[x].service.forester # None \/ trees[x].service.network_fee \in fees'
               /\ trees[x].kind = "state" => \E c \in ContextAccount : contexts'[c] = x
    BY <1>3, <2>1, <2>2 DEF IInv, TreesServiced, BooksStep
  <2>3. CASE s = t
    BY <1>2, <2>2, <2>3 DEF RollEffect, IsRolledTree
  <2>4. CASE s = t2
    <3>1. ContextFor(t2) => \E c \in ContextAccount : contexts'[c] = t2
      BY <1>3 DEF ContextFor, init_cpi_context_account
    <3>2. /\ trees'[t2].owner = trees[t].owner /\ trees'[t2].service = trees[t].service
          /\ trees'[t2].kind = trees[t].kind /\ trees[t] # None
      BY <1>2 DEF RollEffect, IsNewTree
    <3> QED
      BY <1>1, <2>2, <2>4, <3>1, <3>2
  <2>5. CASE s # t /\ s # t2
    BY <1>4, <2>2, <2>5
  <2> QED
    BY <2>3, <2>4, <2>5
<1> QED
  BY <1>5, <1>6, <1>7, <1>8, <1>9, <1>10, <1>11 DEF IInv

-----------------------------------------------------------------------------
\* The theorems.

\* No account exists at first.
LEMMA InitIInv == ClientInit => IInv
<1> SUFFICES ASSUME ClientInit PROVE IInv
  OBVIOUS
<1>1. /\ trees = [t \in TreeAccount |-> None] /\ queues = [q \in QueueAccount |-> None]
      /\ registered = [p \in Program |-> None] /\ protocol = None /\ fees = {}
      /\ contexts = [c \in ContextAccount |-> None] /\ bundles = {}
  BY DEF ClientInit, RegistryInit, Init
<1> QED
  BY <1>1 DEF IInv, TypeOK, TreesPaired, QueuesPaired, FeesSet, FeesKept, SuccessorsLinked,
              TreesServiced

\* The invariant holds in every state.
LEMMA Invariance == ClientSpec => []IInv
<1>1. ASSUME IInv, [ClientNext]_clientVars PROVE IInv'
  <2>1. StepKind /\ BooksStep
    BY <1>1, StepCases DEF IInv
  <2>2. CASE IdleStep
    <3>1. TermsKept /\ NewPaired /\ NewServed
      BY <2>1, <2>2 DEF IdleStep, TermsKept, NewPaired, NewServed, SameTree, SameQueue, BooksStep
    <3>2. FeesKept'
      BY <1>1, <2>2 DEF IdleStep, IInv, FeesKept
    <3>3. TypeOK'
      BY <1>1, <2>1, <2>2 DEF IdleStep, IInv, TypeOK, BooksStep, BooksOK
    <3> QED
      BY <1>1, <3>1, <3>2, <3>3, TermsKeptPreserves DEF IInv
  <2>3. CASE CounterStep
    BY <1>1, <2>1, <2>3, CounterPreserves
  <2>4. CASE CreateStep
    BY <1>1, <2>1, <2>4, CreatePreserves
  <2>5. CASE RollStep
    BY <1>1, <2>1, <2>5, RollPreserves
  <2> QED
    BY <2>1, <2>2, <2>3, <2>4, <2>5 DEF StepKind
<1> QED
  BY <1>1, InitIInv, PTL DEF ClientSpec

\* TypeOK: the accounts hold metadata of the right form, and the bundles of the
\* clients name accounts.
THEOREM RegistryClientTypeOK == ClientSpec => []TypeOK
<1>1. IInv => TypeOK
  BY DEF IInv
<1> QED
  BY <1>1, Invariance, PTL

\* SuccessorsPaired: whichever rollovers succeed, by owners, foresters or the
\* service, tree and queue are rolled over together and exactly once, into a
\* pair of the same owner with the same threshold and fees.
THEOREM RegistryClientSuccessorsPaired == ClientSpec => []SuccessorsPaired
<1>1. IInv => SuccessorsPaired
  BY LinkedIsPaired DEF IInv
<1> QED
  BY <1>1, Invariance, PTL

\* TreesServiced: a tree of the registry's group has a forester of its own or
\* pays a network fee that was once in force, and it has a CPI context if it is a
\* state tree, through all rollovers and changes of the protocol config, to a
\* network fee of zero too.
THEOREM RegistryClientTreesServiced == ClientSpec => []TreesServiced
<1>1. IInv => TreesServiced
  BY DEF IInv
<1> QED
  BY <1>1, Invariance, PTL

\* FeesCoverRollover: for all sizes, thresholds and rents, a pair that leaves or
\* addresses have filled to its threshold can pay for its successor and keep
\* its own rent, although the fee per leaf is an integer.
THEOREM RegistryClientFeesCoverRollover == ClientSpec => []FeesCoverRollover
<1>1. IInv => FeesCoverRollover
  <2> SUFFICES ASSUME IInv, NEW t \in TreeAccount
               PROVE  LET tree   == trees[t]
                          queue  == queues[tree.associated_queue]
                          paying == IF tree.kind = "state" THEN tree ELSE queue
                          rent   == IF tree.kind = "state" THEN TreeRent ELSE QueueRent
                          paid   == IF tree.kind = "state" THEN tree.next_index
                                    ELSE tree.next_index - 2 + queue.waiting
                      IN  /\ tree # None
                          /\ MayRollover(tree)
                          /\ paid > 0
                          /\ 100 * paid >= Leaves * tree.rollover_threshold
                          => Reimburses(paying, rent)
    BY DEF FeesCoverRollover
  <2> DEFINE tree == trees[t]
             queue == queues[tree.associated_queue]
             h == tree.rollover_threshold
             f == RolloverFee(h)
  <2>1. SUFFICES ASSUME tree # None, MayRollover(tree)
                 PROVE  /\ tree.kind = "state" =>
                            (tree.next_index > 0 /\ 100 * tree.next_index >= Leaves * h
                                => Reimburses(tree, TreeRent))
                        /\ tree.kind # "state" =>
                            (/\ tree.next_index - 2 + queue.waiting > 0
                             /\ 100 * (tree.next_index - 2 + queue.waiting) >= Leaves * h
                             => Reimburses(queue, QueueRent))
    OBVIOUS
  <2>2. /\ tree \in TreeType /\ h # None /\ ~tree.rolledover
        /\ queue # None
    BY <2>1 DEF IInv, TypeOK, TreesPaired, MayRollover
  <2>3. h \in Nat \cup {None} /\ tree.next_index \in Nat /\ tree.associated_queue \in QueueAccount
    BY <2>2 DEF TreeType
  <2>4. queue \in QueueType
    BY <2>2, <2>3 DEF IInv, TypeOK
  <2>5. queue.waiting \in Nat
    BY <2>4 DEF QueueType
  <2>6. /\ TreeRent \in Nat /\ QueueRent \in Nat /\ f \in Nat
        /\ \A paid \in Nat \ {0} : 100 * paid >= Leaves * h => f * paid >= TreeRent + QueueRent
    BY <2>2, <2>3, FeeCovers, AccountCompressionAssumption
  <2>7. CASE tree.kind = "state"
    <3>1. tree.lamports = TreeRent + f * tree.next_index
      BY <2>1, <2>2, <2>7 DEF IInv, FeesKept, FeesSet
    <3> HIDE DEF f, h, tree
    <3>2. f * tree.next_index \in Nat
      BY <2>3, <2>6
    <3> QED
      BY <2>3, <2>6, <2>7, <3>1, <3>2 DEF Reimburses
  <2>8. CASE tree.kind # "state"
    <3> DEFINE paid == tree.next_index - 2 + queue.waiting
    <3>1. tree.next_index >= 2 /\ queue.lamports = QueueRent + f * paid
      BY <2>1, <2>2, <2>8 DEF IInv, FeesKept, FeesSet
    <3>2. paid \in Nat
      BY <2>3, <2>5, <3>1
    <3> HIDE DEF f, h, tree, queue, paid
    <3>3. f * paid \in Nat
      BY <2>6, <3>2
    <3>4. paid > 0 /\ 100 * paid >= Leaves * h => Reimburses(queue, QueueRent)
      BY <2>6, <3>1, <3>2, <3>3 DEF Reimburses
    <3> QED
      BY <2>8, <3>4 DEF paid
  <2> QED
    BY <2>7, <2>8
<1> QED
  BY <1>1, Invariance, PTL
=============================================================================
