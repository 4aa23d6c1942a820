--------------------------- MODULE RegistryClient ---------------------------
(***************************************************************************)
(* Those who call the registry: the instruction builders of its sdk, the   *)
(* set-up of an environment, the random end-to-end test with its foresters *)
(* and the rollover of the forester service.  They keep bundles, the trees *)
(* they know of, with the accounts that belong to them.                    *)
(*                                                                         *)
(* The transactions also create the accounts that they initialize, with    *)
(* the sizes of the old accounts or of the configs; TreeAccount,           *)
(* QueueAccount and RightSize are accounts of these sizes.  A transaction  *)
(* that the chain refuses, and on which the client panics, does nothing.   *)
(***************************************************************************)
EXTENDS RegistryCpi

CONSTANTS
    DefaultFee,         \* the network fee in the default configs
    DefaultThreshold    \* their rollover threshold

ASSUME RegistryClientAssumption ==
    /\ DefaultFee \in NetworkFee
    /\ DefaultThreshold = None \/ DefaultThreshold \in Nat

VARIABLE bundles        \* trees known to the indexer

clientVars == <<compressionVars, registryVars, bundles>>

Bundle(t, q, c) == [merkle_tree |-> t, queue |-> q, cpi_context |-> c]

ClientInit == RegistryInit /\ bundles = {}

-----------------------------------------------------------------------------
\* The sdk.  A registered forester shows its ForesterEpochPda, the forester of
\* the tree's metadata does not.

create_nullify_instruction(w, is_metadata_forester, t, q) ==
    nullify(w, ~is_metadata_forester, t, q)

create_update_address_merkle_tree_instruction(w, is_metadata_forester, t, q) ==
    update_address_tree(w, ~is_metadata_forester, t, q)

create_rollover_address_merkle_tree_instruction(w, is_metadata_forester, t, q, t2, q2) ==
    rollover_address_merkle_tree_and_queue(w, ~is_metadata_forester, t, q, t2, q2)

create_rollover_state_merkle_tree_instruction(w, is_metadata_forester, t, q, t2, q2, c) ==
    rollover_state_merkle_tree_and_queue(w, ~is_metadata_forester, t, q, t2, q2, c)

create_initialize_group_authority_instruction(g, authority) ==
    initialize_group_authority(g, authority) /\ UNCHANGED registryVars

create_initialize_governance_authority_instruction(w, fee) == initialize_protocol_config(w, fee)

\* Without a new authority or a new config, that one stays.
create_update_protocol_config_instruction(w, new_authority, fee) ==
    update_protocol_config(w, IF new_authority = None THEN w ELSE new_authority,
                              IF fee = None THEN protocol.network_fee ELSE fee)

create_register_program_instruction(w, g, p) == register_system_program(w, g, p)

create_deregister_program_instruction(w, g, p) == deregister_system_program(w, g, p)

-----------------------------------------------------------------------------
\* Set-up of an environment: transactions one after the other.

initialize_new_group(g) == create_initialize_group_authority_instruction(g, Registry)

register_program_with_registry_program(w, g, p) == create_register_program_instruction(w, g, p)

deregister_program_with_registry_program(w, g, p) ==
    create_deregister_program_instruction(w, g, p)

\* Through the registry, or directly with the payer as owner.
create_state_merkle_tree_and_queue_account(t, q, c, threshold, fee, forester) ==
    initialize_state_merkle_tree(t, q, c, threshold, fee, forester)

create_state_tree_directly(payer, t, q, threshold, fee, forester) ==
    /\ initialize_state_merkle_tree_and_nullifier_queue(
            payer, payer, ServiceOf(fee, forester), t, q, threshold)
    /\ UNCHANGED registryVars

create_address_merkle_tree_and_queue_account(t, q, threshold, fee, forester) ==
    initialize_address_merkle_tree(t, q, threshold, fee, forester)

create_address_tree_directly(payer, t, q, threshold, fee, forester) ==
    /\ initialize_address_merkle_tree_and_queue(
            payer, payer, ServiceOf(fee, forester), t, q, threshold)
    /\ UNCHANGED registryVars

\* initialize_accounts up to the registration of the programs, and after it.
initialize_protocol(w) ==
    \/ create_initialize_governance_authority_instruction(w, DefaultFee)
    \/ \E g \in Group :
        \/ initialize_new_group(g)
        \/ \E p \in {System, Registry} : register_program_with_registry_program(w, g, p)

initialize_accounts(t, q, c) ==
    \/ /\ create_state_merkle_tree_and_queue_account(
                t, q, c, DefaultThreshold, DefaultFee, None)
       /\ bundles' = bundles \cup {Bundle(t, q, c)}
    \/ /\ create_address_merkle_tree_and_queue_account(
                t, q, DefaultThreshold, DefaultFee, None)
       /\ bundles' = bundles \cup {Bundle(t, q, None)}

-----------------------------------------------------------------------------
\* The end-to-end test.

create_state_tree(t, q, c, threshold, forester) ==
    /\ create_state_merkle_tree_and_queue_account(
            t, q, c, threshold, DefaultFee, forester)
    /\ bundles' = bundles \cup {Bundle(t, q, c)}

create_address_tree(t, q, threshold) ==
    /\ create_address_merkle_tree_and_queue_account(t, q, threshold, DefaultFee, None)
    /\ bundles' = bundles \cup {Bundle(t, q, None)}

\* One value of the queue; the test goes on until the queue is empty.
nullify_compressed_accounts(w, is_metadata_forester, b) ==
    /\ create_nullify_instruction(w, is_metadata_forester, b.merkle_tree, b.queue)
    /\ UNCHANGED bundles

\* Through the registry, or directly by the owner of the tree.
update_merkle_tree(w, is_metadata_forester, t, q) ==
    create_update_address_merkle_tree_instruction(w, is_metadata_forester, t, q)

update_own_merkle_tree(w, t, q) ==
    update_address_merkle_tree(w, t, q) /\ UNCHANGED registryVars

empty_address_queue_test(w, is_metadata_forester, b) ==
    /\ update_merkle_tree(w, is_metadata_forester, b.merkle_tree, b.queue)
    /\ UNCHANGED bundles

\* The threshold is reached, the tree has lamports for two trees and has not
\* been rolled over.
state_tree_ready_for_rollover(t) ==
    /\ trees[t].rollover_threshold # None
    /\ Ready(trees[t])
    /\ trees[t].lamports >= 2 * TreeRent
    /\ ~trees[t].rolledover

\* A rollover with the creation of the new accounts, in one transaction: they
\* have the sizes of the old ones, and the CPI context account that of the config.
create_rollover_state_merkle_tree_instructions(w, is_metadata_forester, t, q, t2, q2, c) ==
    /\ c \in RightSize
    /\ create_rollover_state_merkle_tree_instruction(w, is_metadata_forester, t, q, t2, q2, c)

create_rollover_address_merkle_tree_instructions(w, is_metadata_forester, t, q, t2, q2) ==
    create_rollover_address_merkle_tree_instruction(w, is_metadata_forester, t, q, t2, q2)

perform_state_merkle_tree_roll_over_forester(w, is_metadata_forester, t, q, t2, q2, c) ==
    create_rollover_state_merkle_tree_instructions(w, is_metadata_forester, t, q, t2, q2, c)

perform_address_merkle_tree_roll_over_forester(w, is_metadata_forester, t, q, t2, q2) ==
    create_rollover_address_merkle_tree_instructions(w, is_metadata_forester, t, q, t2, q2)

\* The owner of a tree rolls it over without the registry, into accounts of its
\* own making; one byte too many, and the program refuses the new accounts.
StateMerkleTreeRolloverMode == {None, "QueueInvalidSize", "TreeInvalidSize"}
perform_state_merkle_tree_roll_over(w, mode, t, q, t2, q2) ==
    /\ mode = None
    /\ rollover_state_merkle_tree(w, t, q, t2, q2)
    /\ UNCHANGED registryVars

perform_own_address_merkle_tree_roll_over(w, t, q, t2, q2) ==
    rollover_address_merkle_tree(w, t, q, t2, q2) /\ UNCHANGED registryVars

e2e_rollover_state_merkle_tree_and_queue(w, b, t2, q2, c) ==
    /\ b.cpi_context # None
    /\ state_tree_ready_for_rollover(b.merkle_tree)
    /\ perform_state_merkle_tree_roll_over_forester(
            w, FALSE, b.merkle_tree, b.queue, t2, q2, c)
    /\ bundles' = bundles \cup {Bundle(t2, q2, c)}

-----------------------------------------------------------------------------
\* The forester service, which does not look at the lamports.

is_tree_ready_for_rollover(t) ==
    /\ ~trees[t].rolledover
    /\ trees[t].rollover_threshold # None
    /\ Ready(trees[t])

perform_address_merkle_tree_roll_over(w, t, q, t2, q2) ==
    create_rollover_address_merkle_tree_instruction(w, FALSE, t, q, t2, q2)

forester_rollover_address_merkle_tree(w, b, t2, q2) ==
    /\ b.cpi_context = None
    /\ is_tree_ready_for_rollover(b.merkle_tree)
    /\ perform_address_merkle_tree_roll_over(w, b.merkle_tree, b.queue, t2, q2)
    /\ bundles' = bundles \cup {Bundle(t2, q2, None)}

-----------------------------------------------------------------------------
\* activate_general_actions and the forester service, in any order.
CreateKnown(t, q, c) ==
    \/ initialize_accounts(t, q, c)
    \/ \E h \in Thresholds, f \in Wallet :
        create_state_tree(t, q, c, h, f) \/ create_address_tree(t, q, h)

WorkOnKnown(w, b) ==
    \/ nullify_compressed_accounts(w, FALSE, b)
    \/ empty_address_queue_test(w, FALSE, b)
    \/ \E t \in TreeAccount, q \in QueueAccount :
        \/ forester_rollover_address_merkle_tree(w, b, t, q)
        \/ \E c \in RightSize : e2e_rollover_state_merkle_tree_and_queue(w, b, t, q, c)

\* Trees of others: with an owner of their own, or on any terms that the
\* registry takes.
CreateOwn(w, t, q) ==
    \E h \in Thresholds :
        \/ create_address_tree_directly(w, t, q, h, None, w)
        \/ create_state_tree_directly(w, t, q, h, None, w)
        \/ \E fee \in NetworkFee \cup {None}, forester \in {w, None} :
            \/ create_address_merkle_tree_and_queue_account(t, q, h, fee, forester)
            \/ \E c \in ContextAccount :
                create_state_merkle_tree_and_queue_account(t, q, c, h, fee, forester)

WorkOnOwn(w, t, q) ==
    \/ create_nullify_instruction(w, TRUE, t, q)
    \/ update_merkle_tree(w, TRUE, t, q)
    \/ update_own_merkle_tree(w, t, q)
    \/ \E t2 \in TreeAccount, q2 \in QueueAccount :
        \/ perform_address_merkle_tree_roll_over_forester(w, TRUE, t, q, t2, q2)
        \/ perform_own_address_merkle_tree_roll_over(w, t, q, t2, q2)
        \/ \E mode \in StateMerkleTreeRolloverMode :
            perform_state_merkle_tree_roll_over(w, mode, t, q, t2, q2)
        \/ \E c \in ContextAccount :
            create_rollover_state_merkle_tree_instruction(w, TRUE, t, q, t2, q2, c)

\* The authority of the protocol changes its config and its group.
Govern(w) ==
    \/ initialize_protocol(w)
    \/ \E v \in Wallet \cup {None}, fee \in NetworkFee \cup {None} :
        create_update_protocol_config_instruction(w, v, fee)
    \/ \E g \in Group, p \in Program : deregister_program_with_registry_program(w, g, p)

ClientNext ==
    \/ \E w \in Wallet :
        \/ Govern(w) /\ UNCHANGED bundles
        \/ \E b \in bundles : WorkOnKnown(w, b)
        \/ \E t \in TreeAccount, q \in QueueAccount :
            \/ \E c \in RightSize : CreateKnown(t, q, c)
            \/ (CreateOwn(w, t, q) \/ WorkOnOwn(w, t, q)) /\ UNCHANGED bundles
    \/ /\ \/ \E w \in Wallet : WalletCall(w) \/ AppendOrInsert(w)
          \/ AppendOrInsert(System)
       /\ UNCHANGED <<registryVars, bundles>>

ClientSpec == ClientInit /\ [][ClientNext]_clientVars
=============================================================================
