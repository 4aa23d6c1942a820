---------------------------- MODULE RegistryCpi ----------------------------
(***************************************************************************)
(* The registry program in front of the account-compression program.  With *)
(* its CPI authority it registers programs to its group, creates trees and *)
(* queues for anybody on terms of the protocol config, lets foresters work *)
(* on them and roll them over, and gives each state tree a CPI context     *)
(* account of the system program.  Registry says which forester is         *)
(* eligible when; here a forester may be eligible at any time.             *)
(***************************************************************************)
EXTENDS AccountCompression

CONSTANTS
    Registry,           \* the registry program, the caller of its CPIs
    System,             \* the system program
    Forester,           \* wallets that are registered foresters
    ContextAccount,     \* addresses of CPI context accounts
    RightSize,          \* those of protocol_config.cpi_context_size
    NetworkFee          \* the values of protocol_config.network_fee

ASSUME RegistryCpiAssumption ==
    /\ {Registry, System} \subseteq Program
    /\ Forester \subseteq Wallet
    /\ RightSize \subseteq ContextAccount
    /\ NetworkFee \subseteq Nat

VARIABLES
    protocol,       \* authority and network fee of the protocol config
    contexts,       \* CpiContextAccount::associated_merkle_tree
    fees            \* history: the network fees that were ever in force

compressionVars == vars
registryVars == <<protocol, contexts, fees>>

RegistryInit ==
    /\ Init
    /\ protocol = None
    /\ contexts = [c \in ContextAccount |-> None]
    /\ fees = {}

-----------------------------------------------------------------------------
\* The protocol config and the group of the registry.

\* check_protocol_config looks at slots and lengths; any network fee passes it.
SetConfig(authority, fee) ==
    /\ protocol' = [authority |-> authority, network_fee |-> fee]
    /\ fees' = fees \cup {fee}
    /\ UNCHANGED <<compressionVars, contexts>>

initialize_protocol_config(w, fee) == protocol = None /\ SetConfig(w, fee)

IsAuthority(w) == protocol # None /\ protocol.authority = w

update_protocol_config(w, new_authority, fee) ==
    IsAuthority(w) /\ SetConfig(new_authority, fee)

register_system_program(w, g, p) ==
    /\ IsAuthority(w)
    /\ register_program_to_group(g, Registry, p)
    /\ UNCHANGED registryVars

deregister_system_program(w, g, p) ==
    /\ IsAuthority(w)
    /\ deregister_program(g, Registry, p)
    /\ UNCHANGED registryVars

-----------------------------------------------------------------------------
\* Creation of trees.

\* The terms on which anybody gets a state tree, or an address tree.
StateTerms(fee, forester) ==
    IF fee = None THEN forester # None ELSE fee = protocol.network_fee
AddressTerms(fee, forester) ==
    IF fee = None THEN forester # None ELSE fee = protocol.network_fee /\ forester = None

ServiceOf(fee, forester) == Service(IF fee = None THEN 0 ELSE fee, forester)

check_cpi_context(c) == c \in RightSize

\* init_cpi_context_account of the system program: the account is new.
init_cpi_context_account(c, t) ==
    /\ contexts[c] = None
    /\ contexts' = [contexts EXCEPT ![c] = t]

process_initialize_cpi_context(c, t) == init_cpi_context_account(c, t)

\* The trees belong to the group in which the registry is registered.
process_initialize_address_merkle_tree(service, t, q, threshold) ==
    initialize_address_merkle_tree_and_queue(
        Registry, registered[Registry], service, t, q, threshold)

process_initialize_state_merkle_tree(service, t, q, threshold) ==
    initialize_state_merkle_tree_and_nullifier_queue(
        Registry, registered[Registry], service, t, q, threshold)

initialize_address_merkle_tree(t, q, threshold, fee, forester) ==
    /\ protocol # None /\ AddressTerms(fee, forester)
    /\ process_initialize_address_merkle_tree(ServiceOf(fee, forester), t, q, threshold)
    /\ UNCHANGED registryVars

initialize_state_merkle_tree(t, q, c, threshold, fee, forester) ==
    /\ protocol # None /\ StateTerms(fee, forester)
    /\ check_cpi_context(c)
    /\ process_initialize_state_merkle_tree(ServiceOf(fee, forester), t, q, threshold)
    /\ process_initialize_cpi_context(c, t)
    /\ UNCHANGED <<protocol, fees>>

-----------------------------------------------------------------------------
\* Work on trees.

\* check_forester: a registered forester, who shows its ForesterEpochPda, works
\* for the network fee; the forester of the tree shows nothing.
check_forester(t, w, registered_forester_pda) ==
    /\ trees[t] # None
    /\ IF registered_forester_pda THEN w \in Forester /\ trees[t].service.network_fee # 0
                                  ELSE trees[t].service.forester = w

\* The CPIs, which the authority of the registry signs.
process_nullify(t, q) == nullify_leaves(Registry, t, q)

process_update_address_merkle_tree(t, q) == update_address_merkle_tree(Registry, t, q)

process_rollover_address_merkle_tree_and_queue(t, q, t2, q2) ==
    rollover_address_merkle_tree(Registry, t, q, t2, q2)

process_rollover_state_merkle_tree_and_queue(t, q, t2, q2) ==
    rollover_state_merkle_tree(Registry, t, q, t2, q2)

nullify(w, pda, t, q) ==
    /\ check_forester(t, w, pda)
    /\ process_nullify(t, q)
    /\ UNCHANGED registryVars

update_address_tree(w, pda, t, q) ==
    /\ check_forester(t, w, pda)
    /\ process_update_address_merkle_tree(t, q)
    /\ UNCHANGED registryVars

rollover_address_merkle_tree_and_queue(w, pda, t, q, t2, q2) ==
    /\ check_forester(t, w, pda)
    /\ process_rollover_address_merkle_tree_and_queue(t, q, t2, q2)
    /\ UNCHANGED registryVars

\* Mutant: the new CPI context is for the old tree.
RolloverOldContext(w, pda, t, q, t2, q2, c) ==
    /\ check_forester(t, w, pda)
    /\ check_cpi_context(c)
    /\ process_rollover_state_merkle_tree_and_queue(t, q, t2, q2)
    /\ process_initialize_cpi_context(c, t)
    /\ UNCHANGED <<protocol, fees>>

rollover_state_merkle_tree_and_queue(w, pda, t, q, t2, q2, c) ==
    /\ check_forester(t, w, pda)
    /\ check_cpi_context(c)
    /\ process_rollover_state_merkle_tree_and_queue(t, q, t2, q2)
    /\ process_initialize_cpi_context(c, t2)
    /\ UNCHANGED <<protocol, fees>>

-----------------------------------------------------------------------------
\* Trees that the registry created can be worked on, also after rollovers and
\* changes of the config: a tree without a forester of its own pays a network
\* fee that was in force at some time, so only a network fee of zero leaves trees
\* that nobody may service; and transactions over several programs find a CPI
\* context for each state tree.
TreesServiced ==
    \A t \in TreeAccount : trees[t] # None /\ trees[t].owner \in Group =>
        /\ trees[t].service.forester # None \/ trees[t].service.network_fee \in fees
        /\ trees[t].kind = "state" => \E c \in ContextAccount : contexts[c] = t
=============================================================================
