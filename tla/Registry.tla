------------------------------ MODULE Registry ------------------------------
(***************************************************************************)
(* programs/registry: which forester may update which tree when.  Time is  *)
(* the Solana slot.  For every epoch the program keeps an EpochPda, created*)
(* by the first registration with a copy of the protocol config of that    *)
(* moment, and a ForesterEpochPda per registered forester.  A forester is  *)
(* eligible for a queue in a light slot when a hash falls into the range   *)
(* of weights that was free when it registered.                            *)
(*                                                                         *)
(* The config's authority may replace the config at any time; epochs that  *)
(* exist keep their copy.  Signer checks only restrict who sends an        *)
(* instruction and are left out.  A failing instruction changes nothing.   *)
(***************************************************************************)
EXTENDS Integers, FiniteSetsExt

CONSTANTS
    Forester,        \* the ForesterPda accounts
    Queue,           \* the queue accounts of the serviced trees
    Config,          \* the protocol configs the authority may choose
    Weight,          \* the weights the authority may give a forester
    Epoch,           \* bound: the epochs considered
    Hash(_, _, _),   \* the first eight bytes of the hash of queue, epoch, light slot
    None,            \* an account that does not exist, Option::None
    MaxSlot,         \* bound: Solana slots
    MaxWork          \* bound: instructions of a forester in an epoch

ConfigType ==
    [genesis_slot : Nat, min_weight : Nat, slot_length : Nat \ {0},
     registration_phase_length : Nat, active_phase_length : Nat \ {0},
     report_work_phase_length : Nat, finalize_counter_limit : Nat]

\* The accounts of the program.
EpochPda == [protocol_config : Config, total_work : Nat, registered_weight : Nat]

ForesterEpochPda ==
    [weight : Nat, work_counter : Nat, has_reported_work : BOOLEAN, forester_index : Nat,
     epoch_active_phase_start_slot : Nat, total_epoch_weight : Nat \cup {None},
     protocol_config : Config, finalize_counter : Nat]

ASSUME RegistryAssumption ==
    /\ IsFiniteSet(Forester)
    /\ Config \subseteq ConfigType
    /\ Weight \subseteq Nat
    /\ Epoch \subseteq Nat
    /\ MaxSlot \in Nat
    /\ MaxWork \in Nat
    /\ \A q \in Queue, e \in Epoch, s \in 0 .. MaxSlot : Hash(q, e, s) \in Nat
    /\ None \notin Nat
    /\ None \notin EpochPda
    /\ None \notin ForesterEpochPda

VARIABLES
    slot,            \* Clock::get()?.slot
    config,          \* ProtocolConfigPda
    active_weight,   \* ForesterPda.active_weight
    epochs,          \* EpochPda
    forester_epochs  \* ForesterEpochPda

vars == <<slot, config, active_weight, epochs, forester_epochs>>

\* check_protocol_config
check_protocol_config(c) ==
    /\ c.min_weight # 0
    /\ c.active_phase_length >= c.registration_phase_length
    /\ c.active_phase_length >= c.report_work_phase_length
    /\ c.active_phase_length >= c.slot_length

\* get_latest_register_epoch and its progress; they fail before the genesis.
get_latest_register_epoch(c, s) == (s - c.genesis_slot) \div c.active_phase_length
get_latest_register_epoch_progress(c, s) == (s - c.genesis_slot) % c.active_phase_length

\* The first slot of the first active phase.
ActiveGenesis(c) == c.genesis_slot + c.registration_phase_length

\* get_current_active_epoch and its progress, defined from ActiveGenesis on
get_current_active_epoch(c, s) == (s - ActiveGenesis(c)) \div c.active_phase_length
get_current_active_epoch_progress(c, s) == (s - ActiveGenesis(c)) % c.active_phase_length

\* Mutant: registration stays open for the whole epoch.
RegistrationAnySlot(c, s) == s >= c.genesis_slot

is_registration_phase(c, s) ==
    /\ s >= c.genesis_slot
    /\ get_latest_register_epoch_progress(c, s) < c.registration_phase_length

\* The slot is_registration_phase returns: where the active phase will start.
ActivePhaseStart(c, e) == e * c.active_phase_length + ActiveGenesis(c)

is_active_phase(c, s, e) ==
    /\ s >= ActiveGenesis(c)
    /\ get_current_active_epoch(c, s) = e

\* Mutant: work can be reported while the epoch is still active.
ReportInActivePhase(c, s, e) ==
    /\ is_active_phase(c, s, e)
    /\ get_current_active_epoch_progress(c, s) < c.report_work_phase_length

is_report_work_phase(c, s, e) ==
    /\ is_active_phase(c, s, e + 1)
    /\ get_current_active_epoch_progress(c, s) < c.report_work_phase_length

-----------------------------------------------------------------------------
\* The ForesterEpochPda of forester f for epoch e, and whether it exists.
Pda(f, e) == forester_epochs[<<f, e>>]
Registered(f, e) == Pda(f, e) # None

\* get_current_light_slot
LightSlot(pda, s) ==
    (s - pda.epoch_active_phase_start_slot) \div pda.protocol_config.slot_length

\* Mutant: the end of the range is eligible too.
EligibleInclusive(pda, index) ==
    pda.forester_index <= index /\ index <= pda.forester_index + pda.weight

is_eligible(pda, index) ==
    pda.forester_index <= index /\ index < pda.forester_index + pda.weight

\* check_eligibility of forester f for the queue q in the current slot
check_eligibility(f, e, q) ==
    LET pda == Pda(f, e)
    IN  /\ is_active_phase(pda.protocol_config, slot, e)
        /\ slot >= pda.epoch_active_phase_start_slot
        /\ pda.total_epoch_weight # None
        /\ is_eligible(pda, Hash(q, e, LightSlot(pda, slot)) % pda.total_epoch_weight)

-----------------------------------------------------------------------------
\* initialize_protocol_config
Init ==
    /\ slot = 0
    /\ config \in {c \in Config : check_protocol_config(c)}
    /\ active_weight = [f \in Forester |-> 0]
    /\ epochs = [e \in Epoch |-> None]
    /\ forester_epochs = [fe \in Forester \X Epoch |-> None]

Tick ==
    /\ slot < MaxSlot
    /\ slot' = slot + 1
    /\ UNCHANGED <<config, active_weight, epochs, forester_epochs>>

\* update_protocol_config: the genesis slot cannot be changed.
update_protocol_config(c) ==
    /\ c.genesis_slot = config.genesis_slot
    /\ check_protocol_config(c)
    /\ config' = c
    /\ UNCHANGED <<slot, active_weight, epochs, forester_epochs>>

\* register_forester and update_forester_pda_weight
update_forester_pda_weight(f, w) ==
    /\ active_weight' = [active_weight EXCEPT ![f] = w]
    /\ UNCHANGED <<slot, config, epochs, forester_epochs>>

\* A new EpochPda takes the config of the moment.
NewEpochAccount == [protocol_config |-> config, total_work |-> 0, registered_weight |-> 0]

\* Mutant: every registration starts the account anew.
EpochAccountAlwaysNew(e) == NewEpochAccount

\* register_forester_epoch creates the EpochPda if it has no registered weight.
EpochAccount(e) ==
    IF epochs[e] = None \/ epochs[e].registered_weight = 0 THEN NewEpochAccount ELSE epochs[e]

\* register_forester_epoch and process_register_for_epoch
register_forester_epoch(f, e) ==
    LET epoch_pda == EpochAccount(e)
        c == epoch_pda.protocol_config
    IN  /\ ~Registered(f, e)
        /\ slot >= c.genesis_slot
        /\ get_latest_register_epoch(c, slot) = e
        /\ active_weight[f] >= c.min_weight
        /\ is_registration_phase(c, slot)
        /\ forester_epochs' = [forester_epochs EXCEPT ![<<f, e>>] =
                [weight                        |-> active_weight[f],
                 work_counter                  |-> 0,
                 has_reported_work             |-> FALSE,
                 forester_index                |-> epoch_pda.registered_weight,
                 epoch_active_phase_start_slot |-> ActivePhaseStart(c, e),
                 total_epoch_weight            |-> None,
                 protocol_config               |-> c,
                 finalize_counter              |-> 0]]
        /\ epochs' = [epochs EXCEPT ![e] =
                [protocol_config   |-> c,
                 total_work        |-> epoch_pda.total_work,
                 registered_weight |-> epoch_pda.registered_weight + active_weight[f]]]
        /\ UNCHANGED <<slot, config, active_weight>>

\* finalize_registration: the forester learns the total weight of its epoch.
finalize_registration(f, e) ==
    /\ Registered(f, e)
    /\ is_active_phase(epochs[e].protocol_config, slot, e)
    /\ Pda(f, e).finalize_counter + 1
            <= Pda(f, e).protocol_config.finalize_counter_limit
    /\ forester_epochs' = [forester_epochs EXCEPT ![<<f, e>>] =
            [Pda(f, e) EXCEPT !.total_epoch_weight = epochs[e].registered_weight,
                              !.finalize_counter = Pda(f, e).finalize_counter + 1]]
    /\ UNCHANGED <<slot, config, active_weight, epochs>>

\* nullify, update_address_merkle_tree and the rollovers: check_forester
\* counts the instruction.
forest(f, e, q) ==
    /\ Registered(f, e)
    /\ check_eligibility(f, e, q)
    /\ Pda(f, e).work_counter < MaxWork
    /\ forester_epochs' = [forester_epochs EXCEPT ![<<f, e>>] =
            [Pda(f, e) EXCEPT !.work_counter = Pda(f, e).work_counter + 1]]
    /\ UNCHANGED <<slot, config, active_weight, epochs>>

\* Mutant: a report does not check that it is the first.
MayReportAgain(f, e) == is_report_work_phase(epochs[e].protocol_config, slot, e)

\* The checks of report_work
MayReport(f, e) ==
    /\ is_report_work_phase(epochs[e].protocol_config, slot, e)
    /\ ~Pda(f, e).has_reported_work

\* report_work
report_work(f, e) ==
    /\ Registered(f, e)
    /\ MayReport(f, e)
    /\ epochs' = [epochs EXCEPT ![e] =
            [epochs[e] EXCEPT !.total_work = epochs[e].total_work + Pda(f, e).work_counter]]
    /\ forester_epochs' = [forester_epochs EXCEPT ![<<f, e>>] =
            [Pda(f, e) EXCEPT !.has_reported_work = TRUE]]
    /\ UNCHANGED <<slot, config, active_weight>>

Next ==
    \/ Tick
    \/ \E c \in Config : update_protocol_config(c)
    \/ \E f \in Forester, w \in Weight : update_forester_pda_weight(f, w)
    \/ \E f \in Forester, e \in Epoch :
        \/ register_forester_epoch(f, e)
        \/ finalize_registration(f, e)
        \/ \E q \in Queue : forest(f, e, q)
        \/ report_work(f, e)

Spec == Init /\ [][Next]_vars

-----------------------------------------------------------------------------
\* The accounts have their types.
TypeOK ==
    /\ slot \in 0 .. MaxSlot
    /\ config \in Config
    /\ active_weight \in [Forester -> Nat]
    /\ epochs \in [Epoch -> EpochPda \cup {None}]
    /\ forester_epochs \in [Forester \X Epoch -> ForesterEpochPda \cup {None}]

\* The weight ranges of an epoch's foresters are disjoint and cover every
\* index below the registered weight, however registrations, changes of
\* weights and changes of the config interleave.
RangesPartition ==
    \A e \in Epoch : epochs[e] # None =>
        \A i \in 0 .. epochs[e].registered_weight - 1 :
            /\ \E f \in Forester : Registered(f, e) /\ is_eligible(Pda(f, e), i)
            /\ \A f, g \in Forester :
                /\ Registered(f, e) /\ is_eligible(Pda(f, e), i)
                /\ Registered(g, e) /\ is_eligible(Pda(g, e), i)
                => f = g

\* All foresters that finalized compute eligibility from the same total, the
\* weight of everyone who registered: nobody registers after a finalization.
TotalsAgree ==
    \A f \in Forester, e \in Epoch :
        Registered(f, e) /\ Pda(f, e).total_epoch_weight # None
            => Pda(f, e).total_epoch_weight = epochs[e].registered_weight

\* Two foresters of an epoch are never eligible for the same queue at once.
UniqueForester ==
    \A e \in Epoch, q \in Queue, f, g \in Forester :
        /\ Registered(f, e) /\ Registered(g, e)
        /\ check_eligibility(f, e, q) /\ check_eligibility(g, e, q)
        => f = g

\* What forester f has reported for epoch e.
ReportedWork(f, e) ==
    IF Registered(f, e) /\ Pda(f, e).has_reported_work THEN Pda(f, e).work_counter ELSE 0

\* The work an epoch has collected is the work of the foresters that have
\* reported, each counted once and with its final count.
WorkAccounted ==
    \A e \in Epoch : epochs[e] # None =>
        epochs[e].total_work = SumFunctionOnSet([f \in Forester |-> ReportedWork(f, e)], Forester)

\* A forester that has reported its work does no more work in that epoch.
ReportedIsFinal ==
    [][\A f \in Forester, e \in Epoch :
        Registered(f, e) /\ Pda(f, e).has_reported_work
            => forester_epochs'[<<f, e>>] # None
               /\ forester_epochs'[<<f, e>>].work_counter = Pda(f, e).work_counter]_vars
=============================================================================
