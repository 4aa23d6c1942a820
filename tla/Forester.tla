------------------------------ MODULE Forester ------------------------------
(***************************************************************************)
(* forester/src: the service that empties the queues.  For every epoch it  *)
(* runs a task (process_epoch) that registers, waits for the active phase, *)
(* finalizes, works and reports; while it works, every process_queue call  *)
(* fetches the items of a queue and sends one transaction per item, with   *)
(* retries.  The registry program of module Registry decides what a        *)
(* transaction does.                                                       *)
(*                                                                         *)
(* What the code reads at an await is read in a step of its own, so slots  *)
(* pass and other tasks run in between.  The slot tracker's estimate is    *)
(* within Drift slots of the clock, on either side, and is read anew       *)
(* wherever the code asks for it.  RPC calls fail, transactions are        *)
(* answered late or not at all, and the process is restarted.              *)
(*                                                                         *)
(* The protocol config and the weights do not change; transactions carry   *)
(* one item (TRANSACTION_BATCH_SIZE=1 in forester.toml), which makes the   *)
(* items of a chunk of INDEXER_BATCH_SIZE items sequential.  process_queue *)
(* spawns its chunks concurrently; a call of the model has one chunk, and  *)
(* the concurrency is that of the calls that updates spawn.                *)
(***************************************************************************)
EXTENDS Registry

CONSTANTS
    Item,         \* the queue elements users insert
    QueueOf,      \* the queue of every item
    Drift,        \* bound: error of the slot tracker, in slots
    MaxRetries,   \* config.max_retries
    MaxCalls      \* bound: process_queue calls that updates spawn, for a task

\* The stages of process_epoch.
Stage ==
    {"register", "build", "registering", "wait_active", "finalize", "active", "initial",
     "updates", "rollover", "wait_report", "report", "done", "failed"}

\* epoch is the epoch of the registration; todo the queues process_queues has
\* not reached; spawned counts the calls of updates.
Task == [at : Stage, epoch : Epoch, todo : SUBSET Queue, spawned : 0 .. MaxCalls]

ASSUME ForesterAssumption ==
    /\ QueueOf \in [Item -> Queue]
    /\ 0 \in Epoch
    /\ None \notin Task
    /\ Drift \in Nat /\ MaxRetries \in Nat /\ MaxCalls \in Nat

VARIABLES
    pending,      \* items in the queues, sequence_number None
    nullified,    \* items that have been processed on chain
    rolledover,   \* queues that have been rolled over
    last_epoch,   \* last_epoch of monitor_epochs
    task,         \* process_epoch of a forester for an epoch, None if there is none
    updates,      \* QueueUpdates in the task's channel
    calls,        \* process_queue calls that run
    late,         \* transactions nobody waits for any more
    processed     \* processed_items_per_epoch_count

chainVars == <<pending, nullified, rolledover>>
localVars == <<last_epoch, task, updates, calls, late, processed>>
foresterVars == <<vars, chainVars, localVars>>

-----------------------------------------------------------------------------
\* estimated_current_slot
EstimatedSlot == {s \in 0 .. MaxSlot + Drift : slot <= s + Drift /\ s <= slot + Drift}

\* saturating_sub
Minus(m, n) == IF m >= n THEN m - n ELSE 0

\* get_epoch_phases: a phase ends one slot before the next one starts.
get_epoch_phases(c, e) ==
    LET phase(start, length) == [start |-> start, end |-> Minus(start + length, 1)]
        registration == phase(c.genesis_slot + e * c.active_phase_length,
                              c.registration_phase_length)
        active == phase(registration.end + 1, c.active_phase_length)
    IN  [registration |-> registration, active |-> active,
         report_work |-> phase(active.end + 1, c.report_work_phase_length)]

Phases(e) == get_epoch_phases(config, e)

\* get_current_epoch
get_current_epoch(c, s) == Minus(s, c.genesis_slot) \div c.active_phase_length

\* EpochManager::is_in_active_phase; before the genesis it is an error.
is_in_active_phase(s, e) == is_active_phase(config, s, e)

\* slots_until_next_epoch_registration and the check of Epoch::register: the
\* epoch to register for, None outside a registration phase.
EpochToRegister(c, s) ==
    LET latest == get_latest_register_epoch(c, s)
        start(e) == c.genesis_slot + e * c.active_phase_length
        end(e) == start(e) + c.registration_phase_length
        e == IF s > end(latest) THEN latest + 1 ELSE latest
    IN  IF start(e) > s \/ end(e) <= s THEN None ELSE e

\* get_schedule_for_queue and get_schedule_for_forester_in_queue: the light
\* slots of the epoch that are Some in the forester's schedule.  The index is
\* computed from start_slot, 0, for every slot, so that the forester may take
\* slots for its own in which the registry refuses it, and miss others.
Schedule(pda, e, q) ==
    {i \in 0 .. Minus(pda.protocol_config.active_phase_length
                        \div pda.protocol_config.slot_length, 1) :
        is_eligible(pda, Hash(q, e, 0) % pda.total_epoch_weight)}

-----------------------------------------------------------------------------
\* A change of queue q reaches the tasks that are subscribed to it.
Notify(q) ==
    [fe \in DOMAIN task |->
        IF task[fe] # None /\ task[fe].at = "updates"
        THEN updates[fe] \cup {[queue |-> q, slot |-> slot]} ELSE updates[fe]]

\* A transaction of forester f for item i executes: nullify or
\* update_address_merkle_tree through the registry.
MayProcess(f, e, i) == i \in pending /\ Registered(f, e) /\ check_eligibility(f, e, QueueOf[i])
ProcessItem(f, e, i) ==
    /\ i \in pending
    /\ forest(f, e, QueueOf[i])
    /\ pending' = pending \ {i}
    /\ nullified' = nullified \cup {i}
    /\ updates' = Notify(QueueOf[i])
    /\ UNCHANGED rolledover

\* The task of forester f for epoch e goes on at another stage.
Goto(f, e, at) == task' = [task EXCEPT ![<<f, e>>] = [@ EXCEPT !.at = at]]
At(f, e, at) == task[<<f, e>>] # None /\ task[<<f, e>>].at = at
RegisteredEpoch(f, e) == task[<<f, e>>].epoch

\* The calls the task of f for e has started and that still run.
CallsOf(f, e) == {c \in calls : c.forester = f /\ c.task = e}

-----------------------------------------------------------------------------
ForesterInit ==
    /\ slot = 0
    /\ config \in {c \in Config : check_protocol_config(c)}
    /\ active_weight \in [Forester -> Weight]
    /\ epochs = [e \in Epoch |-> None]
    /\ forester_epochs = [fe \in Forester \X Epoch |-> None]
    /\ pending = {} /\ nullified = {} /\ rolledover = {}
    /\ last_epoch = [f \in Forester |-> None]
    /\ task = [fe \in Forester \X Epoch |-> None]
    /\ updates = [fe \in Forester \X Epoch |-> {}]
    /\ calls = {} /\ late = {}
    /\ processed = [fe \in Forester \X Epoch |-> 0]

\* A user consumes an account or creates an address.
Insert(i) ==
    /\ i \notin pending \cup nullified
    /\ pending' = pending \cup {i}
    /\ updates' = Notify(QueueOf[i])
    /\ UNCHANGED <<vars, nullified, rolledover, last_epoch, task, calls, late, processed>>

SlotPasses == Tick /\ UNCHANGED <<chainVars, localVars>>

\* A step of monitor_epochs, and run, which spawns the task.  The monitor then
\* waits for the next registration phase; an RPC error ends the wait early.
monitor_epochs(f) ==
    \E estimate \in EstimatedSlot :
        LET e == get_current_epoch(config, estimate)
        IN  /\ e \in Epoch
            /\ IF last_epoch[f] = None THEN TRUE ELSE e > last_epoch[f]
            /\ estimate < Phases(e).registration.end
            /\ last_epoch' = [last_epoch EXCEPT ![f] = e]
            /\ task' = [task EXCEPT ![<<f, e>>] =
                    [at |-> "register", epoch |-> e, todo |-> {}, spawned |-> 0]]
            /\ UNCHANGED <<vars, chainVars, updates, calls, late, processed>>

\* register_for_epoch: too late, or on to Epoch::register
register_for_epoch(f, e) ==
    /\ At(f, e, "register")
    /\ Goto(f, e, IF slot < Phases(e).registration.end THEN "build" ELSE "failed")
    /\ UNCHANGED <<vars, chainVars, last_epoch, updates, calls, late, processed>>

\* Epoch::register reads the slot again and builds the transaction.
register(f, e) ==
    LET r == EpochToRegister(config, slot)
    IN  /\ At(f, e, "build")
        /\ r \in Epoch \cup {None}
        /\ IF r = None THEN Goto(f, e, "failed")
           ELSE task' = [task EXCEPT ![<<f, e>>] = [@ EXCEPT !.at = "registering", !.epoch = r]]
        /\ UNCHANGED <<vars, chainVars, last_epoch, updates, calls, late, processed>>

\* Mutant: a registration that exists is taken for one's own.
RegisterRecovers(f, e) ==
    /\ At(f, e, "registering")
    /\ \/ register_forester_epoch(f, RegisteredEpoch(f, e))
       \/ Registered(f, RegisteredEpoch(f, e)) /\ UNCHANGED vars
    /\ \E at \in {"wait_active", "failed"} : Goto(f, e, at)
    /\ UNCHANGED <<chainVars, last_epoch, updates, calls, late, processed>>

\* The transaction executes; a task that does not get the answer has failed.
RegisterLands(f, e) ==
    /\ At(f, e, "registering")
    /\ register_forester_epoch(f, RegisteredEpoch(f, e))
    /\ \E at \in {"wait_active", "failed"} : Goto(f, e, at)
    /\ UNCHANGED <<chainVars, last_epoch, updates, calls, late, processed>>

\* Mutant: the estimate is not checked against the slot of the RPC node.
WaitOnEstimate(target) == \E estimate \in EstimatedSlot : estimate >= target

\* wait_until_slot_reached
wait_until_slot_reached(target) ==
    /\ \E estimate \in EstimatedSlot : estimate >= target
    /\ slot >= target

\* wait_for_active_phase, up to the transaction
wait_for_active_phase(f, e) ==
    /\ At(f, e, "wait_active")
    /\ wait_until_slot_reached(Phases(RegisteredEpoch(f, e)).active.start)
    /\ Goto(f, e, "finalize")
    /\ UNCHANGED <<vars, chainVars, last_epoch, updates, calls, late, processed>>

\* The finalize_registration transaction; the ForesterEpochPda fetched after
\* it gives the schedule.
FinalizeLands(f, e) ==
    /\ At(f, e, "finalize")
    /\ finalize_registration(f, RegisteredEpoch(f, e))
    /\ \E at \in {"active", "failed"} : Goto(f, e, at)
    /\ UNCHANGED <<chainVars, last_epoch, updates, calls, late, processed>>

\* perform_active_work up to process_queues
perform_active_work(f, e) ==
    /\ At(f, e, "active")
    /\ \E estimate \in EstimatedSlot :
        \/ estimate < ActiveGenesis(config) /\ Goto(f, e, "failed")
        \/ estimate >= ActiveGenesis(config) /\ task' = [task EXCEPT ![<<f, e>>] =
                IF is_in_active_phase(estimate, RegisteredEpoch(f, e))
                THEN [@ EXCEPT !.at = "initial", !.todo = Queue]
                ELSE [@ EXCEPT !.at = "wait_report"]]
    /\ UNCHANGED <<vars, chainVars, last_epoch, updates, calls, late, processed>>

\* A process_queue call begins; n tells the calls of a task apart.
NewCall(f, e, n, q) ==
    [forester |-> f, task |-> e, n |-> n, epoch |-> RegisteredEpoch(f, e), queue |-> q,
     at |-> "fetch", items |-> {}, item |-> None, retries |-> 0]

\* process_queues: one queue after the other
process_queues(f, e, q) ==
    /\ At(f, e, "initial")
    /\ q \in task[<<f, e>>].todo
    /\ CallsOf(f, e) = {}
    /\ calls' = calls \cup {NewCall(f, e, 0, q)}
    /\ task' = [task EXCEPT ![<<f, e>>] = [@ EXCEPT !.todo = task[<<f, e>>].todo \ {q}]]
    /\ UNCHANGED <<vars, chainVars, last_epoch, updates, late, processed>>

\* setup_pubsub_client: what changed before is not reported.
setup_pubsub_client(f, e) ==
    /\ At(f, e, "initial")
    /\ task[<<f, e>>].todo = {}
    /\ CallsOf(f, e) = {}
    /\ Goto(f, e, "updates")
    /\ updates' = [updates EXCEPT ![<<f, e>>] = {}]
    /\ UNCHANGED <<vars, chainVars, last_epoch, calls, late, processed>>

\* The loop over the updates ends after an update from the end of the active
\* phase on, or when the estimate is there after an update.
ReceiveUpdate(f, e, u) ==
    LET end == Phases(RegisteredEpoch(f, e)).active.end
        n == task[<<f, e>>].spawned + 1
    IN  /\ At(f, e, "updates")
        /\ u \in updates[<<f, e>>]
        /\ updates' = [updates EXCEPT ![<<f, e>>] = @ \ {u}]
        /\ \/ u.slot >= end /\ Goto(f, e, "rollover") /\ UNCHANGED calls
           \/ /\ u.slot < end /\ n <= MaxCalls
              /\ calls' = calls \cup {NewCall(f, e, n, u.queue)}
              /\ \E estimate \in EstimatedSlot :
                    task' = [task EXCEPT ![<<f, e>>] =
                        [@ EXCEPT !.at = IF estimate >= end THEN "rollover" ELSE "updates",
                                  !.spawned = n]]
        /\ UNCHANGED <<vars, chainVars, last_epoch, late, processed>>

\* The pubsub client has ended and its channel is closed.
UpdatesClosed(f, e) ==
    /\ At(f, e, "updates")
    /\ updates[<<f, e>>] = {}
    /\ Goto(f, e, "rollover")
    /\ UNCHANGED <<vars, chainVars, last_epoch, updates, calls, late, processed>>

\* perform_rollover of a tree that is ready for it, by the forester's
\* registration for epoch 0
perform_rollover(f, e, q) ==
    /\ At(f, e, "rollover")
    /\ q \notin rolledover
    /\ forest(f, 0, q)
    /\ rolledover' = rolledover \cup {q}
    /\ UNCHANGED <<pending, nullified, localVars>>

\* The trees are checked; a rollover that fails is only logged.
RolloverDone(f, e) ==
    /\ At(f, e, "rollover")
    /\ Goto(f, e, "wait_report")
    /\ UNCHANGED <<vars, chainVars, last_epoch, updates, calls, late, processed>>

wait_for_report_work_phase(f, e) ==
    /\ At(f, e, "wait_report")
    /\ wait_until_slot_reached(Phases(RegisteredEpoch(f, e)).report_work.start)
    /\ Goto(f, e, "report")
    /\ UNCHANGED <<vars, chainVars, last_epoch, updates, calls, late, processed>>

\* The report_work transaction; the task then sends the WorkReport.
ReportLands(f, e) ==
    /\ At(f, e, "report")
    /\ report_work(f, RegisteredEpoch(f, e))
    /\ \E at \in {"done", "failed"} : Goto(f, e, at)
    /\ UNCHANGED <<chainVars, last_epoch, updates, calls, late, processed>>

\* An RPC error, a rejected or a lost transaction ends the task.  The calls
\* its updates spawned go on.
TaskFails(f, e) ==
    /\ task[<<f, e>>] # None
    /\ task[<<f, e>>].at \notin {"initial", "done", "failed"}
    /\ Goto(f, e, "failed")
    /\ updates' = [updates EXCEPT ![<<f, e>>] = {}]
    /\ UNCHANGED <<vars, chainVars, last_epoch, calls, late, processed>>

-----------------------------------------------------------------------------
\* Call c becomes d, or ends.
Becomes(c, d) == calls' = (calls \ {c}) \cup {d}
Ends(c) == calls' = calls \ {c}

\* The call goes on with the next item.
Skip(c) == [c EXCEPT !.at = "next", !.item = None, !.retries = 0]

\* Mutant: the attempts are not counted.
RetryForever(c) == [c EXCEPT !.at = "eligibility"]

\* process_transaction_batch_with_retry after an error
Retry(c) ==
    IF c.retries >= MaxRetries THEN Skip(c)
    ELSE [c EXCEPT !.at = "eligibility", !.retries = @ + 1]

\* process_queue: fetch_work_items
fetch_work_items(c) ==
    LET items == {i \in pending : QueueOf[i] = c.queue}
    IN  /\ c.at = "fetch"
        /\ IF ~is_in_active_phase(slot, c.epoch) \/ items = {} THEN Ends(c)
           ELSE Becomes(c, [c EXCEPT !.at = "next", !.items = items])
        /\ UNCHANGED <<vars, chainVars, last_epoch, task, updates, late, processed>>

\* process_work_items: the next item of the chunk, until the active phase ends
process_work_items(c) ==
    /\ c.at = "next"
    /\ IF c.items = {} \/ ~is_in_active_phase(slot, c.epoch) THEN Ends(c)
       ELSE \E i \in c.items :
            Becomes(c, [c EXCEPT !.at = "eligibility", !.item = i, !.items = @ \ {i}])
    /\ UNCHANGED <<vars, chainVars, last_epoch, task, updates, late, processed>>

\* What the forester believes: its schedule has the current light slot.
LocallyEligible(f, e, q) == LightSlot(Pda(f, e), slot) \in Schedule(Pda(f, e), e, q)

\* check_eligibility of the forester; an item it is not eligible for is skipped.
CheckEligibility(c) ==
    /\ c.at = "eligibility"
    /\ Becomes(c, IF LocallyEligible(c.forester, c.epoch, c.queue)
                  THEN [c EXCEPT !.at = "phase"] ELSE Skip(c))
    /\ UNCHANGED <<vars, chainVars, last_epoch, task, updates, late, processed>>

\* process_transaction_batch up to the transaction
process_transaction_batch(c) ==
    /\ c.at = "phase"
    /\ Becomes(c, IF is_in_active_phase(slot, c.epoch) THEN [c EXCEPT !.at = "sent"] ELSE Retry(c))
    /\ UNCHANGED <<vars, chainVars, last_epoch, task, updates, late, processed>>

\* process_transaction: the transaction executes.
TransactionLands(c) ==
    /\ c.at = "sent"
    /\ ProcessItem(c.forester, c.epoch, c.item)
    /\ Becomes(c, [c EXCEPT !.at = "confirmed"])
    /\ UNCHANGED <<last_epoch, task, late, processed>>

\* It is rejected.
TransactionFails(c) ==
    /\ c.at = "sent"
    /\ ~MayProcess(c.forester, c.epoch, c.item)
    /\ Becomes(c, Retry(c))
    /\ UNCHANGED <<vars, chainVars, last_epoch, task, updates, late, processed>>

\* Mutant: a transaction without an answer is counted.
TimeoutCounted(c) ==
    /\ c.at = "sent"
    /\ Becomes(c, Skip(c))
    /\ late' = late \cup {[forester |-> c.forester, epoch |-> c.epoch, item |-> c.item]}
    /\ processed' = [processed EXCEPT ![<<c.forester, c.epoch>>] = @ + 1]
    /\ UNCHANGED <<vars, chainVars, last_epoch, task, updates>>

\* There is no answer in time; the transaction may still execute.
TransactionTimesOut(c) ==
    /\ c.at = "sent"
    /\ Becomes(c, Retry(c))
    /\ late' = late \cup {[forester |-> c.forester, epoch |-> c.epoch, item |-> c.item]}
    /\ UNCHANGED <<vars, chainVars, last_epoch, task, updates, processed>>

\* update_indexer and increment_processed_items_count
increment_processed_items_count(c) ==
    /\ c.at = "confirmed"
    /\ processed' = [processed EXCEPT ![<<c.forester, c.epoch>>] = @ + 1]
    /\ Becomes(c, Skip(c))
    /\ UNCHANGED <<vars, chainVars, last_epoch, task, updates, late>>

\* An RPC error while the items are fetched: process_queues, whose calls have
\* n = 0, does not go on to its other queues.
FetchFails(c) ==
    /\ c.at = "fetch"
    /\ Ends(c)
    /\ task' = IF c.n > 0 THEN task
               ELSE [task EXCEPT ![<<c.forester, c.task>>] = [@ EXCEPT !.todo = {}]]
    /\ UNCHANGED <<vars, chainVars, last_epoch, updates, late, processed>>

\* An RPC error later on: without its proof the chunk is given up, an item
\* whose eligibility is unknown is skipped, and a transaction is tried again.
CallFails(c) ==
    /\ \/ c.at = "next" /\ Ends(c)
       \/ c.at = "eligibility" /\ Becomes(c, Skip(c))
       \/ c.at = "phase" /\ Becomes(c, Retry(c))
    /\ UNCHANGED <<vars, chainVars, last_epoch, task, updates, late, processed>>

LateLands(t) ==
    /\ ProcessItem(t.forester, t.epoch, t.item)
    /\ late' = late \ {t}
    /\ UNCHANGED <<last_epoch, task, calls, processed>>

\* The blockhash of the transaction has expired, or it is rejected.
LateExpires(t) ==
    /\ late' = late \ {t}
    /\ UNCHANGED <<vars, chainVars, last_epoch, task, updates, calls, processed>>

\* The process is stopped and started again: only the chain remembers.
Restart(f) ==
    /\ last_epoch' = [last_epoch EXCEPT ![f] = None]
    /\ task' = [fe \in DOMAIN task |-> IF fe[1] = f THEN None ELSE task[fe]]
    /\ updates' = [fe \in DOMAIN task |-> IF fe[1] = f THEN {} ELSE updates[fe]]
    /\ processed' = [fe \in DOMAIN task |-> IF fe[1] = f THEN 0 ELSE processed[fe]]
    /\ calls' = {c \in calls : c.forester # f}
    /\ late' = late \cup {[forester |-> f, epoch |-> c.epoch, item |-> c.item]
                            : c \in {d \in calls : d.forester = f /\ d.at = "sent"}}
    /\ UNCHANGED <<vars, chainVars>>

TaskStep(f, e) ==
    \/ register_for_epoch(f, e)
    \/ register(f, e)
    \/ RegisterLands(f, e)
    \/ wait_for_active_phase(f, e)
    \/ FinalizeLands(f, e)
    \/ perform_active_work(f, e)
    \/ \E q \in Queue : process_queues(f, e, q)
    \/ setup_pubsub_client(f, e)
    \/ \E u \in updates[<<f, e>>] : ReceiveUpdate(f, e, u)
    \/ UpdatesClosed(f, e)
    \/ \E q \in Queue : perform_rollover(f, e, q)
    \/ RolloverDone(f, e)
    \/ wait_for_report_work_phase(f, e)
    \/ ReportLands(f, e)
    \/ TaskFails(f, e)

CallStep(c) ==
    \/ fetch_work_items(c)
    \/ process_work_items(c)
    \/ CheckEligibility(c)
    \/ process_transaction_batch(c)
    \/ TransactionLands(c)
    \/ TransactionFails(c)
    \/ TransactionTimesOut(c)
    \/ increment_processed_items_count(c)
    \/ FetchFails(c)
    \/ CallFails(c)

ForesterNext ==
    \/ SlotPasses
    \/ \E i \in Item : Insert(i)
    \/ \E f \in Forester : monitor_epochs(f) \/ Restart(f)
    \/ \E f \in Forester, e \in Epoch : TaskStep(f, e)
    \/ \E c \in calls : CallStep(c)
    \/ \E t \in late : LateLands(t) \/ LateExpires(t)

\* A call that runs is scheduled again: the runtime polls every task, and a
\* transaction is answered or times out.
ForesterSpec ==
    /\ ForesterInit
    /\ [][ForesterNext]_foresterVars
    /\ WF_foresterVars(\E c \in calls : CallStep(c))

-----------------------------------------------------------------------------
\* processed_items never claims more than the chain has counted for the
\* forester, whatever was answered late, twice or not at all.
CountedWork ==
    \A f \in Forester, e \in Epoch :
        processed[<<f, e>>] > 0 =>
            Registered(f, e) /\ processed[<<f, e>>] <= Pda(f, e).work_counter

\* The phases the forester computes and the estimated clock never make it
\* finalize or report before the registry accepts that.
NeverEarly ==
    \A f \in Forester, e \in Epoch :
        /\ At(f, e, "finalize") => slot >= ActivePhaseStart(config, RegisteredEpoch(f, e))
        /\ At(f, e, "report") => slot >= ActivePhaseStart(config, RegisteredEpoch(f, e) + 1)

\* No two tasks of a forester work for one epoch, although a task may end up
\* registered for another epoch than the one it was started for.
OneTaskPerEpoch ==
    \A f \in Forester, d, e \in Epoch :
        LET works(x) == task[<<f, x>>] # None
                        /\ task[<<f, x>>].at \notin {"register", "build", "registering", "failed"}
        IN  works(d) /\ works(e) /\ RegisteredEpoch(f, d) = RegisteredEpoch(f, e) => d = e

\* Every process_queue call comes to its end, however often its transactions
\* fail: its retries are bounded.
CallsEnd == (calls # {}) ~> (calls = {})
=============================================================================
