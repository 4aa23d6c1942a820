--------------------------- MODULE ForesterProofs ---------------------------
(***************************************************************************)
(* Proofs about Registry and about Forester, which extends it.             *)
(*                                                                         *)
(* The registry, for any foresters, weights, configs and hash: the         *)
(* foresters of an epoch share its weight without gap or overlap, agree on *)
(* the total, and no two of them are eligible for a queue at once.  The    *)
(* argument is about time: an epoch's config is the copy taken by its      *)
(* first registration, and under one config the registration phase of an   *)
(* epoch is over when its active phase starts, so a total that was read is *)
(* final.                                                                  *)
(*                                                                         *)
(* The service, for any queues, items, drift and retries too: it never     *)
(* finalizes or reports early, never runs two tasks for one epoch, and     *)
(* never claims more work than the chain has counted, whatever is answered *)
(* late or lost and whenever it is restarted.  The chain it talks to is    *)
(* the registry, whose invariant is part of its own.                       *)
(***************************************************************************)
EXTENDS Forester, SumTheorems, FiniteSetTheorems

-----------------------------------------------------------------------------
\* The registry.

\* Euclidean division, the only fact about div and mod that is needed.
LEMMA DivMod ==
    ASSUME NEW x \in Nat, NEW a \in Nat \ {0}
    PROVE  /\ x \div a \in Nat
           /\ x % a \in 0 .. a - 1
           /\ x = a * (x \div a) + (x % a)
OBVIOUS

\* A slot in the active phase of e is between the starts of e and e + 1.
LEMMA ActiveBetweenStarts ==
    ASSUME NEW c \in ConfigType, NEW s \in Nat, NEW e \in Nat, is_active_phase(c, s, e)
    PROVE  /\ ActivePhaseStart(c, e) <= s
           /\ s < ActivePhaseStart(c, e + 1)
<1> DEFINE a == c.active_phase_length
           g == ActiveGenesis(c)
           x == s - g
<1>1. a \in Nat \ {0} /\ g \in Nat /\ x \in Nat
  BY DEF ConfigType, is_active_phase, ActiveGenesis
<1>2. x \div a = e
  BY DEF is_active_phase, get_current_active_epoch
<1>3. ActivePhaseStart(c, e) = e * a + g /\ ActivePhaseStart(c, e + 1) = (e + 1) * a + g
  BY DEF ActivePhaseStart
<1> HIDE DEF a, g
<1>4. x \div a \in Nat /\ x % a \in 0 .. a - 1 /\ x = a * (x \div a) + (x % a)
  BY <1>1, DivMod
<1>5. x = a * e + (x % a) /\ x % a \in 0 .. a - 1
  BY <1>2, <1>4
<1>6. (e + 1) * a = e * a + a /\ a * e = e * a /\ e * a \in Nat
  BY <1>1
<1> QED
  BY <1>1, <1>3, <1>5, <1>6

\* A slot in the registration phase of e is before the active phase of e.
LEMMA RegistrationBeforeStart ==
    ASSUME NEW c \in ConfigType, NEW s \in Nat, NEW e \in Nat,
           is_registration_phase(c, s), get_latest_register_epoch(c, s) = e
    PROVE  s < ActivePhaseStart(c, e)
<1> DEFINE a == c.active_phase_length
           g == c.genesis_slot
           r == c.registration_phase_length
           x == s - g
<1>1. a \in Nat \ {0} /\ g \in Nat /\ r \in Nat /\ x \in Nat
  BY DEF ConfigType, is_registration_phase
<1>2. x \div a = e /\ x % a < r
  BY DEF is_registration_phase, get_latest_register_epoch, get_latest_register_epoch_progress
<1>3. ActivePhaseStart(c, e) = e * a + (g + r)
  BY DEF ActivePhaseStart, ActiveGenesis
<1> HIDE DEF a, g, r
<1>4. x % a \in 0 .. a - 1 /\ x = a * (x \div a) + (x % a)
  BY <1>1, DivMod
<1>5. x = a * e + (x % a) /\ a * e = e * a /\ e * a \in Nat
  BY <1>1, <1>2, <1>4
<1> QED
  BY <1>1, <1>2, <1>3, <1>4, <1>5

-----------------------------------------------------------------------------
\* The config in force has passed its check.
ConfigChecked == check_protocol_config(config)

\* An epoch account has weight, so it is never created a second time.
EpochsWeighted ==
    \A e \in Epoch : epochs[e] # None => epochs[e].registered_weight > 0

\* A registration uses the config of its epoch and lies inside its weight.
CopiesAgree ==
    \A f \in Forester, e \in Epoch : Registered(f, e) =>
        /\ epochs[e] # None
        /\ Pda(f, e).protocol_config = epochs[e].protocol_config
        /\ Pda(f, e).epoch_active_phase_start_slot = ActivePhaseStart(epochs[e].protocol_config, e)
        /\ Pda(f, e).forester_index + Pda(f, e).weight <= epochs[e].registered_weight

\* Two ranges of an epoch do not overlap.
RangesDisjoint ==
    \A e \in Epoch, f, g \in Forester : Registered(f, e) /\ Registered(g, e) /\ f # g =>
        \/ Pda(f, e).forester_index + Pda(f, e).weight <= Pda(g, e).forester_index
        \/ Pda(g, e).forester_index + Pda(g, e).weight <= Pda(f, e).forester_index

\* The ranges of an epoch leave no gap.
RangesCover ==
    \A e \in Epoch : epochs[e] # None =>
        \A i \in 0 .. epochs[e].registered_weight - 1 :
            \E f \in Forester : Registered(f, e) /\ is_eligible(Pda(f, e), i)

\* A total was read in the active phase and has not changed since.
TotalsFinal ==
    \A f \in Forester, e \in Epoch :
        Registered(f, e) /\ Pda(f, e).total_epoch_weight # None =>
            /\ Pda(f, e).total_epoch_weight = epochs[e].registered_weight
            /\ ActivePhaseStart(epochs[e].protocol_config, e) <= slot

\* A report was made after the active phase.
ReportsLate ==
    \A f \in Forester, e \in Epoch :
        Registered(f, e) /\ Pda(f, e).has_reported_work =>
            ActivePhaseStart(epochs[e].protocol_config, e + 1) <= slot

IInv ==
    /\ TypeOK /\ ConfigChecked /\ EpochsWeighted /\ CopiesAgree
    /\ RangesDisjoint /\ RangesCover /\ TotalsFinal /\ ReportsLate

\* The invariant holds at first, when no epoch has an account.
LEMMA InitIInv == Init => IInv
  BY RegistryAssumption
     DEF Init, IInv, TypeOK, ConfigChecked, EpochsWeighted, CopiesAgree, RangesDisjoint,
         RangesCover, TotalsFinal, ReportsLate, Registered, Pda

\* The start of an active phase is a slot.
LEMMA StartIsSlot ==
    ASSUME NEW c \in Config, NEW e \in Epoch
    PROVE  /\ c \in ConfigType /\ e \in Nat
           /\ ActivePhaseStart(c, e) \in Nat
           /\ ActivePhaseStart(c, e + 1) \in Nat
<1>1. c \in ConfigType /\ e \in Nat
  BY RegistryAssumption
<1>2. /\ c.active_phase_length \in Nat /\ c.genesis_slot \in Nat
      /\ c.registration_phase_length \in Nat
  BY <1>1 DEF ConfigType
<1>3. e * c.active_phase_length \in Nat /\ (e + 1) * c.active_phase_length \in Nat
  BY <1>1, <1>2
<1> QED
  BY <1>1, <1>2, <1>3 DEF ActivePhaseStart, ActiveGenesis

\* What every step but a registration leaves alone, and what that preserves.
LEMMA QuietStep ==
    ASSUME IInv, TypeOK', ConfigChecked', slot' >= slot,
           \A e \in Epoch :
                /\ epochs'[e] = None <=> epochs[e] = None
                /\ epochs[e] # None =>
                    /\ epochs'[e].protocol_config = epochs[e].protocol_config
                    /\ epochs'[e].registered_weight = epochs[e].registered_weight,
           \A f \in Forester, e \in Epoch :
                /\ Pda(f, e)' = None <=> Pda(f, e) = None
                /\ Pda(f, e) # None =>
                    /\ Pda(f, e)'.weight = Pda(f, e).weight
                    /\ Pda(f, e)'.forester_index = Pda(f, e).forester_index
                    /\ Pda(f, e)'.protocol_config = Pda(f, e).protocol_config
                    /\ Pda(f, e)'.epoch_active_phase_start_slot =
                            Pda(f, e).epoch_active_phase_start_slot
                    /\ \/ Pda(f, e)'.total_epoch_weight = Pda(f, e).total_epoch_weight
                       \/ /\ Pda(f, e)'.total_epoch_weight = epochs[e].registered_weight
                          /\ ActivePhaseStart(epochs[e].protocol_config, e) <= slot
                    /\ Pda(f, e)'.has_reported_work =>
                          \/ Pda(f, e).has_reported_work
                          \/ ActivePhaseStart(epochs[e].protocol_config, e + 1) <= slot
    PROVE  IInv'
<1>0. \A f \in Forester, e \in Epoch :
        /\ Registered(f, e)' <=> Registered(f, e)
        /\ Registered(f, e) => epochs[e] # None /\ epochs[e].protocol_config \in Config
  BY DEF Registered, IInv, CopiesAgree, TypeOK, EpochPda
<1>1. EpochsWeighted'
  BY DEF IInv, EpochsWeighted
<1>2. CopiesAgree'
  BY <1>0 DEF IInv, CopiesAgree, Registered
<1>3. RangesDisjoint'
  BY <1>0 DEF IInv, RangesDisjoint, Registered
<1>4. RangesCover'
  BY <1>0 DEF IInv, RangesCover, Registered, is_eligible
<1>5. slot \in Nat /\ slot' \in Nat
  BY DEF IInv, TypeOK
<1>6. TotalsFinal'
  BY <1>0, <1>5, StartIsSlot DEF IInv, TotalsFinal, Registered
<1>7. ReportsLate'
  BY <1>0, <1>5, StartIsSlot DEF IInv, ReportsLate, Registered
<1> QED
  BY <1>1, <1>2, <1>3, <1>4, <1>6, <1>7 DEF IInv

-----------------------------------------------------------------------------
\* A registration takes the free weights above all others, in a phase in
\* which nobody of the epoch can have read the total.
LEMMA RegisterIInv ==
    ASSUME IInv, NEW f \in Forester, NEW e \in Epoch, register_forester_epoch(f, e)
    PROVE  IInv'
<1> DEFINE ep == EpochAccount(e)
           c  == ep.protocol_config
           w  == active_weight[f]
           rw == ep.registered_weight
           N  == [weight                        |-> w,
                  work_counter                  |-> 0,
                  has_reported_work             |-> FALSE,
                  forester_index                |-> rw,
                  epoch_active_phase_start_slot |-> ActivePhaseStart(c, e),
                  total_epoch_weight            |-> None,
                  protocol_config               |-> c,
                  finalize_counter              |-> 0]
           E  == [protocol_config |-> c, total_work |-> ep.total_work, registered_weight |-> rw + w]
<1>0. TypeOK
  BY DEF IInv
<1>1. ep \in EpochPda /\ c \in Config /\ rw \in Nat /\ w \in Nat /\ ep.total_work \in Nat
  BY <1>0 DEF EpochAccount, NewEpochAccount, EpochPda, TypeOK
<1>2. epochs[e] # None => ep = epochs[e]
  BY DEF IInv, EpochsWeighted, EpochAccount
<1>3. epochs[e] = None => rw = 0
  BY DEF EpochAccount, NewEpochAccount
<1>4. /\ check_protocol_config(config) /\ UNCHANGED <<slot, config, active_weight>>
      /\ w >= c.min_weight
  BY DEF IInv, ConfigChecked, register_forester_epoch
<1>5. /\ forester_epochs' = [forester_epochs EXCEPT ![<<f, e>>] = N]
      /\ epochs' = [epochs EXCEPT ![e] = E]
  BY DEF register_forester_epoch
<1>6. slot < ActivePhaseStart(c, e) /\ slot \in Nat
  <2>1. is_registration_phase(c, slot) /\ get_latest_register_epoch(c, slot) = e
    BY DEF register_forester_epoch
  <2> QED
    BY <2>1, <1>0, <1>1, StartIsSlot, RegistrationBeforeStart DEF TypeOK
<1>7. ActivePhaseStart(c, e) \in Nat
  BY <1>1, StartIsSlot
<1>8. N \in ForesterEpochPda /\ E \in EpochPda
  BY <1>1, <1>7 DEF ForesterEpochPda, EpochPda
<1>9. N # None /\ E # None
  BY <1>8, RegistryAssumption
<1> HIDE DEF ep
<1>10. /\ Pda(f, e)' = N
       /\ \A g \in Forester, d \in Epoch : <<g, d>> # <<f, e>> => Pda(g, d)' = Pda(g, d)
       /\ epochs'[e] = E
       /\ \A d \in Epoch : d # e => epochs'[d] = epochs[d]
  BY <1>0, <1>5 DEF TypeOK, Pda
<1>11. TypeOK'
  BY <1>0, <1>4, <1>5, <1>8 DEF TypeOK
<1>12. \A g \in Forester : Registered(g, e) =>
          /\ epochs[e] # None /\ g # f
          /\ Pda(g, e) \in ForesterEpochPda
          /\ Pda(g, e).protocol_config = c
          /\ Pda(g, e).epoch_active_phase_start_slot = ActivePhaseStart(c, e)
          /\ Pda(g, e).forester_index + Pda(g, e).weight <= rw
  <2>1. \A g \in Forester : Registered(g, e) =>
          /\ epochs[e] # None /\ Pda(g, e) \in ForesterEpochPda
          /\ Pda(g, e).protocol_config = epochs[e].protocol_config
          /\ Pda(g, e).epoch_active_phase_start_slot = ActivePhaseStart(epochs[e].protocol_config, e)
          /\ Pda(g, e).forester_index + Pda(g, e).weight <= epochs[e].registered_weight
    BY <1>0 DEF IInv, CopiesAgree, TypeOK, Registered, Pda
  <2>2. ~Registered(f, e)
    BY DEF register_forester_epoch
  <2> QED
    BY <2>1, <2>2, <1>2
<1>13. \A g \in Forester, d \in Epoch :
          Registered(g, d)' => \/ d = e /\ g = f
                              \/ /\ <<g, d>> # <<f, e>>
                                 /\ Registered(g, d) /\ Pda(g, d)' = Pda(g, d)
  BY <1>10 DEF Registered
<1>14. rw + w > 0
  <2>1. CASE epochs[e] # None
    BY <2>1, <1>1, <1>2 DEF IInv, EpochsWeighted
  <2>2. CASE epochs[e] = None
    <3>1. c = config
      BY <2>2 DEF ep, EpochAccount, NewEpochAccount
    <3>2. config \in ConfigType
      BY <1>0, RegistryAssumption DEF TypeOK
    <3> QED
      BY <3>1, <3>2, <1>1, <1>4 DEF ConfigType, check_protocol_config
  <2> QED
    BY <2>1, <2>2
<1>15. EpochsWeighted'
  BY <1>10, <1>14 DEF IInv, EpochsWeighted
<1>16. CopiesAgree'
  <2> SUFFICES ASSUME NEW g \in Forester, NEW d \in Epoch, Registered(g, d)'
               PROVE  /\ epochs'[d] # None
                      /\ Pda(g, d)'.protocol_config = epochs'[d].protocol_config
                      /\ Pda(g, d)'.epoch_active_phase_start_slot =
                            ActivePhaseStart(epochs'[d].protocol_config, d)
                      /\ Pda(g, d)'.forester_index + Pda(g, d)'.weight
                            <= epochs'[d].registered_weight
    BY DEF CopiesAgree
  <2>1. CASE d = e /\ g = f
    BY <2>1, <1>1, <1>9, <1>10
  <2>2. CASE d = e /\ g # f
    <3>1. Registered(g, e) /\ Pda(g, e)' = Pda(g, e) /\ Pda(g, e) \in ForesterEpochPda
      BY <2>2, <1>12, <1>13
    <3>2. Pda(g, e).forester_index \in Nat /\ Pda(g, e).weight \in Nat
      BY <3>1 DEF ForesterEpochPda
    <3> QED
      BY <2>2, <3>1, <3>2, <1>1, <1>9, <1>10, <1>12
  <2>3. CASE d # e
    BY <2>3, <1>10, <1>13 DEF IInv, CopiesAgree
  <2> QED
    BY <2>1, <2>2, <2>3
<1>17. RangesDisjoint'
  <2> SUFFICES ASSUME NEW d \in Epoch, NEW g \in Forester, NEW h \in Forester,
                      Registered(g, d)', Registered(h, d)', g # h
               PROVE  \/ Pda(g, d)'.forester_index + Pda(g, d)'.weight <= Pda(h, d)'.forester_index
                      \/ Pda(h, d)'.forester_index + Pda(h, d)'.weight <= Pda(g, d)'.forester_index
    BY DEF RangesDisjoint
  <2>1. CASE d = e /\ g = f
    BY <2>1, <1>10, <1>12, <1>13
  <2>2. CASE d = e /\ h = f
    BY <2>2, <1>10, <1>12, <1>13
  <2>3. CASE d # e \/ (g # f /\ h # f)
    BY <2>3, <1>13 DEF IInv, RangesDisjoint
  <2> QED
    BY <2>1, <2>2, <2>3
<1>18. RangesCover'
  <2> SUFFICES ASSUME NEW d \in Epoch, epochs'[d] # None,
                      NEW i \in 0 .. epochs'[d].registered_weight - 1
               PROVE  \E g \in Forester : Registered(g, d)' /\ is_eligible(Pda(g, d)', i)
    BY DEF RangesCover, is_eligible
  <2>1. \A g \in Forester : Registered(g, d) => Registered(g, d)' /\ Pda(g, d)' = Pda(g, d)
    BY <1>10, <1>12 DEF Registered
  <2>2. CASE d # e
    BY <2>1, <2>2, <1>10 DEF IInv, RangesCover
  <2>3. CASE d = e /\ i < rw
    <3>1. epochs[e] # None /\ i \in 0 .. epochs[e].registered_weight - 1
      BY <2>3, <1>1, <1>2, <1>3, <1>10
    <3> QED
      BY <3>1, <2>1, <2>3 DEF IInv, RangesCover
  <2>4. CASE d = e /\ i >= rw
    <3>1. Registered(f, e)' /\ is_eligible(N, i)
      BY <2>4, <1>1, <1>9, <1>10 DEF is_eligible, Registered
    <3> QED
      BY <2>4, <3>1, <1>10
  <2> QED
    BY <2>2, <2>3, <2>4, <1>1
<1>19. TotalsFinal'
  <2> SUFFICES ASSUME NEW g \in Forester, NEW d \in Epoch,
                      Registered(g, d)', Pda(g, d)'.total_epoch_weight # None
               PROVE  /\ Pda(g, d)'.total_epoch_weight = epochs'[d].registered_weight
                      /\ ActivePhaseStart(epochs'[d].protocol_config, d) <= slot'
    BY DEF TotalsFinal
  <2>1. Registered(g, d) /\ Pda(g, d)' = Pda(g, d)
    BY <1>10, <1>13
  <2>2. /\ Pda(g, d).total_epoch_weight = epochs[d].registered_weight
        /\ ActivePhaseStart(epochs[d].protocol_config, d) <= slot
    BY <2>1 DEF IInv, TotalsFinal
  <2>3. d # e
    BY <2>1, <2>2, <1>2, <1>6, <1>7, <1>12
  <2> QED
    BY <2>1, <2>2, <2>3, <1>4, <1>10
<1>20. ReportsLate'
  <2> SUFFICES ASSUME NEW g \in Forester, NEW d \in Epoch,
                      Registered(g, d)', Pda(g, d)'.has_reported_work
               PROVE  ActivePhaseStart(epochs'[d].protocol_config, d + 1) <= slot'
    BY DEF ReportsLate
  <2>1. Registered(g, d) /\ Pda(g, d)' = Pda(g, d)
    BY <1>10, <1>13
  <2>2. epochs'[d].protocol_config = epochs[d].protocol_config
    BY <2>1, <1>2, <1>10, <1>12
  <2> QED
    BY <2>1, <2>2, <1>4 DEF IInv, ReportsLate
<1>21. ConfigChecked'
  BY <1>4 DEF ConfigChecked, check_protocol_config
<1> QED
  BY <1>11, <1>15, <1>16, <1>17, <1>18, <1>19, <1>20, <1>21 DEF IInv

\* The steps that touch no account of an epoch.
LEMMA GlobalStepIInv ==
    ASSUME IInv,
           \/ Tick
           \/ \E c \in Config : update_protocol_config(c)
           \/ \E f \in Forester, w \in Weight : update_forester_pda_weight(f, w)
    PROVE  IInv'
<1>1. /\ slot \in Nat /\ slot' \in Nat /\ slot' >= slot
      /\ UNCHANGED <<epochs, forester_epochs>>
  BY DEF IInv, TypeOK, Tick, update_protocol_config, update_forester_pda_weight
<1>2. TypeOK'
  BY RegistryAssumption
     DEF IInv, TypeOK, Tick, update_protocol_config, update_forester_pda_weight
<1>3. ConfigChecked'
  BY DEF IInv, ConfigChecked, check_protocol_config, Tick, update_protocol_config,
         update_forester_pda_weight
<1> QED
  BY <1>1, <1>2, <1>3, QuietStep DEF Pda

\* The steps that change fields of one ForesterEpochPda: finalization, work
\* and report.
LEMMA ForesterStepIInv ==
    ASSUME IInv, NEW f \in Forester, NEW e \in Epoch,
           \/ finalize_registration(f, e)
           \/ \E q \in Queue : forest(f, e, q)
           \/ report_work(f, e)
    PROVE  IInv'
<1> DEFINE pda == Pda(f, e)
           ep == epochs[e]
<1>1. TypeOK /\ ConfigChecked /\ slot \in Nat
  BY DEF IInv, TypeOK
<1>2. Registered(f, e) /\ UNCHANGED <<slot, config, active_weight>>
  BY DEF finalize_registration, forest, report_work
<1>3. /\ pda \in ForesterEpochPda /\ ep \in EpochPda /\ pda # None /\ ep # None
      /\ pda.protocol_config = ep.protocol_config /\ ep.protocol_config \in Config
  BY <1>1, <1>2 DEF Registered, Pda, TypeOK, IInv, CopiesAgree, EpochPda
<1>4. PICK new \in ForesterEpochPda :
        /\ forester_epochs' = [forester_epochs EXCEPT ![<<f, e>>] = new]
        /\ new.weight = pda.weight
        /\ new.forester_index = pda.forester_index
        /\ new.protocol_config = pda.protocol_config
        /\ new.epoch_active_phase_start_slot = pda.epoch_active_phase_start_slot
        /\ \/ new.total_epoch_weight = pda.total_epoch_weight
           \/ /\ new.total_epoch_weight = ep.registered_weight
              /\ ActivePhaseStart(ep.protocol_config, e) <= slot
        /\ new.has_reported_work =>
              \/ pda.has_reported_work
              \/ ActivePhaseStart(ep.protocol_config, e + 1) <= slot
  <2>1. CASE finalize_registration(f, e)
    <3> DEFINE w == ep.registered_weight
               k == pda.finalize_counter + 1
               n1 == [pda EXCEPT !.total_epoch_weight = w, !.finalize_counter = k]
    <3>1. w \in Nat /\ k \in Nat
      BY <1>3 DEF EpochPda, ForesterEpochPda
    <3>0. forester_epochs' = [forester_epochs EXCEPT ![<<f, e>>] = n1]
      BY <2>1 DEF finalize_registration, Pda
    <3> HIDE DEF w, k
    <3>2. /\ n1 \in ForesterEpochPda /\ n1.weight = pda.weight
          /\ n1.forester_index = pda.forester_index /\ n1.protocol_config = pda.protocol_config
          /\ n1.epoch_active_phase_start_slot = pda.epoch_active_phase_start_slot
          /\ n1.total_epoch_weight = w
          /\ n1.has_reported_work = pda.has_reported_work
      BY <1>3, <3>1 DEF ForesterEpochPda
    <3>3. w = ep.registered_weight
      BY DEF w
    <3>4. ActivePhaseStart(ep.protocol_config, e) <= slot
      BY <2>1, <1>1, <1>3, StartIsSlot, ActiveBetweenStarts DEF finalize_registration
    <3> HIDE DEF n1
    <3> QED
      BY <3>0, <3>2, <3>3, <3>4
  <2>2. CASE \E q \in Queue : forest(f, e, q)
    <3> DEFINE k == pda.work_counter + 1
               n1 == [pda EXCEPT !.work_counter = k]
    <3>1. k \in Nat
      BY <1>3 DEF ForesterEpochPda
    <3>3. forester_epochs' = [forester_epochs EXCEPT ![<<f, e>>] = n1]
      BY <2>2 DEF forest, Pda
    <3> HIDE DEF k
    <3>2. /\ n1 \in ForesterEpochPda /\ n1.weight = pda.weight
          /\ n1.forester_index = pda.forester_index /\ n1.protocol_config = pda.protocol_config
          /\ n1.epoch_active_phase_start_slot = pda.epoch_active_phase_start_slot
          /\ n1.total_epoch_weight = pda.total_epoch_weight
          /\ n1.has_reported_work = pda.has_reported_work
      BY <1>3, <3>1 DEF ForesterEpochPda
    <3> HIDE DEF n1
    <3> QED
      BY <3>2, <3>3
  <2>3. CASE report_work(f, e)
    <3> DEFINE n1 == [pda EXCEPT !.has_reported_work = TRUE]
    <3>1. /\ n1 \in ForesterEpochPda /\ n1.weight = pda.weight
          /\ n1.forester_index = pda.forester_index /\ n1.protocol_config = pda.protocol_config
          /\ n1.epoch_active_phase_start_slot = pda.epoch_active_phase_start_slot
          /\ n1.total_epoch_weight = pda.total_epoch_weight
      BY <1>3 DEF ForesterEpochPda
    <3>2. forester_epochs' = [forester_epochs EXCEPT ![<<f, e>>] = n1]
      BY <2>3 DEF report_work, Pda
    <3>3. is_active_phase(ep.protocol_config, slot, e + 1)
      BY <2>3 DEF report_work, MayReport, is_report_work_phase
    <3>4. e + 1 \in Nat /\ ep.protocol_config \in ConfigType
      BY <1>3, StartIsSlot
    <3>5. ActivePhaseStart(ep.protocol_config, e + 1) <= slot
      BY <1>1, <3>3, <3>4, ActiveBetweenStarts
    <3> HIDE DEF n1
    <3> QED
      BY <3>1, <3>2, <3>5
  <2> QED
    BY <2>1, <2>2, <2>3
<1>5. PICK E \in EpochPda :
        /\ epochs' = [epochs EXCEPT ![e] = E]
        /\ E.protocol_config = ep.protocol_config
        /\ E.registered_weight = ep.registered_weight
  <2>1. CASE report_work(f, e)
    <3> DEFINE k == ep.total_work + pda.work_counter
               n1 == [ep EXCEPT !.total_work = k]
    <3>1. k \in Nat
      BY <1>3 DEF EpochPda, ForesterEpochPda
    <3>3. epochs' = [epochs EXCEPT ![e] = n1]
      BY <2>1 DEF report_work, Pda
    <3> HIDE DEF k
    <3>2. /\ n1 \in EpochPda /\ n1.protocol_config = ep.protocol_config
          /\ n1.registered_weight = ep.registered_weight
      BY <1>3, <3>1 DEF EpochPda
    <3> HIDE DEF n1
    <3> QED
      BY <3>2, <3>3
  <2>2. CASE ~report_work(f, e)
    <3>1. epochs' = epochs
      BY <2>2 DEF finalize_registration, forest
    <3>2. epochs' = [epochs EXCEPT ![e] = ep]
      BY <3>1, <1>1 DEF TypeOK
    <3> QED
      BY <3>2, <1>3
  <2> QED
    BY <2>1, <2>2
<1>6. new # None /\ E # None
  BY RegistryAssumption
<1>7. TypeOK'
  BY <1>1, <1>2, <1>4, <1>5 DEF TypeOK
<1>8. ConfigChecked'
  BY <1>1, <1>2 DEF ConfigChecked, check_protocol_config
<1>9. \A d \in Epoch :
        /\ epochs'[d] = None <=> epochs[d] = None
        /\ epochs[d] # None =>
            /\ epochs'[d].protocol_config = epochs[d].protocol_config
            /\ epochs'[d].registered_weight = epochs[d].registered_weight
  BY <1>1, <1>3, <1>5, <1>6 DEF TypeOK
<1>10. /\ Pda(f, e)' = new
       /\ \A g \in Forester, d \in Epoch : <<g, d>> # <<f, e>> => Pda(g, d)' = Pda(g, d)
  BY <1>1, <1>4 DEF TypeOK, Pda
<1>11. slot' >= slot
  BY <1>1, <1>2
<1>12. \A g \in Forester, d \in Epoch :
        /\ Pda(g, d)' = None <=> Pda(g, d) = None
        /\ Pda(g, d) # None =>
            /\ Pda(g, d)'.weight = Pda(g, d).weight
            /\ Pda(g, d)'.forester_index = Pda(g, d).forester_index
            /\ Pda(g, d)'.protocol_config = Pda(g, d).protocol_config
            /\ Pda(g, d)'.epoch_active_phase_start_slot = Pda(g, d).epoch_active_phase_start_slot
            /\ \/ Pda(g, d)'.total_epoch_weight = Pda(g, d).total_epoch_weight
               \/ /\ Pda(g, d)'.total_epoch_weight = epochs[d].registered_weight
                  /\ ActivePhaseStart(epochs[d].protocol_config, d) <= slot
            /\ Pda(g, d)'.has_reported_work =>
                  \/ Pda(g, d).has_reported_work
                  \/ ActivePhaseStart(epochs[d].protocol_config, d + 1) <= slot
  BY <1>3, <1>4, <1>6, <1>10
<1> QED
  BY <1>7, <1>8, <1>9, <1>11, <1>12, QuietStep

\* Every step of the registry preserves its invariant.
LEMMA RegistryStepIInv ==
    ASSUME IInv, [Next]_vars
    PROVE  IInv'
<1>1. CASE \E f \in Forester, e \in Epoch : register_forester_epoch(f, e)
  BY <1>1, RegisterIInv
<1>2. CASE \E f \in Forester, e \in Epoch :
              \/ finalize_registration(f, e)
              \/ \E q \in Queue : forest(f, e, q)
              \/ report_work(f, e)
  BY <1>2, ForesterStepIInv
<1>3. CASE \/ Tick
           \/ \E c \in Config : update_protocol_config(c)
           \/ \E f \in Forester, w \in Weight : update_forester_pda_weight(f, w)
  BY <1>3, GlobalStepIInv
<1>4. CASE UNCHANGED vars
  <2>1. slot \in Nat /\ slot' = slot /\ UNCHANGED <<epochs, forester_epochs, config>>
    BY <1>4 DEF IInv, TypeOK, vars
  <2>2. TypeOK' /\ ConfigChecked'
    BY <1>4 DEF IInv, TypeOK, ConfigChecked, check_protocol_config, vars
  <2>3. slot' >= slot
    BY <2>1
  <2> QED
    BY <2>1, <2>2, <2>3, QuietStep DEF Pda
<1> QED
  BY <1>1, <1>2, <1>3, <1>4 DEF Next

\* The invariant of the registry.
THEOREM RegistryInvariant == Spec => []IInv
  BY RegistryStepIInv, InitIInv, PTL DEF Spec

-----------------------------------------------------------------------------
\* The accounts have their types in every reachable state.
THEOREM RegistryTypeOK == Spec => []TypeOK
<1>1. IInv => TypeOK
  BY DEF IInv
<1> QED
  BY <1>1, RegistryInvariant, PTL

\* The weight ranges of an epoch's foresters partition its registered weight.
THEOREM RegistryRangesPartition == Spec => []RangesPartition
<1>1. IInv => RangesPartition
  <2> SUFFICES ASSUME IInv, NEW e \in Epoch, epochs[e] # None,
                      NEW i \in 0 .. epochs[e].registered_weight - 1
               PROVE  /\ \E f \in Forester : Registered(f, e) /\ is_eligible(Pda(f, e), i)
                      /\ \A f, g \in Forester :
                            /\ Registered(f, e) /\ is_eligible(Pda(f, e), i)
                            /\ Registered(g, e) /\ is_eligible(Pda(g, e), i)
                            => f = g
    BY DEF RangesPartition
  <2>1. \A f \in Forester : Registered(f, e) => Pda(f, e) \in ForesterEpochPda
    BY DEF IInv, TypeOK, Registered, Pda
  <2>2. epochs[e].registered_weight \in Nat
    BY DEF IInv, TypeOK, EpochPda
  <2>3. i \in Int
    BY <2>2
  <2>4. \A f, g \in Forester :
            /\ Registered(f, e) /\ is_eligible(Pda(f, e), i)
            /\ Registered(g, e) /\ is_eligible(Pda(g, e), i)
            => f = g
    BY <2>1, <2>3 DEF IInv, RangesDisjoint, is_eligible, ForesterEpochPda
  <2> QED
    BY <2>4 DEF IInv, RangesCover
<1> QED
  BY <1>1, RegistryInvariant, PTL

\* Every finalized forester of an epoch knows the weight of all its foresters.
THEOREM RegistryTotalsAgree == Spec => []TotalsAgree
<1>1. IInv => TotalsAgree
  BY DEF IInv, TotalsFinal, TotalsAgree
<1> QED
  BY <1>1, RegistryInvariant, PTL

\* The quotient of a natural number is not larger than the number.
LEMMA DivBound ==
    ASSUME NEW x \in Nat, NEW a \in Nat \ {0}
    PROVE  x \div a \in 0 .. x
<1> DEFINE q == x \div a
           m == x % a
<1>1. q \in Nat /\ m \in Nat /\ x = a * q + m
  BY DivMod
<1> HIDE DEF q, m
<1>2. a * q = q + (a - 1) * q /\ (a - 1) * q \in Nat
  BY <1>1
<1>3. q \in 0 .. x
  BY <1>1, <1>2
<1> QED
  BY <1>3 DEF q

\* No two foresters of an epoch are eligible for the same queue at once.
THEOREM RegistryUniqueForester == Spec => []UniqueForester
<1>1. IInv => UniqueForester
  <2> SUFFICES ASSUME IInv, NEW e \in Epoch, NEW q \in Queue, NEW f \in Forester, NEW g \in Forester,
                      Registered(f, e), Registered(g, e),
                      check_eligibility(f, e, q), check_eligibility(g, e, q)
               PROVE  f = g
    BY DEF UniqueForester
  <2> DEFINE ls == LightSlot(Pda(f, e), slot)
             t  == epochs[e].registered_weight
             i  == Hash(q, e, ls) % t
  <2>1. /\ Pda(f, e) \in ForesterEpochPda /\ Pda(g, e) \in ForesterEpochPda
        /\ epochs[e] # None /\ t \in Nat /\ t > 0
    BY DEF IInv, TypeOK, Registered, Pda, CopiesAgree, EpochsWeighted, EpochPda
  <2>2. LightSlot(Pda(g, e), slot) = ls
    BY DEF IInv, CopiesAgree, LightSlot
  <2>3. /\ Pda(f, e).total_epoch_weight = t /\ Pda(g, e).total_epoch_weight = t
    BY DEF IInv, TotalsFinal, check_eligibility
  <2>4. is_eligible(Pda(f, e), i) /\ is_eligible(Pda(g, e), i)
    BY <2>2, <2>3 DEF check_eligibility
  <2>5. ls \in 0 .. MaxSlot
    <3> DEFINE x == slot - Pda(f, e).epoch_active_phase_start_slot
               a == Pda(f, e).protocol_config.slot_length
    <3>1. x \in Nat /\ x <= slot /\ slot \in 0 .. MaxSlot /\ MaxSlot \in Nat
      BY <2>1, RegistryAssumption DEF IInv, TypeOK, check_eligibility, ForesterEpochPda
    <3>2. Pda(f, e).protocol_config \in ConfigType
      BY <2>1, RegistryAssumption DEF ForesterEpochPda
    <3>3. a \in Nat \ {0}
      BY <3>2 DEF ConfigType
    <3>4. ls = x \div a
      BY DEF LightSlot
    <3> HIDE DEF x, a, ls
    <3>5. x \div a \in 0 .. x
      BY <3>1, <3>3, DivBound
    <3> QED
      BY <3>1, <3>4, <3>5
  <2>6. i \in Int
    <3>1. Hash(q, e, ls) \in Nat
      BY <2>5, RegistryAssumption
    <3> HIDE DEF ls, t
    <3> QED
      BY <3>1, <2>1, DivMod
  <2> HIDE DEF i
  <2> QED
    BY <2>1, <2>4, <2>6 DEF IInv, RangesDisjoint, is_eligible, ForesterEpochPda
<1> QED
  BY <1>1, RegistryInvariant, PTL

\* What has been reported for an epoch stays as it is.
LEMMA ReportFinal ==
    ASSUME IInv, Next, NEW f \in Forester, NEW e \in Epoch,
           Registered(f, e), Pda(f, e).has_reported_work
    PROVE  /\ forester_epochs'[<<f, e>>] # None
           /\ forester_epochs'[<<f, e>>].work_counter = Pda(f, e).work_counter
<1>1. /\ Pda(f, e) \in ForesterEpochPda /\ Pda(f, e) # None /\ slot \in Nat
      /\ epochs[e] # None /\ epochs[e].protocol_config \in Config
      /\ Pda(f, e).protocol_config = epochs[e].protocol_config
      /\ ActivePhaseStart(epochs[e].protocol_config, e + 1) <= slot
  BY DEF IInv, TypeOK, Registered, Pda, CopiesAgree, ReportsLate, EpochPda
<1>2. ASSUME forester_epochs'[<<f, e>>] = Pda(f, e)
      PROVE  /\ forester_epochs'[<<f, e>>] # None
             /\ forester_epochs'[<<f, e>>].work_counter = Pda(f, e).work_counter
  BY <1>1, <1>2
<1>3. CASE \/ Tick
           \/ \E c \in Config : update_protocol_config(c)
           \/ \E h \in Forester, w \in Weight : update_forester_pda_weight(h, w)
  BY <1>2, <1>3 DEF Tick, update_protocol_config, update_forester_pda_weight, Pda
<1>4. ASSUME NEW h \in Forester, NEW d \in Epoch, register_forester_epoch(h, d)
      PROVE  forester_epochs'[<<f, e>>] = Pda(f, e)
  BY <1>4 DEF register_forester_epoch, IInv, TypeOK, Pda
<1>5. ASSUME NEW h \in Forester, NEW d \in Epoch, NEW q \in Queue, forest(h, d, q)
      PROVE  forester_epochs'[<<f, e>>] = Pda(f, e)
  <2>1. is_active_phase(Pda(h, d).protocol_config, slot, d)
    BY <1>5 DEF forest, check_eligibility
  <2>2. <<h, d>> # <<f, e>>
    <3>1. CASE h = f /\ d = e
      <4>1. /\ slot < ActivePhaseStart(epochs[e].protocol_config, e + 1)
            /\ ActivePhaseStart(epochs[e].protocol_config, e + 1) \in Nat
        BY <3>1, <2>1, <1>1, StartIsSlot, ActiveBetweenStarts
      <4> QED
        BY <4>1, <1>1
    <3> QED
      BY <3>1
  <2> QED
    BY <1>5, <2>2 DEF forest, IInv, TypeOK, Pda
<1>6. ASSUME NEW h \in Forester, NEW d \in Epoch,
             finalize_registration(h, d) \/ report_work(h, d)
      PROVE  /\ forester_epochs'[<<f, e>>] # None
             /\ forester_epochs'[<<f, e>>].work_counter = Pda(f, e).work_counter
  <2>1. CASE <<h, d>> # <<f, e>>
    BY <1>2, <1>6, <2>1 DEF finalize_registration, report_work, IInv, TypeOK, Pda
  <2>2. CASE <<h, d>> = <<f, e>> /\ finalize_registration(f, e)
    <3> DEFINE w == epochs[e].registered_weight
               k == Pda(f, e).finalize_counter + 1
               n1 == [Pda(f, e) EXCEPT !.total_epoch_weight = w, !.finalize_counter = k]
    <3>1. forester_epochs'[<<f, e>>] = n1
      BY <2>2 DEF finalize_registration, IInv, TypeOK, Pda
    <3>2. w \in Nat /\ k \in Nat
      BY <1>1 DEF IInv, TypeOK, EpochPda, ForesterEpochPda
    <3> HIDE DEF w, k
    <3>3. n1 \in ForesterEpochPda /\ n1.work_counter = Pda(f, e).work_counter
      BY <1>1, <3>2 DEF ForesterEpochPda
    <3> QED
      BY <3>1, <3>3, RegistryAssumption
  <2>3. CASE <<h, d>> = <<f, e>> /\ report_work(f, e)
    <3> DEFINE n1 == [Pda(f, e) EXCEPT !.has_reported_work = TRUE]
    <3>1. forester_epochs'[<<f, e>>] = n1
      BY <2>3 DEF report_work, IInv, TypeOK, Pda
    <3>2. n1 \in ForesterEpochPda /\ n1.work_counter = Pda(f, e).work_counter
      BY <1>1 DEF ForesterEpochPda
    <3> QED
      BY <3>1, <3>2, RegistryAssumption
  <2> QED
    BY <1>6, <2>1, <2>2, <2>3
<1> QED
  BY <1>2, <1>3, <1>4, <1>5, <1>6 DEF Next

\* A report is final: the work it has counted cannot grow any more.
THEOREM RegistryReportedIsFinal == Spec => ReportedIsFinal
<1> DEFINE Final == \A f \in Forester, e \in Epoch :
                Registered(f, e) /\ Pda(f, e).has_reported_work
                    => forester_epochs'[<<f, e>>] # None
                       /\ forester_epochs'[<<f, e>>].work_counter = Pda(f, e).work_counter
<1>1. IInv /\ [Next]_vars => [Final]_vars
  BY ReportFinal
<1> QED
  BY <1>1, RegistryInvariant, PTL DEF Spec, ReportedIsFinal, Final

-----------------------------------------------------------------------------
\* A step that reports no work: what is reported stays, and an epoch account
\* that is created has collected nothing.
NoReport ==
    /\ \A f \in Forester, e \in Epoch : ReportedWork(f, e)' = ReportedWork(f, e)
    /\ \A e \in Epoch : epochs'[e] # None =>
        IF epochs[e] = None THEN epochs'[e].total_work = 0
        ELSE epochs'[e].total_work = epochs[e].total_work

\* What is reported is a number, and nothing is for an epoch without account.
LEMMA ReportedWorkType ==
    ASSUME IInv, NEW f \in Forester, NEW e \in Epoch
    PROVE  ReportedWork(f, e) \in Nat /\ (epochs[e] = None => ReportedWork(f, e) = 0)
BY DEF IInv, TypeOK, CopiesAgree, ReportedWork, Registered, Pda, ForesterEpochPda

\* Without a report the account still holds the sum.
LEMMA NoReportAccounted ==
    ASSUME IInv, WorkAccounted, NoReport
    PROVE  WorkAccounted'
<1>1. SUFFICES ASSUME NEW e \in Epoch, epochs'[e] # None
               PROVE  epochs'[e].total_work =
                        SumFunctionOnSet([f \in Forester |-> ReportedWork(f, e)'], Forester)
  BY DEF WorkAccounted
<1>2. [f \in Forester |-> ReportedWork(f, e)'] = [f \in Forester |-> ReportedWork(f, e)]
  BY DEF NoReport
<1>3. CASE epochs[e] # None
  BY <1>1, <1>2, <1>3 DEF WorkAccounted, NoReport
<1>4. CASE epochs[e] = None
  <2> DEFINE w == [f \in Forester |-> ReportedWork(f, e)]
  <2>1. \A f \in Forester : w[f] = 0
    BY <1>4, ReportedWorkType
  <2> HIDE DEF w
  <2>2. SumFunctionOnSet(w, Forester) = 0
    BY <2>1, SumZero, RegistryAssumption
  <2>3. epochs'[e].total_work = 0
    BY <1>1, <1>4 DEF NoReport
  <2> QED
    BY <1>2, <2>2, <2>3 DEF w
<1> QED
  BY <1>3, <1>4

\* A report adds the forester's count, which was not part of the sum.
LEMMA ReportAccounted ==
    ASSUME IInv, IInv', WorkAccounted, NEW g \in Forester, NEW d \in Epoch, report_work(g, d)
    PROVE  WorkAccounted'
<1>1. /\ forester_epochs \in [Forester \X Epoch -> ForesterEpochPda \cup {None}]
      /\ epochs \in [Epoch -> EpochPda \cup {None}]
      /\ Pda(g, d) \in ForesterEpochPda /\ Registered(g, d) /\ ~Pda(g, d).has_reported_work
      /\ epochs[d] \in EpochPda /\ epochs[d] # None
  BY DEF IInv, TypeOK, CopiesAgree, report_work, MayReport, Registered, Pda
<1> DEFINE n == Pda(g, d).work_counter
           new == [Pda(g, d) EXCEPT !.has_reported_work = TRUE]
           acc == [epochs[d] EXCEPT !.total_work = epochs[d].total_work + n]
<1>2. /\ forester_epochs' = [forester_epochs EXCEPT ![<<g, d>>] = new]
      /\ epochs' = [epochs EXCEPT ![d] = acc]
  BY DEF report_work
<1>3. new \in ForesterEpochPda /\ new.has_reported_work = TRUE /\ new.work_counter = n /\ n \in Nat
  BY <1>1 DEF ForesterEpochPda
<1>4. acc.total_work = epochs[d].total_work + n /\ epochs[d].total_work \in Nat
  BY <1>1 DEF EpochPda
<1> HIDE DEF new, acc
<1>5. /\ ReportedWork(g, d) = 0 /\ ReportedWork(g, d)' = n
      /\ \A f \in Forester, e \in Epoch : <<f, e>> # <<g, d>> =>
            ReportedWork(f, e)' = ReportedWork(f, e)
  <2>1. forester_epochs'[<<g, d>>] = new
    BY <1>1, <1>2
  <2>2. ReportedWork(g, d)' = n
    BY <1>3, <2>1, RegistryAssumption DEF ReportedWork, Registered, Pda
  <2>3. ASSUME NEW f \in Forester, NEW e \in Epoch, <<f, e>> # <<g, d>>
        PROVE  ReportedWork(f, e)' = ReportedWork(f, e)
    <3>1. forester_epochs'[<<f, e>>] = forester_epochs[<<f, e>>]
      BY <1>1, <1>2, <2>3
    <3> QED
      BY <3>1 DEF ReportedWork, Registered, Pda
  <2> QED
    BY <1>1, <2>2, <2>3 DEF ReportedWork
<1>6. SUFFICES ASSUME NEW e \in Epoch, epochs'[e] # None
               PROVE  epochs'[e].total_work =
                        SumFunctionOnSet([f \in Forester |-> ReportedWork(f, e)'], Forester)
  BY DEF WorkAccounted
<1>7. CASE e # d
  <2>1. [f \in Forester |-> ReportedWork(f, e)'] = [f \in Forester |-> ReportedWork(f, e)]
    BY <1>5, <1>7
  <2>2. epochs'[e] = epochs[e]
    BY <1>1, <1>2, <1>7
  <2> QED
    BY <1>6, <2>1, <2>2 DEF WorkAccounted
<1>8. CASE e = d
  <2> DEFINE v == [f \in Forester |-> ReportedWork(f, d)]
             w == [f \in Forester |-> ReportedWork(f, d)']
  <2>1. \A f \in Forester : v[f] \in Nat /\ w[f] \in Nat
    BY <1>3, <1>5, ReportedWorkType
  <2>2. \A f \in Forester \ {g} : v[f] = w[f]
    BY <1>5
  <2>3. v[g] = 0 /\ w[g] = n
    BY <1>5
  <2>4. epochs[d].total_work = SumFunctionOnSet(v, Forester)
    BY <1>1 DEF WorkAccounted
  <2>5. epochs'[d].total_work = epochs[d].total_work + n
    BY <1>1, <1>2, <1>4
  <2> HIDE DEF v, w, n
  <2>6. SumFunctionOnSet(w, Forester) + v[g] = SumFunctionOnSet(v, Forester) + w[g]
    BY <2>1, <2>2, SumChange, RegistryAssumption
  <2>7. SumFunctionOnSet(w, Forester) \in Nat
    BY <2>1, SumType, RegistryAssumption
  <2>8. epochs'[d].total_work = SumFunctionOnSet(w, Forester)
    BY <1>3, <1>4, <2>3, <2>4, <2>5, <2>6, <2>7
  <2> QED
    BY <1>8, <2>8 DEF w
<1> QED
  BY <1>7, <1>8

\* Every step but a report reports nothing: a registration has not reported,
\* and a forester that has reported does no more work.
LEMMA OtherStepsReportNothing ==
    ASSUME IInv, [Next]_vars, \A f \in Forester, e \in Epoch : ~report_work(f, e)
    PROVE  NoReport
<1>1. /\ forester_epochs \in [Forester \X Epoch -> ForesterEpochPda \cup {None}]
      /\ epochs \in [Epoch -> EpochPda \cup {None}]
  BY DEF IInv, TypeOK
<1>2. ASSUME UNCHANGED <<epochs, forester_epochs>> PROVE NoReport
  BY <1>2 DEF NoReport, ReportedWork, Registered, Pda
<1>3. CASE \/ UNCHANGED vars
           \/ Tick
           \/ \E c \in Config : update_protocol_config(c)
           \/ \E f \in Forester, w \in Weight : update_forester_pda_weight(f, w)
  BY <1>2, <1>3 DEF vars, Tick, update_protocol_config, update_forester_pda_weight
<1>4. ASSUME NEW g \in Forester, NEW d \in Epoch, NEW new \in ForesterEpochPda,
             forester_epochs' = [forester_epochs EXCEPT ![<<g, d>>] = new],
             IF Registered(g, d) /\ Pda(g, d).has_reported_work
             THEN new.has_reported_work /\ new.work_counter = Pda(g, d).work_counter
             ELSE ~new.has_reported_work,
             NEW f \in Forester, NEW e \in Epoch
      PROVE  ReportedWork(f, e)' = ReportedWork(f, e)
  <2>1. CASE <<f, e>> # <<g, d>>
    <3>1. forester_epochs'[<<f, e>>] = forester_epochs[<<f, e>>]
      BY <1>1, <1>4, <2>1
    <3> QED
      BY <3>1 DEF ReportedWork, Registered, Pda
  <2>2. CASE f = g /\ e = d
    <3>1. forester_epochs'[<<g, d>>] = new /\ new # None
      BY <1>1, <1>4, RegistryAssumption
    <3>2. ReportedWork(g, d)' = ReportedWork(g, d)
      BY <1>4, <3>1 DEF ReportedWork, Registered, Pda
    <3> QED
      BY <2>2, <3>2
  <2> QED
    BY <2>1, <2>2
<1>5. ASSUME NEW g \in Forester, NEW d \in Epoch, register_forester_epoch(g, d) PROVE NoReport
  <2> DEFINE a == EpochAccount(d)
             c == a.protocol_config
             new == [weight                        |-> active_weight[g],
                     work_counter                  |-> 0,
                     has_reported_work             |-> FALSE,
                     forester_index                |-> a.registered_weight,
                     epoch_active_phase_start_slot |-> ActivePhaseStart(c, d),
                     total_epoch_weight            |-> None,
                     protocol_config               |-> c,
                     finalize_counter              |-> 0]
             acc == [protocol_config   |-> c,
                     total_work        |-> a.total_work,
                     registered_weight |-> a.registered_weight + active_weight[g]]
  <2>1. /\ ~Registered(g, d)
        /\ forester_epochs' = [forester_epochs EXCEPT ![<<g, d>>] = new]
        /\ epochs' = [epochs EXCEPT ![d] = acc]
    BY <1>5 DEF register_forester_epoch
  <2>2. config \in Config /\ active_weight[g] \in Nat
    BY DEF IInv, TypeOK
  <2>3. /\ c \in Config /\ a.registered_weight \in Nat
        /\ a.total_work = IF epochs[d] = None THEN 0 ELSE epochs[d].total_work
    <3>1. epochs[d] # None => epochs[d].registered_weight > 0 /\ epochs[d] \in EpochPda
      BY <1>1 DEF IInv, EpochsWeighted
    <3> QED
      BY <2>2, <3>1 DEF EpochAccount, NewEpochAccount, EpochPda
  <2>4. ActivePhaseStart(c, d) \in Nat
    BY <2>3, StartIsSlot
  <2> HIDE DEF a
  <2>5. new \in ForesterEpochPda /\ ~new.has_reported_work
    BY <2>2, <2>3, <2>4 DEF ForesterEpochPda
  <2>6. acc.total_work = a.total_work
    OBVIOUS
  <2> HIDE DEF c, new, acc
  <2>7. ASSUME NEW f \in Forester, NEW e \in Epoch PROVE ReportedWork(f, e)' = ReportedWork(f, e)
    BY <1>4, <2>1, <2>5
  <2>8. ASSUME NEW e \in Epoch, epochs'[e] # None
        PROVE  IF epochs[e] = None THEN epochs'[e].total_work = 0
               ELSE epochs'[e].total_work = epochs[e].total_work
    <3>1. CASE e = d
      <4>1. epochs'[d] = acc
        BY <1>1, <2>1
      <4>2. epochs'[e].total_work = a.total_work
        BY <2>6, <3>1, <4>1
      <4> QED
        BY <2>3, <3>1, <4>2
    <3>2. CASE e # d
      <4>1. epochs'[e] = epochs[e]
        BY <1>1, <2>1, <3>2
      <4> QED
        BY <2>8, <4>1
    <3> QED
      BY <3>1, <3>2
  <2> QED
    BY <2>7, <2>8 DEF NoReport
<1>6. ASSUME NEW g \in Forester, NEW d \in Epoch, finalize_registration(g, d) PROVE NoReport
  <2> DEFINE w == epochs[d].registered_weight
             k == Pda(g, d).finalize_counter + 1
             new == [Pda(g, d) EXCEPT !.total_epoch_weight = w, !.finalize_counter = k]
  <2>1. /\ Registered(g, d) /\ UNCHANGED epochs
        /\ forester_epochs' = [forester_epochs EXCEPT ![<<g, d>>] = new]
    BY <1>6 DEF finalize_registration
  <2>2. Pda(g, d) \in ForesterEpochPda /\ epochs[d] \in EpochPda
    BY <1>1, <2>1 DEF IInv, CopiesAgree, Registered, Pda
  <2>3. w \in Nat /\ k \in Nat
    BY <2>2 DEF EpochPda, ForesterEpochPda
  <2> HIDE DEF w, k
  <2>4. new \in ForesterEpochPda /\ new.work_counter = Pda(g, d).work_counter
    BY <2>2, <2>3 DEF ForesterEpochPda
  <2>5. new.has_reported_work = Pda(g, d).has_reported_work
    BY <2>2 DEF ForesterEpochPda
  <2> HIDE DEF new
  <2>6. ASSUME NEW f \in Forester, NEW e \in Epoch PROVE ReportedWork(f, e)' = ReportedWork(f, e)
    BY <1>4, <2>1, <2>4, <2>5
  <2> QED
    BY <2>1, <2>6 DEF NoReport
<1>7. ASSUME NEW g \in Forester, NEW d \in Epoch, NEW q \in Queue, forest(g, d, q) PROVE NoReport
  <2> DEFINE k == Pda(g, d).work_counter + 1
             new == [Pda(g, d) EXCEPT !.work_counter = k]
  <2>1. /\ Registered(g, d) /\ UNCHANGED epochs
        /\ forester_epochs' = [forester_epochs EXCEPT ![<<g, d>>] = new]
    BY <1>7 DEF forest
  <2>2. Pda(g, d) \in ForesterEpochPda /\ k \in Nat /\ k # Pda(g, d).work_counter
    BY <1>1, <2>1 DEF Registered, Pda, ForesterEpochPda
  <2> HIDE DEF k
  <2>3. new \in ForesterEpochPda /\ new.work_counter = k
    BY <2>2 DEF ForesterEpochPda
  <2>4. new.has_reported_work = Pda(g, d).has_reported_work
    BY <2>2 DEF ForesterEpochPda
  <2> HIDE DEF new
  <2>5. ~Pda(g, d).has_reported_work
    <3>1. Next
      BY <1>7 DEF Next
    <3>2. forester_epochs'[<<g, d>>] = new
      BY <1>1, <2>1
    <3> QED
      BY <2>1, <2>2, <2>3, <3>1, <3>2, ReportFinal
  <2>6. ASSUME NEW f \in Forester, NEW e \in Epoch PROVE ReportedWork(f, e)' = ReportedWork(f, e)
    BY <1>4, <2>1, <2>3, <2>4, <2>5
  <2> QED
    BY <2>1, <2>6 DEF NoReport
<1> QED
  BY <1>3, <1>5, <1>6, <1>7 DEF Next

\* The work an epoch has collected is what its foresters have reported.
THEOREM RegistryWorkAccounted == Spec => []WorkAccounted
<1>1. Init => WorkAccounted
  BY DEF Init, WorkAccounted
<1>2. IInv /\ IInv' /\ WorkAccounted /\ [Next]_vars => WorkAccounted'
  <2>1. SUFFICES ASSUME IInv, IInv', WorkAccounted, [Next]_vars PROVE WorkAccounted'
    OBVIOUS
  <2> QED
    BY <2>1, NoReportAccounted, ReportAccounted, OtherStepsReportNothing
<1> QED
  BY <1>1, <1>2, RegistryInvariant, PTL DEF Spec
-----------------------------------------------------------------------------
\* The service.

CallStage == {"fetch", "next", "eligibility", "phase", "sent", "confirmed"}

Call ==
    [forester : Forester, task : Epoch, n : Nat, epoch : Epoch, queue : Queue,
     at : CallStage, items : SUBSET Item, item : Item \cup {None}, retries : Nat]

ForesterTypeOK ==
    /\ pending \subseteq Item
    /\ task \in [Forester \X Epoch -> Task \cup {None}]
    /\ updates \in [Forester \X Epoch -> SUBSET [queue : Queue, slot : Nat]]
    /\ calls \subseteq Call /\ IsFiniteSet(calls)
    /\ late \subseteq [forester : Forester, epoch : Epoch, item : Item \cup {None}]
    /\ processed \in [Forester \X Epoch -> Nat]

\* A call belongs to a task that has not been forgotten.
CallsHaveTasks == \A c \in calls : task[<<c.forester, c.task>>] \in Task

\* A task that works has a registration, which is on chain.
Idle == {"register", "build", "registering", "failed"}
Works(f, e) == task[<<f, e>>] # None /\ task[<<f, e>>].at \notin Idle

WorkersRegistered ==
    \A f \in Forester, e \in Epoch : Works(f, e) => Registered(f, RegisteredEpoch(f, e))

\* What the forester has counted, and the calls that are about to count, have
\* been counted on chain.
Confirmed(f, e) == {c \in calls : c.forester = f /\ c.epoch = e /\ c.at = "confirmed"}

ConfirmedCounted ==
    \A f \in Forester, e \in Epoch :
        IF Registered(f, e)
        THEN processed[<<f, e>>] + Cardinality(Confirmed(f, e)) <= Pda(f, e).work_counter
        ELSE processed[<<f, e>>] = 0 /\ Confirmed(f, e) = {}

FInv ==
    /\ IInv /\ ForesterTypeOK /\ CallsHaveTasks /\ WorkersRegistered
    /\ OneTaskPerEpoch /\ NeverEarly /\ ConfirmedCounted

-----------------------------------------------------------------------------
\* What a step of the service does to the registry: no config or weight changes.
ChainStep ==
    \/ UNCHANGED vars
    \/ Tick
    \/ \E f \in Forester, e \in Epoch :
        \/ register_forester_epoch(f, e)
        \/ finalize_registration(f, e)
        \/ \E q \in Queue : forest(f, e, q)
        \/ report_work(f, e)

\* Time does not run backwards, and registrations and their work are kept.
ChainKept ==
    /\ slot' >= slot /\ config' = config
    /\ \A f \in Forester, e \in Epoch : Registered(f, e) =>
        /\ Pda(f, e)' # None
        /\ Pda(f, e)'.work_counter >= Pda(f, e).work_counter

\* The registry's invariant survives, and the chain forgets nothing.
LEMMA ChainEffect ==
    ASSUME IInv, ChainStep
    PROVE  IInv' /\ ChainKept
<1>1. IInv'
  <2>1. [Next]_vars
    BY DEF ChainStep, Next
  <2> QED
    BY <2>1, RegistryStepIInv
<1>2. TypeOK /\ TypeOK'
  BY <1>1 DEF IInv
<1>3. slot \in Nat
  BY <1>2, RegistryAssumption DEF TypeOK
<1>4. slot' >= slot /\ config' = config
  <2>1. CASE UNCHANGED vars \/ Tick
    BY <1>3, <2>1 DEF Tick, vars
  <2>2. ASSUME NEW f \in Forester, NEW e \in Epoch,
               \/ register_forester_epoch(f, e)
               \/ finalize_registration(f, e)
               \/ \E q \in Queue : forest(f, e, q)
               \/ report_work(f, e)
        PROVE  UNCHANGED <<slot, config>>
    BY <2>2, Zenon DEF register_forester_epoch, finalize_registration, forest, report_work
  <2> QED
    BY <1>3, <2>1, <2>2 DEF ChainStep
<1>5. ASSUME NEW f \in Forester, NEW e \in Epoch, Registered(f, e)
      PROVE  Pda(f, e)' # None /\ Pda(f, e)'.work_counter >= Pda(f, e).work_counter
  <2>1. /\ forester_epochs \in [Forester \X Epoch -> ForesterEpochPda \cup {None}]
        /\ <<f, e>> \in Forester \X Epoch
        /\ Pda(f, e) \in ForesterEpochPda /\ Pda(f, e) # None
        /\ Pda(f, e).work_counter \in Nat
    BY <1>2, <1>5 DEF TypeOK, Registered, Pda, ForesterEpochPda
  <2>2. CASE UNCHANGED vars \/ Tick
    BY <2>1, <2>2 DEF Tick, vars, Pda
  <2>3. ASSUME NEW g \in Forester, NEW d \in Epoch, <<g, d>> # <<f, e>>,
               \/ register_forester_epoch(g, d)
               \/ finalize_registration(g, d)
               \/ \E q \in Queue : forest(g, d, q)
               \/ report_work(g, d)
        PROVE  Pda(f, e)' = Pda(f, e)
    BY <2>1, <2>3
       DEF register_forester_epoch, finalize_registration, forest, report_work, Pda
  <2>4. ~register_forester_epoch(f, e)
    BY <1>5 DEF register_forester_epoch
  <2>5. ASSUME finalize_registration(f, e) PROVE Pda(f, e)' # None /\ Pda(f, e)'.work_counter = Pda(f, e).work_counter
    <3>1. Pda(f, e)' = [Pda(f, e) EXCEPT !.total_epoch_weight = epochs[e].registered_weight,
                              !.finalize_counter = Pda(f, e).finalize_counter + 1]
      BY <2>1, <2>5 DEF finalize_registration, Pda
    <3>2. Pda(f, e)' \in ForesterEpochPda \cup {None} /\ epochs[e] \in EpochPda \cup {None}
      BY <1>2, <2>1 DEF TypeOK, Pda
    <3>3. IInv
      OBVIOUS
    <3>4. epochs[e] \in EpochPda
      BY <3>2, <3>3, <1>5 DEF IInv, CopiesAgree
    <3>5. Pda(f, e)'.work_counter = Pda(f, e).work_counter
      BY <2>1, <3>1 DEF ForesterEpochPda
    <3>6. epochs[e].registered_weight \in Nat /\ Pda(f, e).finalize_counter + 1 \in Nat
      BY <2>1, <3>4 DEF ForesterEpochPda, EpochPda
    <3>7. Pda(f, e)' \in ForesterEpochPda
      BY <2>1, <3>1, <3>6 DEF ForesterEpochPda
    <3> QED
      BY <3>5, <3>7, RegistryAssumption
  <2>6. ASSUME NEW q \in Queue, forest(f, e, q)
        PROVE  Pda(f, e)' # None /\ Pda(f, e)'.work_counter = Pda(f, e).work_counter + 1
    BY <2>1, <2>6, RegistryAssumption DEF forest, Pda, ForesterEpochPda
  <2>7. ASSUME report_work(f, e)
        PROVE  Pda(f, e)' # None /\ Pda(f, e)'.work_counter = Pda(f, e).work_counter
    BY <2>1, <2>7, RegistryAssumption DEF report_work, Pda, ForesterEpochPda
  <2> QED
    BY <2>1, <2>2, <2>3, <2>4, <2>5, <2>6, <2>7 DEF ChainStep
<1> QED
  BY <1>1, <1>4, <1>5 DEF ChainKept

-----------------------------------------------------------------------------
\* The phases the service computes start no earlier than the registry's.
LEMMA PhasesNotEarly ==
    ASSUME NEW c \in Config, NEW e \in Epoch
    PROVE  /\ get_epoch_phases(c, e).active.start \in Nat
           /\ get_epoch_phases(c, e).report_work.start \in Nat
           /\ get_epoch_phases(c, e).active.start >= ActivePhaseStart(c, e)
           /\ get_epoch_phases(c, e).report_work.start >= ActivePhaseStart(c, e + 1)
<1> DEFINE a == c.active_phase_length
           g == c.genesis_slot
           r == c.registration_phase_length
           m == e * a
<1>1. a \in Nat /\ g \in Nat /\ r \in Nat /\ e \in Nat
  BY RegistryAssumption DEF ConfigType
<1>2. m \in Nat /\ (e + 1) * a = m + a
  BY <1>1
<1>3. ActivePhaseStart(c, e) = m + g + r /\ ActivePhaseStart(c, e + 1) = m + a + g + r
  BY <1>1, <1>2 DEF ActivePhaseStart, ActiveGenesis
<1>4. /\ get_epoch_phases(c, e).active.start = Minus(g + m + r, 1) + 1
      /\ get_epoch_phases(c, e).report_work.start = Minus(Minus(g + m + r, 1) + 1 + a, 1) + 1
  BY DEF get_epoch_phases
<1> HIDE DEF a, g, r, m
<1> QED
  BY <1>1, <1>2, <1>3, <1>4 DEF Minus

\* What a step that is no registration does to the task of f for e: nothing,
\* or it is forgotten, or it does not work afterwards, or it worked before and
\* goes on for the same epoch, waiting where it has to.
Moves(f, e) ==
    \/ task'[<<f, e>>] = task[<<f, e>>]
    \/ task'[<<f, e>>] = None
    \/ task'[<<f, e>>].at \in Idle
    \/ /\ Works(f, e)
       /\ task'[<<f, e>>].epoch = task[<<f, e>>].epoch
       /\ \/ task'[<<f, e>>].at \notin {"finalize", "report"}
          \/ task'[<<f, e>>].at = task[<<f, e>>].at
          \/ /\ task'[<<f, e>>].at = "finalize"
             /\ slot >= Phases(task[<<f, e>>].epoch).active.start
          \/ /\ task'[<<f, e>>].at = "report"
             /\ slot >= Phases(task[<<f, e>>].epoch).report_work.start

TasksMove == \A f \in Forester, e \in Epoch : Moves(f, e)

\* A task that works after such a step worked before, for the same epoch.
LEMMA WorksBefore ==
    ASSUME NEW f \in Forester, NEW e \in Epoch, Moves(f, e), Works(f, e)'
    PROVE  Works(f, e) /\ task'[<<f, e>>].epoch = task[<<f, e>>].epoch
BY DEF Moves, Works, Idle

\* Such steps keep the three invariants of tasks.
LEMMA MovesKeep ==
    ASSUME IInv, IInv', ForesterTypeOK, WorkersRegistered, OneTaskPerEpoch, NeverEarly,
           ChainKept, TasksMove
    PROVE  WorkersRegistered' /\ OneTaskPerEpoch' /\ NeverEarly'
<1>1. WorkersRegistered'
  <2>1. SUFFICES ASSUME NEW f \in Forester, NEW e \in Epoch, Works(f, e)'
                 PROVE  Registered(f, RegisteredEpoch(f, e))'
    BY DEF WorkersRegistered
  <2>2. Works(f, e) /\ task'[<<f, e>>].epoch = task[<<f, e>>].epoch
    BY <2>1, WorksBefore DEF TasksMove
  <2>3. task[<<f, e>>] \in Task /\ task[<<f, e>>].epoch \in Epoch
    BY <2>2 DEF ForesterTypeOK, Works, Task
  <2>4. Registered(f, task[<<f, e>>].epoch)
    BY <2>2 DEF WorkersRegistered, RegisteredEpoch
  <2> QED
    BY <2>2, <2>3, <2>4 DEF ChainKept, Registered, RegisteredEpoch, Pda
<1>2. OneTaskPerEpoch'
  <2>1. SUFFICES ASSUME NEW f \in Forester, NEW d \in Epoch, NEW e \in Epoch,
                        Works(f, d)', Works(f, e)', task'[<<f, d>>].epoch = task'[<<f, e>>].epoch
                 PROVE  d = e
    BY DEF OneTaskPerEpoch, Works, Idle, RegisteredEpoch
  <2>2. /\ Works(f, d) /\ task'[<<f, d>>].epoch = task[<<f, d>>].epoch
        /\ Works(f, e) /\ task'[<<f, e>>].epoch = task[<<f, e>>].epoch
    BY <2>1, WorksBefore DEF TasksMove
  <2> QED
    BY <2>1, <2>2 DEF OneTaskPerEpoch, Works, Idle, RegisteredEpoch
<1>3. NeverEarly'
  <2>1. slot \in Nat /\ slot' \in Int /\ slot' >= slot /\ config' = config /\ config \in Config
    BY RegistryAssumption DEF IInv, TypeOK, ChainKept
  <2>2. SUFFICES ASSUME NEW f \in Forester, NEW e \in Epoch
                 PROVE  /\ At(f, e, "finalize")'
                            => slot' >= ActivePhaseStart(config, task'[<<f, e>>].epoch)
                        /\ At(f, e, "report")'
                            => slot' >= ActivePhaseStart(config, task'[<<f, e>>].epoch + 1)
    BY <2>1 DEF NeverEarly, RegisteredEpoch
  <2>3. SUFFICES ASSUME Works(f, e)'
                 PROVE  /\ At(f, e, "finalize")'
                            => slot' >= ActivePhaseStart(config, task'[<<f, e>>].epoch)
                        /\ At(f, e, "report")'
                            => slot' >= ActivePhaseStart(config, task'[<<f, e>>].epoch + 1)
    BY DEF Works, At, Idle
  <2> DEFINE r == task[<<f, e>>].epoch
  <2>4. Works(f, e) /\ task'[<<f, e>>].epoch = r
    BY <2>3, WorksBefore DEF TasksMove
  <2>5. task[<<f, e>>] # None /\ r \in Epoch
    BY <2>4 DEF ForesterTypeOK, Works, Task
  <2>6. /\ get_epoch_phases(config, r).active.start \in Nat
        /\ get_epoch_phases(config, r).report_work.start \in Nat
        /\ get_epoch_phases(config, r).active.start >= ActivePhaseStart(config, r)
        /\ get_epoch_phases(config, r).report_work.start >= ActivePhaseStart(config, r + 1)
        /\ ActivePhaseStart(config, r) \in Nat
        /\ ActivePhaseStart(config, r + 1) \in Nat
    BY <2>1, <2>5, PhasesNotEarly, StartIsSlot
  <2>7. /\ task[<<f, e>>].at = "finalize" => slot >= ActivePhaseStart(config, r)
        /\ task[<<f, e>>].at = "report" => slot >= ActivePhaseStart(config, r + 1)
    BY <2>5 DEF NeverEarly, At, RegisteredEpoch
  <2>8. \/ task'[<<f, e>>].at \notin {"finalize", "report"}
        \/ task'[<<f, e>>].at = task[<<f, e>>].at
        \/ task'[<<f, e>>].at = "finalize" /\ slot >= get_epoch_phases(config, r).active.start
        \/ task'[<<f, e>>].at = "report" /\ slot >= get_epoch_phases(config, r).report_work.start
    BY <2>3, <2>5 DEF TasksMove, Moves, Works, Phases
  <2> HIDE DEF r
  <2>9. /\ task'[<<f, e>>].at = "finalize" => slot' >= ActivePhaseStart(config, r)
        /\ task'[<<f, e>>].at = "report" => slot' >= ActivePhaseStart(config, r + 1)
    BY <2>1, <2>6, <2>7, <2>8
  <2> QED
    BY <2>4, <2>9 DEF At
<1> QED
  BY <1>1, <1>2, <1>3

\* A registration that lands is new, so no other task works for its epoch.
LEMMA RegisterLandsKeeps ==
    ASSUME IInv, IInv', ForesterTypeOK, WorkersRegistered, OneTaskPerEpoch, NeverEarly,
           ChainKept, NEW f \in Forester, NEW e \in Epoch, RegisterLands(f, e)
    PROVE  WorkersRegistered' /\ OneTaskPerEpoch' /\ NeverEarly'
<1> DEFINE r == task[<<f, e>>].epoch
           fe == <<f, e>>
<1>1. /\ task \in [Forester \X Epoch -> Task \cup {None}] /\ task[fe] \in Task
      /\ r \in Epoch /\ task[fe].at = "registering" /\ fe \in Forester \X Epoch
  BY DEF ForesterTypeOK, RegisterLands, At, Task
<1>2. PICK at \in {"wait_active", "failed"} : task' = [task EXCEPT ![fe] = [@ EXCEPT !.at = at]]
  BY DEF RegisterLands, Goto
<1>3. /\ task'[fe].at = at /\ task'[fe].epoch = r
      /\ \A x \in Forester \X Epoch : x # fe => task'[x] = task[x]
  BY <1>1, <1>2 DEF Task
<1>4. CASE at = "failed"
  <2>1. TasksMove
    BY <1>3, <1>4 DEF TasksMove, Moves, Idle
  <2> QED
    BY <2>1, MovesKeep
<1>5. CASE at = "wait_active"
  <2>1. ~Registered(f, r) /\ forester_epochs'[<<f, r>>] # None
    <3>1. register_forester_epoch(f, r)
      BY DEF RegisterLands, RegisteredEpoch
    <3>2. ~Registered(f, r)
      BY <3>1 DEF register_forester_epoch
    <3> DEFINE c == EpochAccount(r).protocol_config
               new == [weight                        |-> active_weight[f],
                 work_counter                  |-> 0,
                 has_reported_work             |-> FALSE,
                 forester_index                |-> EpochAccount(r).registered_weight,
                 epoch_active_phase_start_slot |-> ActivePhaseStart(c, r),
                 total_epoch_weight            |-> None,
                 protocol_config               |-> c,
                 finalize_counter              |-> 0]
    <3>3. forester_epochs' = [forester_epochs EXCEPT ![<<f, r>>] = new]
      BY <3>1 DEF register_forester_epoch
    <3> HIDE DEF new
    <3>4. forester_epochs'[<<f, r>>] = new
      <4>1. /\ forester_epochs \in [Forester \X Epoch -> ForesterEpochPda \cup {None}]
            /\ <<f, r>> \in Forester \X Epoch
        BY <1>1 DEF IInv, TypeOK
      <4> QED
        BY <3>3, <4>1
    <3>5. new \in ForesterEpochPda
      <4>1. config \in Config /\ epochs[r] \in EpochPda \cup {None} /\ active_weight[f] \in Nat
        BY <1>1 DEF IInv, TypeOK
      <4>2. c \in Config /\ EpochAccount(r).registered_weight \in Nat
        BY <4>1 DEF EpochAccount, NewEpochAccount, EpochPda
      <4>3. ActivePhaseStart(c, r) \in Nat
        BY <1>1, <4>2, StartIsSlot
      <4> QED
        BY <4>1, <4>2, <4>3 DEF ForesterEpochPda, new
    <3> QED
      BY <3>2, <3>4, <3>5, RegistryAssumption
  <2>2. WorkersRegistered'
    <3>1. SUFFICES ASSUME NEW g \in Forester, NEW d \in Epoch, Works(g, d)'
                   PROVE  Registered(g, RegisteredEpoch(g, d))'
      BY DEF WorkersRegistered
    <3>2. CASE <<g, d>> = fe
      BY <1>3, <2>1, <3>2 DEF Registered, RegisteredEpoch, Pda
    <3>3. CASE <<g, d>> # fe
      <4>1. task'[<<g, d>>] = task[<<g, d>>]
        BY <1>3, <3>3
      <4>2. Works(g, d)
        BY <3>1, <4>1 DEF Works
      <4>3. Registered(g, task[<<g, d>>].epoch) /\ task[<<g, d>>].epoch \in Epoch
        BY <1>1, <4>2 DEF WorkersRegistered, RegisteredEpoch, Works, Task
      <4> QED
        BY <4>1, <4>3 DEF ChainKept, Registered, RegisteredEpoch, Pda
    <3> QED
      BY <3>2, <3>3
  <2>3. OneTaskPerEpoch'
    <3>1. SUFFICES ASSUME NEW g \in Forester, NEW x \in Epoch, NEW y \in Epoch, x # y,
                          Works(g, x)', Works(g, y)'
                   PROVE  task'[<<g, x>>].epoch # task'[<<g, y>>].epoch
      BY DEF OneTaskPerEpoch, Works, Idle, RegisteredEpoch
    <3>2. ASSUME NEW z \in Epoch, z # e, Works(f, z)' PROVE task'[<<f, z>>].epoch # r
      <4>1. task'[<<f, z>>] = task[<<f, z>>]
        BY <1>3, <3>2
      <4>2. Works(f, z)
        BY <3>2, <4>1 DEF Works
      <4> QED
        BY <2>1, <4>1, <4>2 DEF WorkersRegistered, RegisteredEpoch
    <3>3. CASE g = f /\ (x = e \/ y = e)
      BY <1>3, <3>1, <3>2, <3>3
    <3>4. CASE ~(g = f /\ (x = e \/ y = e))
      <4>1. task'[<<g, x>>] = task[<<g, x>>] /\ task'[<<g, y>>] = task[<<g, y>>]
        BY <1>3, <3>4
      <4> QED
        BY <3>1, <4>1 DEF OneTaskPerEpoch, Works, Idle, RegisteredEpoch
    <3> QED
      BY <3>3, <3>4
  <2>4. NeverEarly'
    <3>1. slot \in Nat /\ slot' \in Nat /\ slot' >= slot /\ config' = config /\ config \in Config
      BY RegistryAssumption DEF IInv, TypeOK, ChainKept
    <3>2. SUFFICES ASSUME NEW g \in Forester, NEW d \in Epoch
                   PROVE  /\ At(g, d, "finalize")'
                            => slot' >= ActivePhaseStart(config, task'[<<g, d>>].epoch)
                          /\ At(g, d, "report")'
                            => slot' >= ActivePhaseStart(config, task'[<<g, d>>].epoch + 1)
      BY <3>1 DEF NeverEarly, RegisteredEpoch
    <3>3. CASE <<g, d>> = fe
      BY <1>3, <1>5, <3>3 DEF At
    <3>4. CASE <<g, d>> # fe /\ task[<<g, d>>] # None
      <4>1. task'[<<g, d>>] = task[<<g, d>>] /\ task[<<g, d>>].epoch \in Epoch
        BY <1>1, <1>3, <3>4 DEF Task
      <4>2. /\ ActivePhaseStart(config, task[<<g, d>>].epoch) \in Nat
            /\ ActivePhaseStart(config, task[<<g, d>>].epoch + 1) \in Nat
        BY <3>1, <4>1, StartIsSlot
      <4>3. /\ At(g, d, "finalize") => slot >= ActivePhaseStart(config, task[<<g, d>>].epoch)
            /\ At(g, d, "report") => slot >= ActivePhaseStart(config, task[<<g, d>>].epoch + 1)
        BY DEF NeverEarly, RegisteredEpoch
      <4> QED
        BY <3>1, <4>1, <4>2, <4>3 DEF At
    <3>5. CASE <<g, d>> # fe /\ task[<<g, d>>] = None
      BY <1>3, <3>5 DEF At
    <3> QED
      BY <3>3, <3>4, <3>5
  <2> QED
    BY <2>2, <2>3, <2>4
<1> QED
  BY <1>2, <1>4, <1>5

-----------------------------------------------------------------------------
\* The calls that are about to count for an epoch are finitely many.
LEMMA ConfirmedFinite ==
    ASSUME ForesterTypeOK, NEW f, NEW e
    PROVE  /\ IsFiniteSet(Confirmed(f, e))
           /\ Cardinality(Confirmed(f, e)) \in Nat
BY FS_Subset, FS_CardinalityType DEF ForesterTypeOK, Confirmed

\* No call is confirmed and the forester counts nothing.
CountsQuiet ==
    /\ \A c \in calls' : c.at = "confirmed" => c \in calls
    /\ \A fe \in Forester \X Epoch : processed'[fe] <= processed[fe]

\* Such a step keeps the count below the chain's.
LEMMA QuietCounts ==
    ASSUME IInv, IInv', ChainKept, ForesterTypeOK, ForesterTypeOK', ConfirmedCounted, CountsQuiet
    PROVE  ConfirmedCounted'
<1>1. SUFFICES ASSUME NEW f \in Forester, NEW e \in Epoch
               PROVE  IF Registered(f, e)'
                      THEN processed'[<<f, e>>] + Cardinality(Confirmed(f, e)')
                                <= Pda(f, e)'.work_counter
                      ELSE processed'[<<f, e>>] = 0 /\ Confirmed(f, e)' = {}
  BY DEF ConfirmedCounted
<1>2. Confirmed(f, e)' \subseteq Confirmed(f, e)
  BY DEF CountsQuiet, Confirmed
<1>3. /\ processed[<<f, e>>] \in Nat /\ processed'[<<f, e>>] \in Nat
      /\ processed'[<<f, e>>] <= processed[<<f, e>>]
  BY DEF ForesterTypeOK, CountsQuiet
<1>4. IsFiniteSet(Confirmed(f, e)) /\ Cardinality(Confirmed(f, e)) \in Nat
  BY ConfirmedFinite
<1>5. /\ Cardinality(Confirmed(f, e)') \in Nat
      /\ Cardinality(Confirmed(f, e)') <= Cardinality(Confirmed(f, e))
  BY <1>2, <1>4, FS_Subset, FS_CardinalityType
<1>6. Registered(f, e)' => Pda(f, e)'.work_counter \in Nat
  BY DEF IInv, TypeOK, Registered, Pda, ForesterEpochPda
<1>7. Registered(f, e) => Pda(f, e).work_counter \in Nat
  BY DEF IInv, TypeOK, Registered, Pda, ForesterEpochPda
<1>8. CASE Registered(f, e)
  <2>1. Registered(f, e)' /\ Pda(f, e)'.work_counter >= Pda(f, e).work_counter
    BY <1>8 DEF ChainKept, Registered
  <2>2. processed[<<f, e>>] + Cardinality(Confirmed(f, e)) <= Pda(f, e).work_counter
    BY <1>8 DEF ConfirmedCounted
  <2> QED
    BY <1>3, <1>4, <1>5, <1>6, <1>7, <1>8, <2>1, <2>2
<1>9. CASE ~Registered(f, e)
  <2>1. processed[<<f, e>>] = 0 /\ Confirmed(f, e) = {}
    BY <1>9 DEF ConfirmedCounted
  <2>2. processed'[<<f, e>>] = 0 /\ Confirmed(f, e)' = {}
    BY <1>2, <1>3, <2>1
  <2>3. Cardinality(Confirmed(f, e)') = 0
    BY <2>2, FS_EmptySet
  <2> QED
    BY <1>6, <2>2, <2>3
<1> QED
  BY <1>8, <1>9

\* A transaction that lands is counted by the registry for the epoch in which
\* its call will be counted.
LEMMA LandedCounts ==
    ASSUME IInv, IInv', ForesterTypeOK, ForesterTypeOK', ConfirmedCounted,
           NEW c \in calls, TransactionLands(c)
    PROVE  ConfirmedCounted'
<1> DEFINE d == [c EXCEPT !.at = "confirmed"]
<1>1. c \in Call /\ c.forester \in Forester /\ c.epoch \in Epoch
  BY DEF ForesterTypeOK, Call
<1>2. /\ calls' = (calls \ {c}) \cup {d} /\ processed' = processed
      /\ forest(c.forester, c.epoch, QueueOf[c.item])
  BY DEF TransactionLands, ProcessItem, Becomes
<1>3. d.forester = c.forester /\ d.epoch = c.epoch /\ d.at = "confirmed" /\ c.at # "confirmed"
  BY <1>1 DEF Call, TransactionLands
<1> HIDE DEF d
<1>4. SUFFICES ASSUME NEW f \in Forester, NEW e \in Epoch
               PROVE  IF Registered(f, e)'
                      THEN processed[<<f, e>>] + Cardinality(Confirmed(f, e)')
                                <= Pda(f, e)'.work_counter
                      ELSE processed[<<f, e>>] = 0 /\ Confirmed(f, e)' = {}
  BY <1>2 DEF ConfirmedCounted
<1>5. /\ forester_epochs \in [Forester \X Epoch -> ForesterEpochPda \cup {None}]
      /\ processed[<<f, e>>] \in Nat
  BY DEF IInv, TypeOK, ForesterTypeOK
<1>6. IsFiniteSet(Confirmed(f, e)) /\ Cardinality(Confirmed(f, e)) \in Nat
  BY ConfirmedFinite
<1>7. CASE f = c.forester /\ e = c.epoch
  <2>1. Pda(f, e) \in ForesterEpochPda /\ Registered(f, e) /\ Pda(f, e).work_counter \in Nat
    BY <1>2, <1>5, <1>7 DEF forest, Registered, Pda, ForesterEpochPda
  <2>2. forester_epochs'[<<f, e>>] = [Pda(f, e) EXCEPT !.work_counter = Pda(f, e).work_counter + 1]
    BY <1>2, <1>5, <1>7 DEF forest
  <2>3. /\ forester_epochs'[<<f, e>>] \in ForesterEpochPda
        /\ forester_epochs'[<<f, e>>].work_counter = Pda(f, e).work_counter + 1
    BY <2>1, <2>2 DEF ForesterEpochPda
  <2>4. Registered(f, e)' /\ Pda(f, e)'.work_counter = Pda(f, e).work_counter + 1
    BY <2>3, RegistryAssumption DEF Registered, Pda
  <2>5. Confirmed(f, e)' = Confirmed(f, e) \cup {d}
    BY <1>2, <1>3, <1>7 DEF Confirmed
  <2>6. /\ Cardinality(Confirmed(f, e)') \in Nat
        /\ Cardinality(Confirmed(f, e)') <= Cardinality(Confirmed(f, e)) + 1
    <3>1. \/ Cardinality(Confirmed(f, e) \cup {d}) = Cardinality(Confirmed(f, e))
          \/ Cardinality(Confirmed(f, e) \cup {d}) = Cardinality(Confirmed(f, e)) + 1
      BY <1>6, FS_AddElement
    <3> QED
      BY <1>6, <2>5, <3>1
  <2>7. processed[<<f, e>>] + Cardinality(Confirmed(f, e)) <= Pda(f, e).work_counter
    BY <2>1 DEF ConfirmedCounted
  <2> QED
    BY <1>5, <1>6, <2>1, <2>4, <2>6, <2>7
<1>8. CASE ~(f = c.forester /\ e = c.epoch)
  <2>1. Confirmed(f, e)' = Confirmed(f, e)
    BY <1>2, <1>3, <1>8 DEF Confirmed
  <2>2. Pda(f, e)' = Pda(f, e)
    BY <1>1, <1>2, <1>5, <1>8 DEF forest, Pda
  <2> QED
    BY <2>1, <2>2 DEF ConfirmedCounted, Registered
<1> QED
  BY <1>7, <1>8

\* The forester counts a call that is confirmed, which is then no longer so.
LEMMA IncrementCounts ==
    ASSUME IInv, IInv', ForesterTypeOK, ForesterTypeOK', ConfirmedCounted,
           NEW c \in calls, increment_processed_items_count(c)
    PROVE  ConfirmedCounted'
<1> DEFINE d == Skip(c)
<1>1. c \in Call /\ c.forester \in Forester /\ c.epoch \in Epoch
  BY DEF ForesterTypeOK, Call
<1>2. /\ calls' = (calls \ {c}) \cup {d}
      /\ processed' = [processed EXCEPT ![<<c.forester, c.epoch>>] = @ + 1]
      /\ forester_epochs' = forester_epochs
  BY DEF increment_processed_items_count, Becomes, vars
<1>3. d.at = "next" /\ c.at = "confirmed"
  BY <1>1 DEF Call, Skip, increment_processed_items_count
<1> HIDE DEF d
<1>4. SUFFICES ASSUME NEW f \in Forester, NEW e \in Epoch
               PROVE  IF Registered(f, e)
                      THEN processed'[<<f, e>>] + Cardinality(Confirmed(f, e)')
                                <= Pda(f, e).work_counter
                      ELSE processed'[<<f, e>>] = 0 /\ Confirmed(f, e)' = {}
  BY <1>2 DEF ConfirmedCounted, Registered, Pda
<1>5. /\ processed \in [Forester \X Epoch -> Nat] /\ processed[<<f, e>>] \in Nat
      /\ (Registered(f, e) => Pda(f, e).work_counter \in Nat)
  BY DEF IInv, TypeOK, ForesterTypeOK, Registered, Pda, ForesterEpochPda
<1>6. IsFiniteSet(Confirmed(f, e)) /\ Cardinality(Confirmed(f, e)) \in Nat
  BY ConfirmedFinite
<1>7. CASE f = c.forester /\ e = c.epoch
  <2>1. c \in Confirmed(f, e) /\ Confirmed(f, e)' = Confirmed(f, e) \ {c}
    BY <1>2, <1>3, <1>7 DEF Confirmed
  <2>2. Registered(f, e)
    BY <2>1 DEF ConfirmedCounted
  <2>3. Cardinality(Confirmed(f, e)') = Cardinality(Confirmed(f, e)) - 1
    BY <1>6, <2>1, FS_RemoveElement
  <2>4. processed'[<<f, e>>] = processed[<<f, e>>] + 1
    BY <1>2, <1>5, <1>7
  <2>5. processed[<<f, e>>] + Cardinality(Confirmed(f, e)) <= Pda(f, e).work_counter
    BY <2>2 DEF ConfirmedCounted
  <2> QED
    BY <1>5, <1>6, <2>2, <2>3, <2>4, <2>5
<1>8. CASE ~(f = c.forester /\ e = c.epoch)
  <2>1. Confirmed(f, e)' = Confirmed(f, e)
    BY <1>2, <1>3, <1>8 DEF Confirmed
  <2>2. processed'[<<f, e>>] = processed[<<f, e>>]
    BY <1>1, <1>2, <1>5, <1>8
  <2> QED
    BY <2>1, <2>2 DEF ConfirmedCounted
<1> QED
  BY <1>7, <1>8

-----------------------------------------------------------------------------
\* d is how call c goes on, without being confirmed.
Goes(c, d) ==
    /\ d \in Call /\ d.at # "confirmed"
    /\ d.forester = c.forester /\ d.task = c.task

\* The calls that remain have their types and their tasks.
CallsKept ==
    /\ calls' \subseteq Call /\ IsFiniteSet(calls')
    /\ \A c \in calls' : task[<<c.forester, c.task>>] \in Task

\* What the steps of a call make of it.
LEMMA CallForms ==
    ASSUME NEW c \in Call
    PROVE  /\ Goes(c, Skip(c)) /\ Goes(c, Retry(c))
           /\ Goes(c, [c EXCEPT !.at = "phase"]) /\ Goes(c, [c EXCEPT !.at = "sent"])
           /\ \A S \in SUBSET Item : Goes(c, [c EXCEPT !.at = "next", !.items = S])
           /\ \A i \in c.items :
                Goes(c, [c EXCEPT !.at = "eligibility", !.item = i, !.items = @ \ {i}])
<1>1. Goes(c, Skip(c))
  BY DEF Goes, Skip, Call, CallStage
<1>2. Goes(c, [c EXCEPT !.at = "eligibility", !.retries = @ + 1])
  <2>1. c.retries + 1 \in Nat
    BY DEF Call
  <2>2. ASSUME NEW n \in Nat PROVE Goes(c, [c EXCEPT !.at = "eligibility", !.retries = n])
    BY DEF Goes, Call, CallStage
  <2> QED
    BY <2>1, <2>2
<1>3. Goes(c, Retry(c))
  BY <1>1, <1>2 DEF Retry
<1>4. Goes(c, [c EXCEPT !.at = "phase"]) /\ Goes(c, [c EXCEPT !.at = "sent"])
  BY DEF Goes, Call, CallStage
<1>5. ASSUME NEW S \in SUBSET Item PROVE Goes(c, [c EXCEPT !.at = "next", !.items = S])
  BY DEF Goes, Call, CallStage
<1>6. ASSUME NEW i \in c.items
      PROVE  Goes(c, [c EXCEPT !.at = "eligibility", !.item = i, !.items = @ \ {i}])
  <2>1. i \in Item /\ c.items \ {i} \in SUBSET Item
    BY DEF Call
  <2> QED
    BY <2>1 DEF Goes, Call, CallStage
<1> QED
  BY <1>1, <1>3, <1>4, <1>5, <1>6

\* A call that goes on or ends keeps the calls in order.
LEMMA CallGoesOn ==
    ASSUME ForesterTypeOK, CallsHaveTasks, NEW c \in calls,
           \/ Ends(c)
           \/ \E d \in Call : d.forester = c.forester /\ d.task = c.task /\ Becomes(c, d)
    PROVE  CallsKept
<1>1. calls \subseteq Call /\ IsFiniteSet(calls)
  BY DEF ForesterTypeOK
<1>2. IsFiniteSet(calls \ {c}) /\ \A d : IsFiniteSet((calls \ {c}) \cup {d})
  BY <1>1, FS_RemoveElement, FS_AddElement
<1> QED
  BY <1>1, <1>2 DEF CallsKept, CallsHaveTasks, Ends, Becomes

\* What every step guarantees but a registration that lands.
StepKeeps ==
    /\ ForesterTypeOK' /\ CallsHaveTasks'
    /\ ChainStep /\ TasksMove

\* A step of a call that only changes the call.
LEMMA LocalCallStep ==
    ASSUME ForesterTypeOK, CallsHaveTasks, NEW c \in calls,
           Ends(c) \/ \E d : Goes(c, d) /\ Becomes(c, d),
           UNCHANGED <<vars, chainVars, task, updates, late, processed>>
    PROVE  StepKeeps /\ CountsQuiet
<1>1. CallsKept
  BY CallGoesOn DEF Goes
<1>2. ForesterTypeOK' /\ CallsHaveTasks'
  BY <1>1 DEF ForesterTypeOK, CallsHaveTasks, CallsKept, chainVars
<1>3. ChainStep /\ TasksMove
  BY DEF ChainStep, TasksMove, Moves
<1>4. CountsQuiet
  BY DEF CountsQuiet, Ends, Becomes, Goes, ForesterTypeOK
<1> QED
  BY <1>2, <1>3, <1>4 DEF StepKeeps

\* A change of a queue reaches the channels of the tasks.
LEMMA NotifyType ==
    ASSUME TypeOK, ForesterTypeOK, NEW q \in Queue
    PROVE  Notify(q) \in [Forester \X Epoch -> SUBSET [queue : Queue, slot : Nat]]
<1>1. slot \in Nat
  BY RegistryAssumption DEF TypeOK
<1>2. DOMAIN task = Forester \X Epoch
  BY DEF ForesterTypeOK
<1>3. ASSUME NEW fe \in Forester \X Epoch
      PROVE  /\ updates[fe] \in SUBSET [queue : Queue, slot : Nat]
             /\ updates[fe] \cup {[queue |-> q, slot |-> slot]} \in SUBSET [queue : Queue, slot : Nat]
  BY <1>1 DEF ForesterTypeOK
<1> QED
  BY <1>2, <1>3 DEF Notify

\* A transaction of a forester, sent by a call or already given up.
LEMMA ProcessItemKeeps ==
    ASSUME TypeOK, ForesterTypeOK, NEW f \in Forester, NEW e \in Epoch, NEW i,
           ProcessItem(f, e, i)
    PROVE  /\ ChainStep
           /\ pending' \subseteq Item
           /\ updates' \in [Forester \X Epoch -> SUBSET [queue : Queue, slot : Nat]]
<1>1. i \in Item /\ QueueOf[i] \in Queue
  BY ForesterAssumption DEF ProcessItem, ForesterTypeOK
<1>2. ChainStep
  BY <1>1 DEF ProcessItem, ChainStep
<1> QED
  BY <1>1, <1>2, NotifyType DEF ProcessItem, ForesterTypeOK

\* Every step of a call; only two kinds of them touch the counts.
LEMMA CallStepKeeps ==
    ASSUME TypeOK, ForesterTypeOK, CallsHaveTasks, NEW c \in calls, CallStep(c)
    PROVE  /\ StepKeeps
           /\ CountsQuiet \/ TransactionLands(c) \/ increment_processed_items_count(c)
<1>1. c \in Call /\ c.forester \in Forester /\ c.task \in Epoch /\ c.epoch \in Epoch
  BY DEF ForesterTypeOK, Call
<1>2. CASE fetch_work_items(c)
  <2>1. {i \in pending : QueueOf[i] = c.queue} \in SUBSET Item
    BY DEF ForesterTypeOK
  <2>2. Ends(c) \/ \E d : Goes(c, d) /\ Becomes(c, d)
    BY <1>1, <1>2, <2>1, CallForms DEF fetch_work_items
  <2> QED
    BY <1>2, <2>2, LocalCallStep DEF fetch_work_items
<1>3. CASE process_work_items(c)
  <2>1. Ends(c) \/ \E d : Goes(c, d) /\ Becomes(c, d)
    BY <1>1, <1>3, CallForms DEF process_work_items
  <2> QED
    BY <1>3, <2>1, LocalCallStep DEF process_work_items
<1>4. CASE CheckEligibility(c)
  <2>1. Ends(c) \/ \E d : Goes(c, d) /\ Becomes(c, d)
    BY <1>1, <1>4, CallForms DEF CheckEligibility
  <2> QED
    BY <1>4, <2>1, LocalCallStep DEF CheckEligibility
<1>5. CASE process_transaction_batch(c)
  <2>1. Ends(c) \/ \E d : Goes(c, d) /\ Becomes(c, d)
    BY <1>1, <1>5, CallForms DEF process_transaction_batch
  <2> QED
    BY <1>5, <2>1, LocalCallStep DEF process_transaction_batch
<1>6. CASE TransactionFails(c)
  BY <1>1, <1>6, CallForms, LocalCallStep DEF TransactionFails
<1>7. CASE CallFails(c)
  <2>1. Ends(c) \/ \E d : Goes(c, d) /\ Becomes(c, d)
    BY <1>1, <1>7, CallForms DEF CallFails
  <2> QED
    BY <1>7, <2>1, LocalCallStep DEF CallFails
<1>8. CASE TransactionLands(c)
  <2> DEFINE d == [c EXCEPT !.at = "confirmed"]
  <2>1. d \in Call /\ d.forester = c.forester /\ d.task = c.task
    BY <1>1 DEF Call, CallStage
  <2>2. Becomes(c, d) /\ ProcessItem(c.forester, c.epoch, c.item)
        /\ UNCHANGED <<task, late, processed>>
    BY <1>8 DEF TransactionLands
  <2>3. CallsKept
    BY <2>1, <2>2, CallGoesOn
  <2>4. /\ ChainStep /\ pending' \subseteq Item
        /\ updates' \in [Forester \X Epoch -> SUBSET [queue : Queue, slot : Nat]]
    BY <1>1, <2>2, ProcessItemKeeps
  <2>5. ForesterTypeOK' /\ CallsHaveTasks' /\ TasksMove
    BY <2>2, <2>3, <2>4 DEF ForesterTypeOK, CallsHaveTasks, CallsKept, TasksMove, Moves
  <2> QED
    BY <1>8, <2>4, <2>5 DEF StepKeeps
<1>9. CASE TransactionTimesOut(c)
  <2> DEFINE t == [forester |-> c.forester, epoch |-> c.epoch, item |-> c.item]
  <2>1. /\ Becomes(c, Retry(c)) /\ late' = late \cup {t}
        /\ UNCHANGED <<vars, chainVars, task, updates, processed>>
    BY <1>9 DEF TransactionTimesOut
  <2>2. t \in [forester : Forester, epoch : Epoch, item : Item \cup {None}]
    BY <1>1 DEF Call
  <2>3. Goes(c, Retry(c))
    BY <1>1, CallForms
  <2>4. CallsKept
    BY <2>1, <2>3, CallGoesOn DEF Goes
  <2> HIDE DEF t
  <2>5. ForesterTypeOK' /\ CallsHaveTasks'
    BY <2>1, <2>2, <2>4 DEF ForesterTypeOK, CallsHaveTasks, CallsKept, chainVars
  <2>6. ChainStep /\ TasksMove /\ CountsQuiet
    BY <2>1, <2>3 DEF ChainStep, TasksMove, Moves, CountsQuiet, Becomes, Goes, ForesterTypeOK
  <2> QED
    BY <2>5, <2>6 DEF StepKeeps
<1>10. CASE increment_processed_items_count(c)
  <2>1. /\ Becomes(c, Skip(c))
        /\ processed' = [processed EXCEPT ![<<c.forester, c.epoch>>] = @ + 1]
        /\ UNCHANGED <<vars, chainVars, task, updates, late>>
    BY <1>10 DEF increment_processed_items_count
  <2>2. CallsKept
    BY <1>1, <2>1, CallForms, CallGoesOn DEF Goes
  <2>3. processed' \in [Forester \X Epoch -> Nat]
    BY <1>1, <2>1 DEF ForesterTypeOK
  <2>4. ForesterTypeOK' /\ CallsHaveTasks' /\ ChainStep /\ TasksMove
    BY <2>1, <2>2, <2>3
       DEF ForesterTypeOK, CallsHaveTasks, CallsKept, chainVars, ChainStep, TasksMove, Moves
  <2> QED
    BY <1>10, <2>4 DEF StepKeeps
<1>11. CASE FetchFails(c)
  <2> DEFINE fe == <<c.forester, c.task>>
  <2>1. /\ Ends(c) /\ UNCHANGED <<vars, chainVars, updates, late, processed>>
        /\ task' = task \/ task' = [task EXCEPT ![fe] = [@ EXCEPT !.todo = {}]]
    BY <1>11 DEF FetchFails
  <2>2. CallsKept
    BY <2>1, CallGoesOn
  <2>3. /\ fe \in Forester \X Epoch /\ task[fe] \in Task
        /\ task \in [Forester \X Epoch -> Task \cup {None}]
    BY <1>1 DEF CallsHaveTasks, ForesterTypeOK
  <2>4. /\ \A x \in Forester \X Epoch : x # fe => task'[x] = task[x]
        /\ task'[fe] \in Task /\ task'[fe].at = task[fe].at /\ task'[fe].epoch = task[fe].epoch
        /\ task' \in [Forester \X Epoch -> Task \cup {None}]
    BY <2>1, <2>3 DEF Task
  <2> HIDE DEF fe
  <2>5. ForesterTypeOK'
    BY <2>1, <2>2, <2>4 DEF ForesterTypeOK, CallsKept, chainVars
  <2>6. \A x \in Forester \X Epoch : task[x] \in Task => task'[x] \in Task
    BY <2>4
  <2>7. CallsHaveTasks'
    BY <2>2, <2>6 DEF CallsHaveTasks, CallsKept, Call
  <2>8. ASSUME NEW f \in Forester, NEW e \in Epoch PROVE Moves(f, e)
    <3>1. CASE <<f, e>> # fe
      BY <2>4, <3>1 DEF Moves
    <3>2. CASE <<f, e>> = fe /\ task[<<f, e>>].at \in Idle
      BY <2>4, <3>2 DEF Moves
    <3>3. CASE <<f, e>> = fe /\ task[<<f, e>>].at \notin Idle
      BY <2>3, <2>4, <3>3, ForesterAssumption DEF Moves, Works
    <3> QED
      BY <3>1, <3>2, <3>3
  <2>9. ChainStep /\ CountsQuiet
    BY <2>1 DEF ChainStep, CountsQuiet, Ends, ForesterTypeOK
  <2> QED
    BY <2>5, <2>7, <2>8, <2>9 DEF StepKeeps, TasksMove
<1> QED
  BY <1>2, <1>3, <1>4, <1>5, <1>6, <1>7, <1>8, <1>9, <1>10, <1>11 DEF CallStep

-----------------------------------------------------------------------------
\* A task may go on as u.
MayGo(f, e, u) ==
    \/ u.at \in Idle
    \/ /\ Works(f, e)
       /\ u.epoch = task[<<f, e>>].epoch
       /\ \/ u.at \notin {"finalize", "report"}
          \/ u.at = task[<<f, e>>].at
          \/ u.at = "finalize" /\ slot >= Phases(task[<<f, e>>].epoch).active.start
          \/ u.at = "report" /\ slot >= Phases(task[<<f, e>>].epoch).report_work.start

\* A step of one task, that perhaps starts a call.
LEMMA TaskGoes ==
    ASSUME ForesterTypeOK, CallsHaveTasks, NEW f \in Forester, NEW e \in Epoch, NEW u \in Task,
           task' = [task EXCEPT ![<<f, e>>] = u], MayGo(f, e, u),
           ChainStep, CallsKept, \A c \in calls' : c.at = "confirmed" => c \in calls,
           updates' \in [Forester \X Epoch -> SUBSET [queue : Queue, slot : Nat]],
           UNCHANGED <<pending, late, processed>>
    PROVE  StepKeeps /\ CountsQuiet
<1> DEFINE fe == <<f, e>>
<1>1. fe \in Forester \X Epoch /\ task \in [Forester \X Epoch -> Task \cup {None}]
  BY DEF ForesterTypeOK
<1>2. /\ task' \in [Forester \X Epoch -> Task \cup {None}] /\ task'[fe] = u
      /\ \A x \in Forester \X Epoch : x # fe => task'[x] = task[x]
  BY <1>1
<1>3. ForesterTypeOK'
  BY <1>2 DEF ForesterTypeOK, CallsKept
<1>4. \A x \in Forester \X Epoch : task[x] \in Task => task'[x] \in Task
  BY <1>2
<1>5. CallsHaveTasks'
  BY <1>4 DEF CallsHaveTasks, CallsKept, Call
<1>6. TasksMove
  <2>1. ASSUME NEW g \in Forester, NEW d \in Epoch PROVE Moves(g, d)
    <3>1. CASE <<g, d>> = fe
      <4>1. g = f /\ d = e
        BY <3>1
      <4>2. Moves(f, e)
        BY <1>2 DEF Moves, MayGo
      <4> QED
        BY <4>1, <4>2
    <3>2. CASE <<g, d>> # fe
      BY <1>2, <3>2 DEF Moves
    <3> QED
      BY <3>1, <3>2
  <2> QED
    BY <2>1 DEF TasksMove
<1>7. CountsQuiet
  BY DEF CountsQuiet, ForesterTypeOK
<1> QED
  BY <1>3, <1>5, <1>6, <1>7 DEF StepKeeps

\* Most steps only take the task to another stage.
LEMMA TaskGoto ==
    ASSUME ForesterTypeOK, CallsHaveTasks, NEW f \in Forester, NEW e \in Epoch,
           task[<<f, e>>] # None, NEW at \in Stage, Goto(f, e, at),
           at \in Idle \/ /\ task[<<f, e>>].at \notin Idle
                          /\ at = "finalize" =>
                                slot >= Phases(task[<<f, e>>].epoch).active.start
                          /\ at = "report" =>
                                slot >= Phases(task[<<f, e>>].epoch).report_work.start,
           ChainStep,
           \/ updates' = updates
           \/ updates' = [updates EXCEPT ![<<f, e>>] = {}]
           \/ \E S \in SUBSET updates[<<f, e>>] : updates' = [updates EXCEPT ![<<f, e>>] = S],
           UNCHANGED <<pending, calls, late, processed>>
    PROVE  StepKeeps /\ CountsQuiet
<1> DEFINE u == [task[<<f, e>>] EXCEPT !.at = at]
<1>1. task[<<f, e>>] \in Task
  BY DEF ForesterTypeOK
<1>2. u \in Task /\ u.at = at /\ u.epoch = task[<<f, e>>].epoch
  BY <1>1 DEF Task
<1>3. task' = [task EXCEPT ![<<f, e>>] = u]
  BY DEF Goto
<1> HIDE DEF u
<1>4. MayGo(f, e, u)
  BY <1>2 DEF MayGo, Works
<1>5. CallsKept /\ \A c \in calls' : c.at = "confirmed" => c \in calls
  BY DEF CallsKept, ForesterTypeOK, CallsHaveTasks
<1>6. updates' \in [Forester \X Epoch -> SUBSET [queue : Queue, slot : Nat]]
  <2>1. /\ updates \in [Forester \X Epoch -> SUBSET [queue : Queue, slot : Nat]]
        /\ <<f, e>> \in Forester \X Epoch
    BY DEF ForesterTypeOK
  <2>2. \A S \in SUBSET updates[<<f, e>>] : S \in SUBSET [queue : Queue, slot : Nat]
    BY <2>1
  <2> QED
    BY <2>1, <2>2
<1> QED
  BY <1>2, <1>3, <1>4, <1>5, <1>6, TaskGoes

\* A call that a task starts.
LEMMA NewCallKept ==
    ASSUME ForesterTypeOK, CallsHaveTasks, NEW f \in Forester, NEW e \in Epoch,
           task[<<f, e>>] # None, NEW n \in Nat, NEW q \in Queue,
           calls' = calls \cup {NewCall(f, e, n, q)}
    PROVE  CallsKept /\ \A c \in calls' : c.at = "confirmed" => c \in calls
<1> DEFINE d == NewCall(f, e, n, q)
<1>1. task[<<f, e>>] \in Task /\ task[<<f, e>>].epoch \in Epoch
  BY DEF ForesterTypeOK, Task
<1>2. d \in Call /\ d.forester = f /\ d.task = e /\ d.at = "fetch"
  BY <1>1 DEF NewCall, Call, CallStage, RegisteredEpoch
<1> HIDE DEF d
<1>3. calls \subseteq Call /\ IsFiniteSet(calls \cup {d})
  BY FS_AddElement DEF ForesterTypeOK
<1>4. calls' = calls \cup {d}
  BY DEF d
<1> QED
  BY <1>1, <1>2, <1>3, <1>4 DEF CallsKept, CallsHaveTasks

\* Every step of a task but a registration that lands.
LEMMA TaskStepKeeps ==
    ASSUME TypeOK, ForesterTypeOK, CallsHaveTasks, NEW f \in Forester, NEW e \in Epoch,
           TaskStep(f, e), ~RegisterLands(f, e)
    PROVE  StepKeeps /\ CountsQuiet
<1> DEFINE fe == <<f, e>>
<1>1. /\ task[fe] # None => task[fe] \in Task /\ task[fe].epoch \in Epoch
      /\ updates \in [Forester \X Epoch -> SUBSET [queue : Queue, slot : Nat]]
      /\ fe \in Forester \X Epoch
  BY DEF ForesterTypeOK, Task
<1>2. UNCHANGED vars => ChainStep
  BY DEF ChainStep
<1>3. CASE register_for_epoch(f, e)
  <2>1. PICK at \in {"build", "failed"} : Goto(f, e, at)
    BY <1>3 DEF register_for_epoch
  <2>2. at \in Stage /\ at \in Idle
    BY DEF Stage, Idle
  <2> QED
    BY <1>2, <1>3, <2>1, <2>2, TaskGoto DEF register_for_epoch, At, chainVars
<1>4. CASE register(f, e)
  <2>1. task[fe] \in Task
    BY <1>1, <1>4 DEF register, At
  <2>2. PICK u \in Task : task' = [task EXCEPT ![fe] = u] /\ u.at \in Idle
    <3> DEFINE r == EpochToRegister(config, slot)
    <3>1. CASE r = None
      <4> DEFINE u == [task[fe] EXCEPT !.at = "failed"]
      <4>1. u \in Task /\ u.at \in Idle
        BY <2>1 DEF Task, Stage, Idle
      <4>2. task' = [task EXCEPT ![fe] = u]
        BY <1>4, <3>1 DEF register, Goto
      <4> QED
        BY <4>1, <4>2
    <3>2. CASE r # None
      <4> DEFINE u == [task[fe] EXCEPT !.at = "registering", !.epoch = r]
      <4>1. r \in Epoch /\ task' = [task EXCEPT ![fe] = u]
        BY <1>4, <3>2 DEF register
      <4> HIDE DEF r
      <4>2. u \in Task /\ u.at \in Idle
        BY <2>1, <4>1 DEF Task, Stage, Idle
      <4> QED
        BY <4>1, <4>2
    <3> QED
      BY <3>1, <3>2
  <2>3. UNCHANGED <<vars, pending, updates, calls, late, processed>>
    BY <1>4 DEF register, chainVars
  <2>4. CallsKept /\ \A c \in calls' : c.at = "confirmed" => c \in calls
    BY <2>3 DEF CallsKept, ForesterTypeOK, CallsHaveTasks
  <2> QED
    BY <1>1, <1>2, <2>2, <2>3, <2>4, TaskGoes DEF MayGo
<1>5. CASE wait_for_active_phase(f, e)
  <2>1. /\ task[fe] # None /\ task[fe].at \notin Idle /\ "finalize" \in Stage
        /\ Goto(f, e, "finalize") /\ slot >= Phases(task[fe].epoch).active.start
    BY <1>5 DEF wait_for_active_phase, At, Idle, Stage, wait_until_slot_reached, RegisteredEpoch
  <2>2. UNCHANGED <<vars, pending, updates, calls, late, processed>>
    BY <1>5 DEF wait_for_active_phase, chainVars
  <2> QED
    BY <1>2, <2>1, <2>2, TaskGoto
<1>6. CASE FinalizeLands(f, e)
  <2>1. PICK at \in {"active", "failed"} : Goto(f, e, at)
    BY <1>6 DEF FinalizeLands
  <2>2. /\ task[fe] # None /\ task[fe].at \notin Idle
        /\ at \in Stage /\ at \notin {"finalize", "report"}
    BY <1>6 DEF FinalizeLands, At, Idle, Stage
  <2>3. finalize_registration(f, task[fe].epoch) /\ task[fe].epoch \in Epoch
    BY <1>1, <1>6, <2>2 DEF FinalizeLands, RegisteredEpoch
  <2>4. ChainStep
    BY <2>3 DEF ChainStep
  <2>5. UNCHANGED <<pending, updates, calls, late, processed>>
    BY <1>6 DEF FinalizeLands, chainVars
  <2> QED
    BY <2>1, <2>2, <2>4, <2>5, TaskGoto
<1>7. CASE perform_active_work(f, e)
  <2>1. /\ task[fe] \in Task /\ task[fe].at \notin Idle /\ task[fe] # None
        /\ UNCHANGED <<vars, pending, updates, calls, late, processed>>
    BY <1>1, <1>7 DEF perform_active_work, At, Idle, chainVars
  <2>2. \/ Goto(f, e, "failed")
        \/ task' = [task EXCEPT ![fe] = [@ EXCEPT !.at = "initial", !.todo = Queue]]
        \/ Goto(f, e, "wait_report")
    BY <1>7 DEF perform_active_work, Goto
  <2>3. CASE Goto(f, e, "failed") \/ Goto(f, e, "wait_report")
    <3>1. "failed" \in Stage /\ "failed" \in Idle /\ "wait_report" \in Stage
      BY DEF Stage, Idle
    <3> QED
      BY <1>2, <2>1, <2>3, <3>1, TaskGoto
  <2>4. CASE task' = [task EXCEPT ![fe] = [@ EXCEPT !.at = "initial", !.todo = Queue]]
    <3> DEFINE u == [task[fe] EXCEPT !.at = "initial", !.todo = Queue]
    <3>1. u \in Task /\ u.at = "initial" /\ u.epoch = task[fe].epoch
      BY <2>1 DEF Task, Stage
    <3>2. task' = [task EXCEPT ![fe] = u]
      BY <2>4
    <3> HIDE DEF u
    <3>3. MayGo(f, e, u)
      BY <2>1, <3>1 DEF MayGo, Works
    <3>4. CallsKept /\ \A c \in calls' : c.at = "confirmed" => c \in calls
      BY <2>1 DEF CallsKept, ForesterTypeOK, CallsHaveTasks
    <3> QED
      BY <1>1, <1>2, <2>1, <3>1, <3>2, <3>3, <3>4, TaskGoes
  <2> QED
    BY <2>2, <2>3, <2>4
<1>8. ASSUME NEW q \in Queue, process_queues(f, e, q) PROVE StepKeeps /\ CountsQuiet
  <2> DEFINE u == [task[fe] EXCEPT !.todo = task[fe].todo \ {q}]
  <2>1. /\ task[fe] \in Task /\ task[fe].at = "initial" /\ task[fe] # None
        /\ UNCHANGED <<vars, pending, updates, late, processed>>
        /\ calls' = calls \cup {NewCall(f, e, 0, q)}
        /\ task' = [task EXCEPT ![fe] = u]
    <3>1. /\ task[fe].at = "initial" /\ task[fe] # None
          /\ UNCHANGED <<vars, pending, updates, late, processed>>
          /\ calls' = calls \cup {NewCall(f, e, 0, q)}
      BY <1>8 DEF process_queues, At, chainVars
    <3>2. task' = [task EXCEPT ![fe] = u]
      BY <1>8, Zenon DEF process_queues
    <3> QED
      BY <1>1, <3>1, <3>2
  <2>2. u \in Task /\ u.at = "initial" /\ u.epoch = task[fe].epoch
    BY <2>1 DEF Task
  <2> HIDE DEF u
  <2>3. MayGo(f, e, u)
    BY <2>1, <2>2 DEF MayGo, Works, Idle
  <2>4. CallsKept /\ \A c \in calls' : c.at = "confirmed" => c \in calls
    BY <2>1, NewCallKept
  <2> QED
    BY <1>1, <1>2, <2>1, <2>2, <2>3, <2>4, TaskGoes
<1>9. CASE setup_pubsub_client(f, e)
  <2>1. /\ task[fe] # None /\ task[fe].at \notin Idle /\ "updates" \in Stage
        /\ Goto(f, e, "updates") /\ updates' = [updates EXCEPT ![fe] = {}]
    BY <1>9 DEF setup_pubsub_client, At, Idle, Stage
  <2>2. UNCHANGED <<vars, pending, calls, late, processed>>
    BY <1>9 DEF setup_pubsub_client, chainVars
  <2> QED
    BY <1>2, <2>1, <2>2, TaskGoto
<1>10. ASSUME NEW v \in updates[fe], ReceiveUpdate(f, e, v) PROVE StepKeeps /\ CountsQuiet
  <2> DEFINE n == task[fe].spawned + 1
  <2>1. /\ task[fe] \in Task /\ task[fe].at = "updates" /\ task[fe] # None
        /\ UNCHANGED <<vars, pending, late, processed>>
        /\ updates' = [updates EXCEPT ![fe] = @ \ {v}]
    BY <1>1, <1>10 DEF ReceiveUpdate, At, chainVars
  <2>2. \/ Goto(f, e, "rollover") /\ UNCHANGED calls
        \/ /\ n <= MaxCalls /\ calls' = calls \cup {NewCall(f, e, n, v.queue)}
           /\ \E at \in {"rollover", "updates"} :
                task' = [task EXCEPT ![fe] = [@ EXCEPT !.at = at, !.spawned = n]]
    <3> DEFINE end == Phases(RegisteredEpoch(f, e)).active.end
    <3>1. CASE Goto(f, e, "rollover") /\ UNCHANGED calls
      BY <3>1
    <3>2. ASSUME NEW estimate \in EstimatedSlot,
                 task' = [task EXCEPT ![<<f, e>>] =
                        [@ EXCEPT !.at = IF estimate >= end THEN "rollover" ELSE "updates",
                                  !.spawned = n]]
          PROVE  \E at \in {"rollover", "updates"} :
                    task' = [task EXCEPT ![fe] = [@ EXCEPT !.at = at, !.spawned = n]]
      <4>1. IF estimate >= end THEN task' = [task EXCEPT ![fe] = [@ EXCEPT !.at = "rollover", !.spawned = n]]
            ELSE task' = [task EXCEPT ![fe] = [@ EXCEPT !.at = "updates", !.spawned = n]]
        BY <3>2, Zenon
      <4> QED
        BY <2>1, <4>1, Zenon
    <3>3. \/ Goto(f, e, "rollover") /\ UNCHANGED calls
          \/ /\ n <= MaxCalls /\ calls' = calls \cup {NewCall(f, e, n, v.queue)}
             /\ \E estimate \in EstimatedSlot :
                    task' = [task EXCEPT ![<<f, e>>] =
                        [@ EXCEPT !.at = IF estimate >= end THEN "rollover" ELSE "updates",
                                  !.spawned = n]]
      BY <1>10, Zenon DEF ReceiveUpdate
    <3> QED
      BY <3>1, <3>2, <3>3, Zenon
  <2>3. CASE Goto(f, e, "rollover") /\ UNCHANGED calls
    <3>1. "rollover" \in Stage /\ task[fe].at \notin Idle
      BY <2>1 DEF Stage, Idle
    <3>2. \E S \in SUBSET updates[fe] : updates' = [updates EXCEPT ![fe] = S]
      BY <2>1
    <3> QED
      BY <1>2, <2>1, <2>3, <3>1, <3>2, TaskGoto
  <2>4. CASE /\ n <= MaxCalls /\ calls' = calls \cup {NewCall(f, e, n, v.queue)}
             /\ \E at \in {"rollover", "updates"} :
                  task' = [task EXCEPT ![fe] = [@ EXCEPT !.at = at, !.spawned = n]]
    <3>1. PICK at \in {"rollover", "updates"} :
                  task' = [task EXCEPT ![fe] = [@ EXCEPT !.at = at, !.spawned = n]]
      BY <2>4
    <3> DEFINE u == [task[fe] EXCEPT !.at = at, !.spawned = n]
    <3>2. n \in 0 .. MaxCalls /\ n \in Nat
      BY <2>1, <2>4, ForesterAssumption DEF Task
    <3>3. task' = [task EXCEPT ![fe] = u]
      BY <3>1
    <3> HIDE DEF n
    <3>4. u \in Task /\ u.at = at /\ u.epoch = task[fe].epoch
      BY <2>1, <3>2 DEF Task, Stage
    <3> HIDE DEF u
    <3>5. MayGo(f, e, u)
      BY <2>1, <3>4 DEF MayGo, Works, Idle
    <3>6. v.queue \in Queue
      BY <1>1, <1>10
    <3>7. CallsKept /\ \A c \in calls' : c.at = "confirmed" => c \in calls
      BY <2>1, <2>4, <3>2, <3>6, NewCallKept
    <3>8. updates' \in [Forester \X Epoch -> SUBSET [queue : Queue, slot : Nat]]
      BY <1>1, <2>1
    <3> QED
      BY <1>2, <2>1, <3>3, <3>4, <3>5, <3>7, <3>8, TaskGoes
  <2> QED
    BY <2>2, <2>3, <2>4
<1>11. CASE UpdatesClosed(f, e)
  <2>1. /\ task[fe] # None /\ task[fe].at \notin Idle /\ "rollover" \in Stage
        /\ Goto(f, e, "rollover")
    BY <1>11 DEF UpdatesClosed, At, Idle, Stage
  <2>2. UNCHANGED <<vars, pending, updates, calls, late, processed>>
    BY <1>11 DEF UpdatesClosed, chainVars
  <2> QED
    BY <1>2, <2>1, <2>2, TaskGoto
<1>12. ASSUME NEW q \in Queue, perform_rollover(f, e, q) PROVE StepKeeps /\ CountsQuiet
  <2>1. forest(f, 0, q) /\ UNCHANGED <<pending, task, updates, calls, late, processed>>
    BY <1>12 DEF perform_rollover, localVars
  <2>2. ChainStep
    BY <2>1, ForesterAssumption DEF ChainStep
  <2> QED
    BY <2>1, <2>2 DEF StepKeeps, CountsQuiet, ForesterTypeOK, CallsHaveTasks, TasksMove, Moves
<1>13. CASE RolloverDone(f, e)
  <2>1. /\ task[fe] # None /\ task[fe].at \notin Idle /\ "wait_report" \in Stage
        /\ Goto(f, e, "wait_report")
    BY <1>13 DEF RolloverDone, At, Idle, Stage
  <2>2. UNCHANGED <<vars, pending, updates, calls, late, processed>>
    BY <1>13 DEF RolloverDone, chainVars
  <2> QED
    BY <1>2, <2>1, <2>2, TaskGoto
<1>14. CASE wait_for_report_work_phase(f, e)
  <2>1. /\ task[fe] # None /\ task[fe].at \notin Idle /\ "report" \in Stage
        /\ Goto(f, e, "report") /\ slot >= Phases(task[fe].epoch).report_work.start
    BY <1>14
       DEF wait_for_report_work_phase, At, Idle, Stage, wait_until_slot_reached, RegisteredEpoch
  <2>2. UNCHANGED <<vars, pending, updates, calls, late, processed>>
    BY <1>14 DEF wait_for_report_work_phase, chainVars
  <2> QED
    BY <1>2, <2>1, <2>2, TaskGoto
<1>15. CASE ReportLands(f, e)
  <2>1. PICK at \in {"done", "failed"} : Goto(f, e, at)
    BY <1>15 DEF ReportLands
  <2>2. /\ task[fe] # None /\ task[fe].at \notin Idle
        /\ at \in Stage /\ at \notin {"finalize", "report"}
    BY <1>15 DEF ReportLands, At, Idle, Stage
  <2>3. report_work(f, task[fe].epoch) /\ task[fe].epoch \in Epoch
    BY <1>1, <1>15, <2>2 DEF ReportLands, RegisteredEpoch
  <2>4. ChainStep
    BY <2>3 DEF ChainStep
  <2>5. UNCHANGED <<pending, updates, calls, late, processed>>
    BY <1>15 DEF ReportLands, chainVars
  <2> QED
    BY <2>1, <2>2, <2>4, <2>5, TaskGoto
<1>16. CASE TaskFails(f, e)
  <2>1. /\ task[fe] # None /\ "failed" \in Stage /\ "failed" \in Idle
        /\ Goto(f, e, "failed") /\ updates' = [updates EXCEPT ![fe] = {}]
    BY <1>16 DEF TaskFails, Idle, Stage
  <2>2. UNCHANGED <<vars, pending, calls, late, processed>>
    BY <1>16 DEF TaskFails, chainVars
  <2> QED
    BY <1>2, <2>1, <2>2, TaskGoto
<1> QED
  BY <1>3, <1>4, <1>5, <1>6, <1>7, <1>8, <1>9, <1>10, <1>11, <1>12, <1>13, <1>14, <1>15, <1>16
     DEF TaskStep

\* A registration that lands keeps the types, and nothing is counted.
LEMMA RegisterLandsQuiet ==
    ASSUME ForesterTypeOK, CallsHaveTasks, NEW f \in Forester, NEW e \in Epoch,
           RegisterLands(f, e)
    PROVE  ForesterTypeOK' /\ CallsHaveTasks' /\ ChainStep /\ CountsQuiet
<1> DEFINE fe == <<f, e>>
<1>1. /\ fe \in Forester \X Epoch /\ task \in [Forester \X Epoch -> Task \cup {None}]
      /\ task[fe] \in Task /\ task[fe].epoch \in Epoch
      /\ UNCHANGED <<pending, updates, calls, late, processed>>
  BY DEF ForesterTypeOK, RegisterLands, At, Task, chainVars
<1>2. PICK at \in {"wait_active", "failed"} : task' = [task EXCEPT ![fe] = [@ EXCEPT !.at = at]]
  BY DEF RegisterLands, Goto
<1> DEFINE u == [task[fe] EXCEPT !.at = at]
<1>3. u \in Task /\ task' = [task EXCEPT ![fe] = u]
  BY <1>1, <1>2 DEF Task, Stage
<1> HIDE DEF u
<1>4. /\ task' \in [Forester \X Epoch -> Task \cup {None}]
      /\ \A x \in Forester \X Epoch : task[x] \in Task => task'[x] \in Task
  BY <1>1, <1>3
<1>5. ForesterTypeOK' /\ CallsHaveTasks'
  BY <1>1, <1>4 DEF ForesterTypeOK, CallsHaveTasks, Call
<1>6. register_forester_epoch(f, task[fe].epoch)
  BY DEF RegisterLands, RegisteredEpoch
<1>7. ChainStep
  BY <1>1, <1>6 DEF ChainStep
<1> QED
  BY <1>1, <1>5, <1>7 DEF CountsQuiet, ForesterTypeOK

\* A new task starts before its registration.
LEMMA MonitorKeeps ==
    ASSUME ForesterTypeOK, CallsHaveTasks, NEW f \in Forester, monitor_epochs(f)
    PROVE  StepKeeps /\ CountsQuiet
<1>1. PICK e \in Epoch : task' = [task EXCEPT ![<<f, e>>] =
                    [at |-> "register", epoch |-> e, todo |-> {}, spawned |-> 0]]
  BY Zenon DEF monitor_epochs
<1>2. UNCHANGED <<vars, pending, updates, calls, late, processed>>
  BY Zenon DEF monitor_epochs, chainVars
<1> DEFINE u == [at |-> "register", epoch |-> e, todo |-> {}, spawned |-> 0]
<1>3. u \in Task /\ u.at \in Idle
  BY ForesterAssumption DEF Task, Stage, Idle
<1>4. task' = [task EXCEPT ![<<f, e>>] = u]
  BY <1>1
<1> HIDE DEF u
<1>5. MayGo(f, e, u)
  BY <1>3 DEF MayGo
<1>6. CallsKept /\ \A c \in calls' : c.at = "confirmed" => c \in calls
  BY <1>2 DEF CallsKept, ForesterTypeOK, CallsHaveTasks
<1>7. ChainStep /\ updates' \in [Forester \X Epoch -> SUBSET [queue : Queue, slot : Nat]]
  BY <1>2 DEF ChainStep, ForesterTypeOK
<1> QED
  BY <1>2, <1>3, <1>4, <1>5, <1>6, <1>7, TaskGoes

\* A restart forgets the tasks, calls and counts of a forester.
LEMMA RestartKeeps ==
    ASSUME ForesterTypeOK, CallsHaveTasks, NEW f \in Forester, Restart(f)
    PROVE  StepKeeps /\ CountsQuiet
<1> DEFINE sent == {d \in calls : d.forester = f /\ d.at = "sent"}
           given_up == {[forester |-> f, epoch |-> c.epoch, item |-> c.item] : c \in sent}
           LateType == [forester : Forester, epoch : Epoch, item : Item \cup {None}]
<1>1. /\ DOMAIN task = Forester \X Epoch
      /\ task \in [Forester \X Epoch -> Task \cup {None}]
      /\ updates \in [Forester \X Epoch -> SUBSET [queue : Queue, slot : Nat]]
      /\ processed \in [Forester \X Epoch -> Nat]
      /\ calls \subseteq Call /\ IsFiniteSet(calls) /\ late \subseteq LateType
      /\ pending \subseteq Item
  BY DEF ForesterTypeOK
<1>2. /\ task' = [fe \in Forester \X Epoch |-> IF fe[1] = f THEN None ELSE task[fe]]
      /\ updates' = [fe \in Forester \X Epoch |-> IF fe[1] = f THEN {} ELSE updates[fe]]
      /\ processed' = [fe \in Forester \X Epoch |-> IF fe[1] = f THEN 0 ELSE processed[fe]]
  BY <1>1 DEF Restart
<1>3. /\ calls' = {c \in calls : c.forester # f} /\ late' = late \cup given_up
      /\ UNCHANGED <<vars, pending>>
  BY DEF Restart, chainVars
<1>4. ASSUME NEW c \in sent
      PROVE  [forester |-> f, epoch |-> c.epoch, item |-> c.item] \in LateType
  BY <1>1 DEF Call
<1>5. late' \subseteq LateType
  BY <1>1, <1>3, <1>4
<1>6. /\ task' \in [Forester \X Epoch -> Task \cup {None}]
      /\ updates' \in [Forester \X Epoch -> SUBSET [queue : Queue, slot : Nat]]
      /\ processed' \in [Forester \X Epoch -> Nat]
  BY <1>1, <1>2
<1>7. calls' \subseteq Call /\ IsFiniteSet(calls')
  BY <1>1, <1>3, FS_Subset
<1>8. ForesterTypeOK'
  BY <1>1, <1>3, <1>5, <1>6, <1>7 DEF ForesterTypeOK
<1>9. CallsHaveTasks'
  <2>1. SUFFICES ASSUME NEW c \in calls' PROVE task'[<<c.forester, c.task>>] \in Task
    BY DEF CallsHaveTasks
  <2>2. c \in calls /\ c.forester # f /\ <<c.forester, c.task>> \in Forester \X Epoch
    BY <1>1, <1>3 DEF Call
  <2>3. task'[<<c.forester, c.task>>] = task[<<c.forester, c.task>>]
    BY <1>2, <2>2
  <2> QED
    BY <2>2, <2>3 DEF CallsHaveTasks
<1>10. ASSUME NEW g \in Forester, NEW e \in Epoch PROVE Moves(g, e)
  <2>1. task'[<<g, e>>] = None \/ task'[<<g, e>>] = task[<<g, e>>]
    BY <1>2
  <2> QED
    BY <2>1 DEF Moves
<1>11. \A fe \in Forester \X Epoch : processed'[fe] <= processed[fe]
  BY <1>1, <1>2
<1>12. CountsQuiet
  BY <1>3, <1>11 DEF CountsQuiet
<1> QED
  BY <1>3, <1>8, <1>9, <1>10, <1>12 DEF StepKeeps, TasksMove, ChainStep

\* The clock, the users, and the transactions nobody waits for.
LEMMA OtherStepKeeps ==
    ASSUME TypeOK, ForesterTypeOK, CallsHaveTasks,
           \/ SlotPasses
           \/ \E i \in Item : Insert(i)
           \/ \E t \in late : LateLands(t) \/ LateExpires(t)
    PROVE  StepKeeps /\ CountsQuiet
<1>1. /\ pending' \subseteq Item /\ late' \subseteq late /\ ChainStep
      /\ updates' \in [Forester \X Epoch -> SUBSET [queue : Queue, slot : Nat]]
      /\ UNCHANGED <<task, calls, processed>>
  <2>1. CASE SlotPasses
    BY <2>1 DEF SlotPasses, chainVars, localVars, ForesterTypeOK, ChainStep
  <2>2. ASSUME NEW i \in Item, Insert(i)
        PROVE  /\ pending' \subseteq Item /\ late' \subseteq late /\ ChainStep
               /\ updates' \in [Forester \X Epoch -> SUBSET [queue : Queue, slot : Nat]]
               /\ UNCHANGED <<task, calls, processed>>
    <3>1. QueueOf[i] \in Queue
      BY ForesterAssumption
    <3> QED
      BY <2>2, <3>1, NotifyType DEF Insert, ForesterTypeOK, ChainStep
  <2>3. ASSUME NEW t \in late, LateLands(t)
        PROVE  /\ pending' \subseteq Item /\ late' \subseteq late /\ ChainStep
               /\ updates' \in [Forester \X Epoch -> SUBSET [queue : Queue, slot : Nat]]
               /\ UNCHANGED <<task, calls, processed>>
    <3>1. t.forester \in Forester /\ t.epoch \in Epoch
      BY DEF ForesterTypeOK
    <3> QED
      BY <2>3, <3>1, ProcessItemKeeps DEF LateLands
  <2>4. ASSUME NEW t \in late, LateExpires(t)
        PROVE  /\ pending' \subseteq Item /\ late' \subseteq late /\ ChainStep
               /\ updates' \in [Forester \X Epoch -> SUBSET [queue : Queue, slot : Nat]]
               /\ UNCHANGED <<task, calls, processed>>
    BY <2>4 DEF LateExpires, chainVars, ForesterTypeOK, ChainStep
  <2> QED
    BY <2>1, <2>2, <2>3, <2>4
<1> QED
  BY <1>1 DEF StepKeeps, CountsQuiet, ForesterTypeOK, CallsHaveTasks, TasksMove, Moves

-----------------------------------------------------------------------------
\* The invariant holds before anything is registered.
LEMMA ForesterInitInv == ForesterInit => FInv
<1> SUFFICES ASSUME ForesterInit PROVE FInv
  OBVIOUS
<1>1. TypeOK
  <2>1. slot \in 0 .. MaxSlot /\ config \in Config
    BY RegistryAssumption DEF ForesterInit
  <2>2. active_weight \in [Forester -> Nat]
    BY RegistryAssumption DEF ForesterInit
  <2>3. /\ epochs \in [Epoch -> EpochPda \cup {None}]
        /\ forester_epochs \in [Forester \X Epoch -> ForesterEpochPda \cup {None}]
    BY DEF ForesterInit
  <2> QED
    BY <2>1, <2>2, <2>3 DEF TypeOK
<1>2. IInv
  BY <1>1, RegistryAssumption
     DEF ForesterInit, IInv, ConfigChecked, EpochsWeighted, CopiesAgree, RangesDisjoint,
         RangesCover, TotalsFinal, ReportsLate, Registered, Pda
<1>3. ForesterTypeOK /\ CallsHaveTasks
  BY FS_EmptySet DEF ForesterInit, ForesterTypeOK, CallsHaveTasks
<1>4. WorkersRegistered /\ OneTaskPerEpoch /\ NeverEarly
  BY DEF ForesterInit, WorkersRegistered, OneTaskPerEpoch, NeverEarly, Works, At
<1>5. ConfirmedCounted
  BY DEF ForesterInit, ConfirmedCounted, Confirmed, Registered, Pda
<1> QED
  BY <1>2, <1>3, <1>4, <1>5 DEF FInv

\* Every step preserves it.
LEMMA ForesterStepInv ==
    ASSUME FInv, [ForesterNext]_foresterVars
    PROVE  FInv'
<1>1. /\ IInv /\ TypeOK /\ ForesterTypeOK /\ CallsHaveTasks /\ WorkersRegistered
      /\ OneTaskPerEpoch /\ NeverEarly /\ ConfirmedCounted
  BY DEF FInv, IInv
<1>2. ASSUME StepKeeps, CountsQuiet \/ \E c \in calls : TransactionLands(c)
                                                        \/ increment_processed_items_count(c)
      PROVE  FInv'
  <2>1. ForesterTypeOK' /\ CallsHaveTasks' /\ ChainStep /\ TasksMove
    BY <1>2 DEF StepKeeps
  <2>2. IInv' /\ ChainKept
    BY <1>1, <2>1, ChainEffect
  <2>3. WorkersRegistered' /\ OneTaskPerEpoch' /\ NeverEarly'
    BY <1>1, <2>1, <2>2, MovesKeep
  <2>4. ConfirmedCounted'
    BY <1>1, <1>2, <2>1, <2>2, QuietCounts, LandedCounts, IncrementCounts
  <2> QED
    BY <2>1, <2>2, <2>3, <2>4 DEF FInv
<1>3. ASSUME NEW f \in Forester, NEW e \in Epoch, RegisterLands(f, e) PROVE FInv'
  <2>1. ForesterTypeOK' /\ CallsHaveTasks' /\ ChainStep /\ CountsQuiet
    BY <1>1, <1>3, RegisterLandsQuiet
  <2>2. IInv' /\ ChainKept
    BY <1>1, <2>1, ChainEffect
  <2>3. WorkersRegistered' /\ OneTaskPerEpoch' /\ NeverEarly'
    BY <1>1, <1>3, <2>2, RegisterLandsKeeps
  <2>4. ConfirmedCounted'
    BY <1>1, <2>1, <2>2, QuietCounts
  <2> QED
    BY <2>1, <2>2, <2>3, <2>4 DEF FInv
<1>4. CASE UNCHANGED foresterVars
  <2>1. UNCHANGED <<vars, pending, task, updates, calls, late, processed>>
    BY <1>4 DEF foresterVars, chainVars, localVars
  <2>2. StepKeeps /\ CountsQuiet
    BY <1>1, <2>1
       DEF StepKeeps, CountsQuiet, ForesterTypeOK, CallsHaveTasks, TasksMove, Moves, ChainStep
  <2> QED
    BY <1>2, <2>2
<1>5. ASSUME NEW f \in Forester, NEW e \in Epoch, TaskStep(f, e), ~RegisterLands(f, e) PROVE FInv'
  BY <1>1, <1>2, <1>5, TaskStepKeeps
<1>6. ASSUME NEW c \in calls, CallStep(c) PROVE FInv'
  BY <1>1, <1>2, <1>6, CallStepKeeps
<1>7. ASSUME NEW f \in Forester, monitor_epochs(f) \/ Restart(f) PROVE FInv'
  BY <1>1, <1>2, <1>7, MonitorKeeps, RestartKeeps
<1>8. CASE \/ SlotPasses
           \/ \E i \in Item : Insert(i)
           \/ \E t \in late : LateLands(t) \/ LateExpires(t)
  BY <1>1, <1>2, <1>8, OtherStepKeeps
<1> QED
  BY <1>3, <1>4, <1>5, <1>6, <1>7, <1>8 DEF ForesterNext

\* The invariant of the service and the registry together.
THEOREM ForesterInvariant == ForesterSpec => []FInv
  BY ForesterInitInv, ForesterStepInv, PTL DEF ForesterSpec

\* wait_for_active_phase and wait_for_report_work_phase: the service finalizes
\* and reports no earlier than the registry accepts it.
THEOREM ForesterNeverEarly == ForesterSpec => []NeverEarly
<1>1. FInv => NeverEarly
  BY DEF FInv
<1> QED
  BY <1>1, ForesterInvariant, PTL

\* process_epoch: a forester has at most one task that works for an epoch.
THEOREM ForesterOneTaskPerEpoch == ForesterSpec => []OneTaskPerEpoch
<1>1. FInv => OneTaskPerEpoch
  BY DEF FInv
<1> QED
  BY <1>1, ForesterInvariant, PTL

\* increment_processed_items_count: the count a forester reports never exceeds
\* the work_counter of its registration.
THEOREM ForesterCountedWork == ForesterSpec => []CountedWork
<1>1. FInv => CountedWork
  <2>1. SUFFICES ASSUME FInv, NEW f \in Forester, NEW e \in Epoch, processed[<<f, e>>] > 0
                 PROVE  Registered(f, e) /\ processed[<<f, e>>] <= Pda(f, e).work_counter
    BY DEF CountedWork
  <2>2. ForesterTypeOK /\ processed[<<f, e>>] \in Nat
    BY <2>1 DEF FInv, ForesterTypeOK
  <2>3. Cardinality(Confirmed(f, e)) \in Nat
    BY <2>2, ConfirmedFinite
  <2>4. IF Registered(f, e)
        THEN processed[<<f, e>>] + Cardinality(Confirmed(f, e)) <= Pda(f, e).work_counter
        ELSE processed[<<f, e>>] = 0 /\ Confirmed(f, e) = {}
    BY <2>1 DEF FInv, ConfirmedCounted
  <2>5. Registered(f, e)
    BY <2>1, <2>2, <2>4
  <2>6. Pda(f, e).work_counter \in Nat
    BY <2>1, <2>5 DEF FInv, IInv, TypeOK, Registered, Pda, ForesterEpochPda
  <2> QED
    BY <2>2, <2>3, <2>4, <2>5, <2>6
<1> QED
  BY <1>1, ForesterInvariant, PTL
=============================================================================
