---------------------------- MODULE MCRegistry ----------------------------
(* Two active phase lengths and two minimal weights, two epochs, and a     *)
(* hash that moves every forester's index with the queue, the epoch and    *)
(* the light slot.                                                         *)
EXTENDS Registry, TLC

MCConfig ==
    {[genesis_slot |-> 0, min_weight |-> w, slot_length |-> 1,
      registration_phase_length |-> 1, active_phase_length |-> a,
      report_work_phase_length |-> 1, finalize_counter_limit |-> 1]
        : w \in {0, 1}, a \in {2, 3}}

MCHash(q, e, s) == e + s

\* The foresters are interchangeable.
MCSymmetry == Permutations(Forester)
=============================================================================
