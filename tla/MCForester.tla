----------------------------- MODULE MCForester -----------------------------
(* Registration in two slots, active phases of two slots: the phases of two *)
(* epochs overlap the way they do with the default config.                  *)
EXTENDS Forester
CONSTANT q1
MCConfig ==
    {[genesis_slot |-> 0, min_weight |-> 1, slot_length |-> 1,
      registration_phase_length |-> 2, active_phase_length |-> 2,
      report_work_phase_length |-> 1, finalize_counter_limit |-> 1]}
MCHash(q, e, s) == e + s
MCQueueOf == [i \in Item |-> q1]
=============================================================================
