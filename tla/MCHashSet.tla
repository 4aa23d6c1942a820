----------------------------- MODULE MCHashSet -----------------------------
(* A table of four buckets and three probes, values whose probe sequences  *)
(* overlap, and a threshold small enough for cells to expire and be reused. *)
EXTENDS HashSet
MCValue == {0, 1, 4, 5}
=============================================================================
