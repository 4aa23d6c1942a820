---------------------------- MODULE MCStateTree ----------------------------
(* Five leaves, a history of two roots and three queue cells: cells are    *)
(* reused, and every account has stale roots in the history when its cell  *)
(* is marked.  No symmetry, because liveness is checked.                   *)
EXTENDS StateTree
=============================================================================
