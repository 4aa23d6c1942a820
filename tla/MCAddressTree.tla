--------------------------- MODULE MCAddressTree ---------------------------
(* Five addresses, three roots and three queue cells: cells are reused,    *)
(* and marked ones cover roots that still prove their address absent.  No  *)
(* symmetry: addresses are ordered, and liveness is checked.               *)
EXTENDS AddressTree
=============================================================================
