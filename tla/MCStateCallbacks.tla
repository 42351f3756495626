------------------------- MODULE MCStateCallbacks -------------------------
(* Instances of StateCallbacks for TLC. *)
EXTENDS StateCallbacks, TLC
=============================================================================
