----------------------------- MODULE MCLiveOrders -----------------------------
(***************************************************************************)
(* An instance of LiveOrders for TLC.                                      *)
(***************************************************************************)
EXTENDS LiveOrders, TLC

Symmetry == Permutations(Tasks)
==============================================================================
