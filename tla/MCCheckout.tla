------------------------------- MODULE MCCheckout -------------------------------
(***************************************************************************)
(* An instance of Checkout for TLC.  Its liveness property allows no       *)
(* symmetry; New already takes one of the identities for all.              *)
(***************************************************************************)
EXTENDS Checkout
==============================================================================
