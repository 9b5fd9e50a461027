---------------------------- MODULE MCProgressTracker ----------------------------
(***************************************************************************)
(* Instances of ProgressTracker for TLC.                                   *)
(***************************************************************************)
EXTENDS ProgressTracker
==============================================================================
