----------------------------- MODULE MCIdempotency -----------------------------
(***************************************************************************)
(* An instance of Idempotency for TLC.                                     *)
(***************************************************************************)
EXTENDS Idempotency, TLC

CallSymmetry == Permutations(Requests) \cup Permutations(Payloads) \cup
                Permutations(Bodies) \cup Permutations(Slots)
==============================================================================
