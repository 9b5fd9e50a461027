--------------------------- MODULE MCGatewayExecutor ---------------------------
(***************************************************************************)
(* Instances of GatewayExecutor for TLC.                                   *)
(***************************************************************************)
EXTENDS GatewayExecutor, TLC

CONSTANT g1

MCGatewayOf == [v \in Vehicles |-> g1]

MCHealthPosts == {PostOf(l, n, a, s) : l, n, a, s \in BOOLEAN}

(* Every report whose event_id the executor journals.                      *)
MCKept == {"UPLOADING", "UPLOADED", "VERIFIED", "EXECUTING"} \cup ProgressStatus

Symmetry == Permutations(Commands)
==============================================================================
