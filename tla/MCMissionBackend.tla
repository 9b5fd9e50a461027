--------------------------- MODULE MCMissionBackend ---------------------------
(***************************************************************************)
(* Instances of MissionBackend for TLC.                                    *)
(***************************************************************************)
EXTENDS MissionBackend, TLC

CONSTANT g1

MCOneVehicle == [v \in Vehicles |-> g1]

Ready == [source |-> "SITL", linked |-> TRUE, nominal |-> TRUE,
          armed |-> FALSE, stabilize |-> TRUE, startGates |-> TRUE,
          armGate |-> TRUE]

Post(f, x) == [Ready EXCEPT ![f] = x]

(* A vehicle ready to arm, armed, or failing a check.                       *)
MCHealthPosts == {Ready, Post("armed", TRUE), Post("nominal", FALSE)}

MCRequests == CommandType

RowSymmetry == Permutations(Commands) \cup Permutations(Authorizations)
==============================================================================
