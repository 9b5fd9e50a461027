-------------------------- MODULE MCThreadedHandlers --------------------------
(***************************************************************************)
(* Instances of ThreadedHandlers for TLC.                                  *)
(***************************************************************************)
EXTENDS ThreadedHandlers

CONSTANT g1

MCGatewayOf == [v \in Vehicles |-> g1]

MCHealthPosts ==
  {[source |-> "SITL", linked |-> TRUE, nominal |-> TRUE, armed |-> FALSE,
    stabilize |-> TRUE, startGates |-> TRUE, armGate |-> TRUE]}
==============================================================================
