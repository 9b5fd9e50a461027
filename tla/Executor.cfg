\* One mission and two commands (ARM, START or ABORT) on an adapter that can
\* abort, under the fairness of the executor's loop.
SPECIFICATION FairExecSpec
CONSTANTS
  g1 = g1
  NoMission = NoMission
  NoVehicle = NoVehicle
  NoGateway = NoGateway
  NoCommand = NoCommand
  Missions = {m1}
  Vehicles = {v1}
  Drone = v1
  Gateways = {g1}
  GatewayOf <- MCGatewayOf
  Self = g1
  Authorizations = {a1}
  Commands = {c1, c2}
  HealthPosts <- MCHealthPosts
  KeptStatuses <- MCKept
  RequestTypes = {"ARM", "START", "ABORT"}
  Conditions = {"good"}
  AbortSupported = TRUE
INVARIANTS
  ExecTypeOK
  TransmissionIsCurrent
  TransmittedOnce
PROPERTIES
  CommandsAnswered
