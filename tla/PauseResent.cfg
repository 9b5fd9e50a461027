\* A PAUSE confirmed by the vehicle whose report is lost.
SPECIFICATION ExecSpec
CONSTANTS
  g1 = g1
  NoMission = NoMission
  NoVehicle = NoVehicle
  NoGateway = NoGateway
  NoCommand = NoCommand
  Missions = {m1}
  Vehicles = {v1}
  Drone = v1
  Gateways = {g1}
  GatewayOf <- MCGatewayOf
  Self = g1
  Authorizations = {a1}
  Commands = {c1, c2}
  HealthPosts <- MCHealthPosts
  KeptStatuses <- MCKept
  RequestTypes = {"START", "PAUSE"}
  Conditions = {"good"}
  AbortSupported = FALSE
PROPERTIES
  ConfirmedNotResent
