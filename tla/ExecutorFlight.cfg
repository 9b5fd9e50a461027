\* One mission and three commands after takeoff (START, PAUSE, CONTINUE and
\* RTL), on the real adapter, which never aborts, and a link that may be lost.
SPECIFICATION ExecSpec
CONSTANTS
  g1 = g1
  NoMission = NoMission
  NoVehicle = NoVehicle
  NoGateway = NoGateway
  NoCommand = NoCommand
  Missions = {m1}
  Vehicles = {v1}
  Drone = v1
  Gateways = {g1}
  GatewayOf <- MCGatewayOf
  Self = g1
  Authorizations = {a1}
  Commands = {c1, c2, c3}
  HealthPosts <- MCHealthPosts
  KeptStatuses <- MCKept
  RequestTypes = {"START", "PAUSE", "CONTINUE", "RTL"}
  Conditions = {"good", "lost"}
  AbortSupported = FALSE
SYMMETRY Symmetry
INVARIANTS
  StatusIsEvidence
  FlightIsCommanded
  NoForgottenFlight
