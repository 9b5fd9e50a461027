\* One order and its mission, an authorization and its successor, two commands
\* of any kind, a vehicle in any condition the rules tell apart, a deployment
\* for its gateway or another.
SPECIFICATION Spec
CONSTANTS
  g1 = g1
  NoMission = NoMission
  NoVehicle = NoVehicle
  NoGateway = NoGateway
  Missions = {m1}
  Vehicles = {v1}
  Gateways = {g1, g2}
  GatewayOf <- MCOneVehicle
  Authorizations = {a1, a2}
  Commands = {c1, c2}
  HealthPosts <- MCHealthPosts
  KeptStatuses = {"UPLOADING"}
  RequestTypes <- MCRequests
SYMMETRY RowSymmetry
INVARIANTS
  TypeOK
  OnePermissionPerFlight
  OrderFollowsMission
  OneOpenCommand
  CommandsOfTheHolder
PROPERTIES
  NoNewStranded
  EndedRowsStay
  ImplementsLifecycle
