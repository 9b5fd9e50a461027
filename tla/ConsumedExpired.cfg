\* A listing of authorized missions that runs while the gateway claims one.
SPECIFICATION ThreadedSpec
CONSTANTS
  g1 = g1
  NoMission = NoMission
  NoVehicle = NoVehicle
  NoGateway = NoGateway
  Missions = {m1}
  Vehicles = {v1}
  Gateways = {g1}
  GatewayOf <- MCGatewayOf
  Authorizations = {a1}
  Commands = {}
  HealthPosts <- MCHealthPosts
  KeptStatuses = {}
  RequestTypes = {}
  Threads = {t1}
PROPERTIES
  ConsumedForGood
