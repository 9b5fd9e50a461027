\* Two missions of two items each, three transmissions of an ARM and two of
\* anything else, two messages under way in each direction.
SPECIFICATION FairSpec
CONSTANTS
  m1 = m1
  m2 = m2
  a = a
  b = b
  c = c
  Missions = {m1, m2}
  Items = {a, b, c}
  PlanOf <- MCPlanOf
  ForeignPlans <- MCForeignPlans
  NoMission = NoMission
  Capacity = 2
  MaxSendAttempts = 3
  Retries = 1
INVARIANTS
  TypeOK
  FliesWhatWasAuthorized
PROPERTIES
  ArmNotRepeated
  ConfirmedWasArmed
  UploadedIsComplete
  OperationReturns
