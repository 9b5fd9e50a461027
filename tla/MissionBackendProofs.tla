------------------------- MODULE MissionBackendProofs -------------------------
(***************************************************************************)
(* Proofs about MissionBackend: its invariants, what its steps never undo, *)
(* and that it implements MissionLifecycle, for any number of orders,      *)
(* vehicles, gateways, authorizations and commands; and about the two      *)
(* handlers ThreadedHandlers takes apart: what holds whatever overtakes    *)
(* them, and that MissionBackend is the backend when nothing does.         *)
(***************************************************************************)
EXTENDS ThreadedHandlers, TLAPS

-------------------------------------------------------------------------------
(* The transition tables.                                                  *)

(* A report only ever moves a flying mission, and to a claimed status.     *)
LEMMA TransitionsOfFlights ==
  ASSUME NEW s \in MissionStatus, NEW t \in GatewayTransitions[s]
  PROVE  s \in FlightStatus /\ t \in ClaimedStatus /\ t \in MissionStatus
BY DEF GatewayTransitions, MissionStatus, ClaimedStatus, FlightStatus,
       UploadStatus, AirborneStatus, EndStatus, PlanningStatus

(* Commands are for flying missions.                                       *)
LEMMA CommandsOfFlights ==
  ASSUME NEW k \in CommandType
  PROVE  AllowedStates[k] \subseteq FlightStatus
BY DEF AllowedStates, CommandType, FlightStatus, UploadStatus, AirborneStatus

(* The order of a claimed mission gets a status of its own vocabulary.     *)
LEMMA OrderStatusTyped ==
  ASSUME NEW s \in ClaimedStatus \ {"PAUSED"}
  PROVE  OrderStatusFromMission[s] \in OrderStatus
BY DEF OrderStatusFromMission, OrderStatus, ClaimedStatus, FlightStatus,
       UploadStatus, AirborneStatus, EndStatus

-------------------------------------------------------------------------------
(* Type correctness.                                                       *)

LEMMA TypeInit == Init => TypeOK
BY RegistrationAssumption, BodyAssumption
DEF Init, TypeOK, OrderStatus, Mission, MissionStatus, Authorization,
    AuthorizationStatus, Command, CommandType, CommandStatus, Health

(* What the listing and the export write, whenever they write it.          *)
LEMMA TypeInvalidate ==
  ASSUME TypeOK, NEW m \in Missions, NEW a \in Authorizations,
         NEW s \in {"EXPIRED", "REVOKED"}, Invalidate(m, a, s), gatewayId' = gatewayId
  PROVE  TypeOK'
<1> USE DEF TypeOK
<1>1. mission' \in [Missions -> Mission]
  BY DEF Invalidate, Mission, MissionStatus, PlanningStatus
<1>2. auth' \in [Authorizations -> Authorization]
  BY DEF Invalidate, Authorization, AuthorizationStatus
<1> QED
  BY <1>1, <1>2 DEF Invalidate

LEMMA TypeExported ==
  ASSUME TypeOK, NEW m \in Missions,
         mission' = [mission EXCEPT ![m].status = "EXPORTED_TO_MISSION_PLANNER"],
         UNCHANGED <<order, auth, cmd, reported, health, gatewayId>>
  PROVE  TypeOK'
BY DEF TypeOK, Mission, MissionStatus, PlanningStatus

LEMMA TypeStep == TypeOK /\ [Next]_vars => TypeOK'
<1> SUFFICES ASSUME TypeOK, [Next]_vars PROVE TypeOK'
  OBVIOUS
<1> USE DEF TypeOK
<1>0. CASE Redeploy
  BY <1>0 DEF Redeploy, rows
<1> HIDE DEF TypeOK
<1>6. CASE UNCHANGED vars
  BY <1>6 DEF vars, rows, TypeOK
<1>7. SUFFICES ASSUME LoopStep \/ ListingStep \/ ExportStep, gatewayId' = gatewayId
               PROVE  TypeOK'
  BY <1>0, <1>6 DEF Next
<1>8. CASE ListingStep
  BY <1>7, <1>8, TypeInvalidate DEF ListingStep, ExpireListed
<1>9. CASE ExportStep
  BY <1>7, <1>9, TypeExported DEF ExportStep, ExportMission
<1> USE DEF TypeOK
<1> gatewayId' \in Gateways
  BY <1>7
<1>1. CASE OrderStep
  BY <1>1 DEF OrderStep, SubmitOrder, CancelOrder, ApproveOrder, RejectOrder,
              MoveOrder, OrderStatus
<1>2. CASE PlanningStep
  <2> PICK m \in Missions :
        \/ PrepareMission(m)
        \/ MarkUnderReview(m)
        \/ MarkReviewed(m)
        \/ \E v \in Vehicles, a \in Authorizations : AuthorizeFlight(m, v, a)
    BY <1>2 DEF PlanningStep
  <2>1. CASE PrepareMission(m)
    BY <2>1 DEF PrepareMission, OrderStatus, Mission, MissionStatus, PlanningStatus
  <2>2. CASE MarkUnderReview(m)
    BY <2>2 DEF MarkUnderReview, Mission, MissionStatus, PlanningStatus
  <2>3. CASE MarkReviewed(m)
    BY <2>3 DEF MarkReviewed, OrderStatus, Mission, MissionStatus, PlanningStatus
  <2>4. ASSUME NEW v \in Vehicles, NEW a \in Authorizations, AuthorizeFlight(m, v, a)
        PROVE  TypeOK'
    <3> mission[m] \in Mission
      OBVIOUS
    <3> [mission[m] EXCEPT !.vehicle = v, !.status = "AUTHORIZED"] \in Mission
      BY DEF Mission, MissionStatus
    <3>1. mission' \in [Missions -> Mission]
      BY <2>4 DEF AuthorizeFlight
    <3>2. auth' \in [Authorizations -> Authorization]
      BY <2>4 DEF AuthorizeFlight, Authorization, AuthorizationStatus
    <3> QED
      BY <2>4, <3>1, <3>2 DEF AuthorizeFlight
  <2> QED
    BY <2>1, <2>2, <2>3, <2>4
<1>3. CASE CommandStep
  <2> PICK m \in Missions, c \in Commands, k \in RequestTypes :
        \/ RequestSafetyAction(m, k, c)
        \/ k = "START" /\ RequestStart(m, c)
        \/ k = "ARM" /\ RequestArm(m, c)
        \/ k = "ABORT" /\ RequestAbort(m, c)
    BY <1>3 DEF CommandStep
  <2> k \in CommandType
    BY BodyAssumption
  <2>1. CASE RequestCommand(m, k, c)
    BY <2>1 DEF RequestCommand, Requested, Command, CommandStatus
  <2>2. CASE RequestAbort(m, c)
    BY <2>2 DEF RequestAbort, Requested, Command, CommandStatus, CommandType
  <2> QED
    BY <2>1, <2>2 DEF RequestSafetyAction, RequestStart, RequestArm
<1>4. CASE ClockStep
  <2>1. ASSUME NEW a \in Authorizations, TtlElapses(a)
        PROVE  TypeOK'
    BY <2>1 DEF TtlElapses, Authorization
  <2>2. ASSUME NEW v \in Vehicles, HealthGoesStale(v)
        PROVE  TypeOK'
    BY <2>2 DEF HealthGoesStale, Health
  <2> QED
    BY <1>4, <2>1, <2>2 DEF ClockStep
<1>5. CASE GatewayStep
  <2>1. ASSUME NEW v \in Vehicles, NEW p \in HealthPosts, NEW after \in SUBSET Commands,
               Heartbeat(v, p, after)
        PROVE  TypeOK'
    BY <2>1 DEF Heartbeat, Health
  <2>2. ASSUME NEW m \in Missions, NEW a \in Authorizations,
               ClaimExpired(m, gatewayId, a) \/ ClaimUnfit(m, gatewayId, a)
        PROVE  TypeOK'
    BY <1>7, <2>2, TypeInvalidate DEF ClaimExpired, ClaimUnfit
  <2>3. ASSUME NEW m \in Missions, NEW a \in Authorizations, ClaimAccepted(m, gatewayId, a)
        PROVE  TypeOK'
    <3> mission[m] \in Mission
      OBVIOUS
    <3> [mission[m] EXCEPT !.status = "UPLOADING", !.claimedBy = gatewayId] \in Mission
      BY DEF Mission, MissionStatus, ClaimedStatus, FlightStatus, UploadStatus
    <3>1. mission' \in [Missions -> Mission]
      BY <2>3 DEF ClaimAccepted
    <3>2. auth' \in [Authorizations -> Authorization]
      BY <2>3 DEF ClaimAccepted, Authorization, AuthorizationStatus
    <3> QED
      BY <2>3, <3>1, <3>2 DEF ClaimAccepted, OrderStatus
  <2>4. ASSUME NEW m \in Missions, NEW s \in MissionStatus, NEW kept \in BOOLEAN,
               ReportApplied(m, gatewayId, s, kept)
        PROVE  TypeOK'
    <3> s \in ClaimedStatus
      BY <2>4, TransitionsOfFlights DEF ReportApplied, Mission
    <3>1. order' \in [Missions -> OrderStatus]
      BY <2>4, OrderStatusTyped DEF ReportApplied
    <3>2. mission' \in [Missions -> Mission]
      BY <2>4 DEF ReportApplied, Mission
    <3>3. reported' \in [Missions -> SUBSET KeptStatuses]
      BY <2>4 DEF ReportApplied, Record, Answerable
    <3> QED
      BY <2>4, <3>1, <3>2, <3>3 DEF ReportApplied
  <2>5. ASSUME NEW m \in Missions, NEW s \in MissionStatus, ReportRecorded(m, gatewayId, s)
        PROVE  TypeOK'
    BY <2>5 DEF ReportRecorded, Record, Answerable
  <2>6. ASSUME NEW c \in Commands, NEW s \in CommandStatus \ {"NONE", "PENDING"},
               AcknowledgeCommand(c, gatewayId, s)
        PROVE  TypeOK'
    BY <2>6 DEF AcknowledgeCommand, Command
  <2> QED
    BY <1>5, <2>1, <2>2, <2>3, <2>4, <2>5, <2>6 DEF GatewayStep
<1> QED
  BY <1>1, <1>2, <1>3, <1>4, <1>5, <1>7, <1>8, <1>9 DEF LoopStep

(* Every row the backend ever stores is one of its models' rows.           *)
THEOREM BackendTypeCorrect == Spec => []TypeOK
<1> QED
  BY TypeInit, TypeStep, PTL DEF Spec

-------------------------------------------------------------------------------
(* What the other proofs tell apart in a step.                             *)

(* Heartbeats, the clock, events without effect, and no step at all.       *)
Quiet ==
  /\ UNCHANGED <<order, mission, cmd>>
  /\ \/ UNCHANGED auth
     \/ UNCHANGED health /\ \E a \in Authorizations : TtlElapses(a)
  /\ \A a \in Authorizations : /\ auth'[a].status = auth[a].status
                               /\ auth'[a].mission = auth[a].mission

(* Planning up to the review.                                              *)
Planned(m) ==
  PrepareMission(m) \/ ExportMission(m) \/ MarkUnderReview(m) \/ MarkReviewed(m)

(* Expired when listed or claimed, or revoked when claimed.                *)
Withdrawn(m, a) ==
  /\ mission[m].status = "AUTHORIZED"
  /\ a \in ActiveAuthorizations(m)
  /\ \E s \in {"EXPIRED", "REVOKED"} : Invalidate(m, a, s)

(* An administrator's request gets a row.                                  *)
Asked(m, k, c) ==
  RequestCommand(m, k, c) \/ (k = "ABORT" /\ RequestAbort(m, c))

StepKind ==
  \/ Quiet
  \/ OrderStep
  \/ \E m \in Missions : Planned(m)
  \/ \E m \in Missions, v \in Vehicles, a \in Authorizations : AuthorizeFlight(m, v, a)
  \/ \E m \in Missions, a \in Authorizations : Withdrawn(m, a)
  \/ \E m \in Missions, g \in Gateways, a \in Authorizations : ClaimAccepted(m, g, a)
  \/ \E m \in Missions, g \in Gateways, s \in MissionStatus, kept \in BOOLEAN :
       ReportApplied(m, g, s, kept)
  \/ \E m \in Missions, k \in CommandType, c \in Commands : Asked(m, k, c)
  \/ \E c \in Commands, g \in Gateways, s \in CommandStatus \ {"NONE", "PENDING"} :
       AcknowledgeCommand(c, g, s)

LEMMA StepKinds ==
  ASSUME TypeOK, [Next]_vars
  PROVE  StepKind
<1>1. CASE PlanningStep \/ ExportStep
  BY <1>1 DEF PlanningStep, ExportStep, Planned, StepKind
<1>2. CASE CommandStep
  <2> RequestTypes \subseteq CommandType
    BY BodyAssumption
  <2> QED
    BY <1>2 DEF CommandStep, RequestSafetyAction, RequestStart, RequestArm, Asked, StepKind
<1>3. CASE ClockStep
  <2> Quiet
    BY <1>3 DEF ClockStep, TtlElapses, HealthGoesStale, Quiet, TypeOK, Authorization
  <2> QED
    BY DEF StepKind
<1>4. CASE GatewayStep
  <2>1. ASSUME NEW v \in Vehicles, NEW p \in HealthPosts, NEW after, Heartbeat(v, p, after)
        PROVE  Quiet
    BY <2>1 DEF Heartbeat, Quiet
  <2>2. ASSUME NEW m \in Missions, NEW a \in Authorizations, NEW g \in Gateways,
               ClaimExpired(m, g, a) \/ ClaimUnfit(m, g, a)
        PROVE  Withdrawn(m, a)
    BY <2>2 DEF ClaimExpired, ClaimUnfit, Claimable, Withdrawn
  <2>3. ASSUME NEW m \in Missions, NEW g, NEW s, ReportRecorded(m, g, s)
        PROVE  Quiet
    BY <2>3 DEF ReportRecorded, Quiet
  <2> gatewayId \in Gateways
    BY DEF TypeOK
  <2> QED
    BY <1>4, <2>1, <2>2, <2>3 DEF GatewayStep, StepKind
<1>5. CASE Redeploy \/ UNCHANGED vars
  BY <1>5 DEF Redeploy, vars, rows, Quiet, StepKind
<1>6. CASE ListingStep
  BY <1>6 DEF ListingStep, ExpireListed, Withdrawn, StepKind
<1> QED
  BY <1>1, <1>2, <1>3, <1>4, <1>5, <1>6 DEF Next, LoopStep, StepKind

-------------------------------------------------------------------------------
(* One permission per flight.                                              *)

LEMMA PermissionInit == Init => OnePermissionPerFlight
BY DEF Init, OnePermissionPerFlight, WithStatus, ClaimedStatus, FlightStatus,
       UploadStatus, AirborneStatus, EndStatus

LEMMA PermissionStep ==
  ASSUME TypeOK, OnePermissionPerFlight, [Next]_vars
  PROVE  OnePermissionPerFlight'
<1> USE DEF TypeOK, OnePermissionPerFlight, WithStatus
<1>1. CASE Quiet
  BY <1>1 DEF Quiet
<1>2. CASE OrderStep
  BY <1>2 DEF OrderStep, SubmitOrder, CancelOrder, ApproveOrder, RejectOrder, MoveOrder
<1>3. ASSUME NEW m \in Missions, Planned(m)
      PROVE  OnePermissionPerFlight'
  BY <1>3 DEF Planned, PrepareMission, ExportMission, MarkUnderReview, MarkReviewed, Mission,
              ClaimedStatus, FlightStatus, UploadStatus, AirborneStatus, EndStatus
<1>4. ASSUME NEW m \in Missions, NEW v \in Vehicles, NEW a \in Authorizations,
             AuthorizeFlight(m, v, a)
      PROVE  OnePermissionPerFlight'
  BY <1>4 DEF AuthorizeFlight, Mission, Authorization, ClaimedStatus, FlightStatus,
              UploadStatus, AirborneStatus, EndStatus
<1>5. ASSUME NEW m \in Missions, NEW a \in Authorizations, Withdrawn(m, a)
      PROVE  OnePermissionPerFlight'
  BY <1>5 DEF Withdrawn, ActiveAuthorizations, Invalidate, Mission, Authorization,
              ClaimedStatus, FlightStatus, UploadStatus, AirborneStatus, EndStatus
<1>6. ASSUME NEW m \in Missions, NEW g \in Gateways, NEW a \in Authorizations,
             ClaimAccepted(m, g, a)
      PROVE  OnePermissionPerFlight'
  BY <1>6 DEF ClaimAccepted, Claimable, ActiveAuthorizations, Mission, Authorization,
              ClaimedStatus, FlightStatus, UploadStatus, AirborneStatus, EndStatus
<1>7. ASSUME NEW m \in Missions, NEW g \in Gateways, NEW s \in MissionStatus,
             NEW kept \in BOOLEAN, ReportApplied(m, g, s, kept)
      PROVE  OnePermissionPerFlight'
  <2> mission[m].status \in FlightStatus /\ s \in ClaimedStatus
    BY <1>7, TransitionsOfFlights DEF ReportApplied, Mission
  <2> QED
    BY <1>7 DEF ReportApplied, Mission, ClaimedStatus, FlightStatus, UploadStatus,
                AirborneStatus, EndStatus
<1>8. CASE UNCHANGED <<mission, auth>>
  BY <1>8
<1> HIDE DEF TypeOK, OnePermissionPerFlight, WithStatus
<1>9. ASSUME NEW m \in Missions, NEW k \in CommandType, NEW c \in Commands,
             Asked(m, k, c)
      PROVE  OnePermissionPerFlight'
  BY <1>8, <1>9 DEF Asked, RequestCommand, RequestAbort
<1>10. ASSUME NEW c \in Commands, NEW g \in Gateways,
              NEW s \in CommandStatus \ {"NONE", "PENDING"}, AcknowledgeCommand(c, g, s)
       PROVE  OnePermissionPerFlight'
  BY <1>8, <1>10 DEF AcknowledgeCommand
<1> QED
  BY StepKinds, <1>1, <1>2, <1>3, <1>4, <1>5, <1>6, <1>7, <1>9, <1>10 DEF StepKind

-------------------------------------------------------------------------------
(* Commands belong to the gateway that holds the mission.                  *)

LEMMA HolderInit == Init => CommandsOfTheHolder
BY NullAssumption
DEF Init, CommandsOfTheHolder, ClaimedStatus, FlightStatus, UploadStatus,
    AirborneStatus, EndStatus

LEMMA HolderStep ==
  ASSUME TypeOK, CommandsOfTheHolder, [Next]_vars
  PROVE  CommandsOfTheHolder'
<1> USE NullAssumption DEF TypeOK, CommandsOfTheHolder
<1> DEFINE SameMissions ==
      \A m \in Missions :
        /\ mission'[m].status \in ClaimedStatus <=> mission[m].status \in ClaimedStatus
        /\ mission'[m].claimedBy = mission[m].claimedBy
        /\ mission[m].claimedBy # NoGateway => mission'[m].vehicle = mission[m].vehicle
<1>1. ASSUME SameMissions, cmd' = cmd PROVE CommandsOfTheHolder'
  BY <1>1 DEF Command
<1>2. CASE Quiet
  BY <1>1, <1>2 DEF Quiet
<1>3. CASE OrderStep
  BY <1>1, <1>3 DEF OrderStep, SubmitOrder, CancelOrder, ApproveOrder, RejectOrder, MoveOrder
<1>4. ASSUME NEW m \in Missions, Planned(m)
      PROVE  CommandsOfTheHolder'
  <2>1. PICK s \in PlanningStatus : mission' = [mission EXCEPT ![m].status = s]
    BY <1>4 DEF Planned, PrepareMission, ExportMission, MarkUnderReview, MarkReviewed,
                PlanningStatus
  <2>2. mission[m].status \in {"NONE"} \cup PlanningStatus
    BY <1>4 DEF Planned, PrepareMission, ExportMission, MarkUnderReview, MarkReviewed,
                PlanningStatus
  <2>3. ClaimedStatus \cap ({"NONE"} \cup PlanningStatus) = {}
    BY DEF PlanningStatus, ClaimedStatus, FlightStatus, UploadStatus, AirborneStatus, EndStatus
  <2> SameMissions
    BY <2>1, <2>2, <2>3 DEF Mission
  <2> QED
    BY <1>1, <1>4 DEF Planned, PrepareMission, ExportMission, MarkUnderReview, MarkReviewed
<1>5. ASSUME NEW m \in Missions, NEW v \in Vehicles, NEW a \in Authorizations,
             AuthorizeFlight(m, v, a)
      PROVE  CommandsOfTheHolder'
  <2> SameMissions
    BY <1>5 DEF AuthorizeFlight, Mission, ClaimedStatus, FlightStatus, UploadStatus,
                AirborneStatus, EndStatus
  <2> QED
    BY <1>1, <1>5 DEF AuthorizeFlight
<1>6. ASSUME NEW m \in Missions, NEW a \in Authorizations, Withdrawn(m, a)
      PROVE  CommandsOfTheHolder'
  <2> SameMissions
    BY <1>6 DEF Withdrawn, Invalidate, Mission, ClaimedStatus, FlightStatus, UploadStatus,
                AirborneStatus, EndStatus
  <2> QED
    BY <1>1, <1>6 DEF Withdrawn, Invalidate
<1>7. ASSUME NEW m \in Missions, NEW g \in Gateways, NEW a \in Authorizations,
             ClaimAccepted(m, g, a)
      PROVE  CommandsOfTheHolder'
  <2> mission[m].claimedBy = NoGateway
    BY <1>7 DEF ClaimAccepted, Claimable, ClaimedStatus, FlightStatus, UploadStatus,
                AirborneStatus, EndStatus
  <2> QED
    BY <1>7 DEF ClaimAccepted, Claimable, Mission, Command, ClaimedStatus, FlightStatus,
                UploadStatus
<1>8. ASSUME NEW m \in Missions, NEW g \in Gateways, NEW s \in MissionStatus,
             NEW kept \in BOOLEAN, ReportApplied(m, g, s, kept)
      PROVE  CommandsOfTheHolder'
  <2> mission[m].status \in FlightStatus /\ s \in ClaimedStatus
    BY <1>8, TransitionsOfFlights DEF ReportApplied, Mission
  <2> SameMissions
    BY <1>8 DEF ReportApplied, Mission, ClaimedStatus
  <2> QED
    BY <1>1, <1>8 DEF ReportApplied
<1>9. ASSUME NEW m \in Missions, NEW k \in CommandType, NEW c \in Commands, Asked(m, k, c)
      PROVE  CommandsOfTheHolder'
  <2>1. mission[m].claimedBy # NoGateway /\ mission' = mission
    BY <1>9, CommandsOfFlights
    DEF Asked, RequestCommand, RequestAbort, ClaimedStatus, CommandType
  <2>2. ASSUME NEW d \in Commands, cmd'[d].status # "NONE"
        PROVE  /\ cmd'[d].mission # NoMission
               /\ mission[cmd'[d].mission].claimedBy # NoGateway
               /\ cmd'[d].gateway \in {NoGateway, mission[cmd'[d].mission].claimedBy}
    BY <1>9, <2>1, <2>2
    DEF Asked, RequestCommand, RequestAbort, Requested, OpenCommands, OpenCommandStatus, Command
  <2> QED
    BY <2>1, <2>2
<1>10. ASSUME NEW c \in Commands, NEW g \in Gateways,
              NEW s \in CommandStatus \ {"NONE", "PENDING"}, AcknowledgeCommand(c, g, s)
       PROVE  CommandsOfTheHolder'
  BY <1>10 DEF AcknowledgeCommand, Acknowledgeable, OpenCommandStatus, Command
<1> HIDE DEF TypeOK, CommandsOfTheHolder, SameMissions
<1> QED
  BY StepKinds, <1>2, <1>3, <1>4, <1>5, <1>6, <1>7, <1>8, <1>9, <1>10 DEF StepKind

-------------------------------------------------------------------------------
(* The order follows its mission.                                          *)

(* An order still open to its customer or its administrator has no mission.*)
LEMMA FollowsNone ==
  ASSUME NEW s \in MissionStatus, NEW o, Follows(o, s),
         o \in {"DRAFT", "PENDING_ADMIN_APPROVAL", "APPROVED"}
  PROVE  s = "NONE"
BY DEF Follows, MissionStatus, PlanningStatus, ClaimedStatus, FlightStatus, UploadStatus,
       AirborneStatus, EndStatus, OrderStatusFromMission

(* A report keeps the order in step.                                       *)
LEMMA FollowsReport ==
  ASSUME NEW s \in MissionStatus, NEW o, Follows(o, s), NEW t \in GatewayTransitions[s]
  PROVE  Follows(IF t = "PAUSED" THEN o ELSE OrderStatusFromMission[t], t)
<1>1. t \in ClaimedStatus /\ s \in FlightStatus
  BY TransitionsOfFlights
<1>2. CASE t = "PAUSED"
  <2>1. s \in AirborneStatus \ {"PAUSED"}
    BY <1>1, <1>2
    DEF GatewayTransitions, MissionStatus, FlightStatus, UploadStatus, AirborneStatus,
        ClaimedStatus, EndStatus, PlanningStatus
  <2>2. o = OrderStatusFromMission[s]
    BY <2>1 DEF Follows, ClaimedStatus, FlightStatus
  <2>3. o \in {"IN_TRANSIT", "AT_DESTINATION", "DELIVERED", "RETURNING"}
    BY <2>1, <2>2 DEF OrderStatusFromMission, AirborneStatus, ClaimedStatus, FlightStatus,
                      UploadStatus
  <2> QED
    BY <1>2, <2>3 DEF Follows, PlanningStatus
<1>3. CASE t # "PAUSED"
  BY <1>1, <1>3 DEF Follows, PlanningStatus, ClaimedStatus, FlightStatus, UploadStatus,
                    AirborneStatus, EndStatus
<1> QED
  BY <1>2, <1>3

LEMMA OrderInit == Init => OrderFollowsMission
BY DEF Init, OrderFollowsMission, Follows, PlanningStatus, ClaimedStatus, FlightStatus, UploadStatus,
       AirborneStatus, EndStatus

LEMMA OrderFollowsStep ==
  ASSUME TypeOK, OrderFollowsMission, [Next]_vars
  PROVE  OrderFollowsMission'
<1> SUFFICES ASSUME NEW n \in Missions
             PROVE  Follows(order'[n], mission'[n].status)
  BY DEF OrderFollowsMission
<1> Follows(order[n], mission[n].status)
  BY DEF OrderFollowsMission
<1> USE DEF TypeOK
<1>1. CASE order' = order /\ \A m \in Missions : mission'[m].status = mission[m].status
  BY <1>1
<1>2. CASE Quiet
  BY <1>1, <1>2 DEF Quiet
<1>3. CASE OrderStep
  <2> PICK m \in Missions, to \in {"PENDING_ADMIN_APPROVAL", "CANCELLED", "APPROVED",
                                   "REJECTED"} :
        /\ order[m] \in {"DRAFT", "PENDING_ADMIN_APPROVAL", "APPROVED"}
        /\ order' = [order EXCEPT ![m] = to]
        /\ mission' = mission
    BY <1>3 DEF OrderStep, SubmitOrder, CancelOrder, ApproveOrder, RejectOrder, MoveOrder
  <2>1. CASE n # m
    BY <2>1
  <2>2. CASE n = m
    <3> mission[n].status = "NONE"
      BY <2>2, FollowsNone DEF Mission
    <3> QED
      BY <2>2 DEF Follows, PlanningStatus, ClaimedStatus, FlightStatus, UploadStatus,
                  AirborneStatus, EndStatus
  <2> QED
    BY <2>1, <2>2
<1>4. ASSUME NEW m \in Missions, Planned(m)
      PROVE  Follows(order'[n], mission'[n].status)
  <2>1. CASE n # m
    BY <1>4, <2>1 DEF Planned, PrepareMission, ExportMission, MarkUnderReview, MarkReviewed
  <2>2. CASE n = m
    BY <1>4, <2>2
    DEF Planned, PrepareMission, ExportMission, MarkUnderReview, MarkReviewed, Mission, Follows,
        PlanningStatus, ClaimedStatus, FlightStatus, UploadStatus, AirborneStatus, EndStatus
  <2> QED
    BY <2>1, <2>2
<1>5. ASSUME NEW m \in Missions, NEW v \in Vehicles, NEW a \in Authorizations,
             AuthorizeFlight(m, v, a)
      PROVE  Follows(order'[n], mission'[n].status)
  BY <1>5 DEF AuthorizeFlight, Mission, Follows, PlanningStatus, ClaimedStatus, FlightStatus,
              UploadStatus, AirborneStatus, EndStatus
<1>6. ASSUME NEW m \in Missions, NEW a \in Authorizations, Withdrawn(m, a)
      PROVE  Follows(order'[n], mission'[n].status)
  BY <1>6 DEF Withdrawn, Invalidate, Mission, Follows, PlanningStatus, ClaimedStatus,
              FlightStatus, UploadStatus, AirborneStatus, EndStatus
<1>7. ASSUME NEW m \in Missions, NEW g \in Gateways, NEW a \in Authorizations,
             ClaimAccepted(m, g, a)
      PROVE  Follows(order'[n], mission'[n].status)
  <2> OrderStatusFromMission["UPLOADING"] = "MISSION_UPLOADING"
    BY DEF OrderStatusFromMission, ClaimedStatus, FlightStatus, UploadStatus
  <2> QED
    BY <1>7 DEF ClaimAccepted, Mission, Follows, PlanningStatus
<1>8. ASSUME NEW m \in Missions, NEW g \in Gateways, NEW s \in MissionStatus,
             NEW kept \in BOOLEAN, ReportApplied(m, g, s, kept)
      PROVE  Follows(order'[n], mission'[n].status)
  <2>1. CASE n # m
    BY <1>8, <2>1 DEF ReportApplied
  <2>2. CASE n = m
    <3>1. /\ mission'[n].status = s
          /\ order'[n] = IF s = "PAUSED" THEN order[n] ELSE OrderStatusFromMission[s]
      BY <1>8, <2>2 DEF ReportApplied, Mission
    <3>2. s \in GatewayTransitions[mission[n].status] /\ mission[n].status \in MissionStatus
      BY <1>8, <2>2 DEF ReportApplied, Mission
    <3> QED
      BY <3>1, <3>2, FollowsReport
  <2> QED
    BY <2>1, <2>2
<1>9. ASSUME NEW m \in Missions, NEW k \in CommandType, NEW c \in Commands, Asked(m, k, c)
      PROVE  Follows(order'[n], mission'[n].status)
  BY <1>1, <1>9 DEF Asked, RequestCommand, RequestAbort
<1>10. ASSUME NEW c \in Commands, NEW g \in Gateways,
              NEW s \in CommandStatus \ {"NONE", "PENDING"}, AcknowledgeCommand(c, g, s)
       PROVE  Follows(order'[n], mission'[n].status)
  BY <1>1, <1>10 DEF AcknowledgeCommand
<1> HIDE DEF TypeOK
<1> QED
  BY StepKinds, <1>2, <1>3, <1>4, <1>5, <1>6, <1>7, <1>8, <1>9, <1>10 DEF StepKind

-------------------------------------------------------------------------------
(* One open command.                                                       *)

LEMMA OneOpenInit == Init => OneOpenCommand
BY DEF Init, OneOpenCommand, OpenCommands, OpenCommandStatus

LEMMA OneOpenStep ==
  ASSUME TypeOK, OneOpenCommand, [Next]_vars
  PROVE  OneOpenCommand'
<1> USE DEF TypeOK, OneOpenCommand, OpenCommands, OpenCommandStatus
<1>1. CASE cmd' = cmd
  BY <1>1
<1>2. CASE Quiet
  BY <1>1, <1>2 DEF Quiet
<1>3. CASE OrderStep
  BY <1>1, <1>3 DEF OrderStep, SubmitOrder, CancelOrder, ApproveOrder, RejectOrder, MoveOrder
<1>4. ASSUME NEW m \in Missions, Planned(m)
      PROVE  OneOpenCommand'
  BY <1>1, <1>4 DEF Planned, PrepareMission, ExportMission, MarkUnderReview, MarkReviewed
<1>5. ASSUME NEW m \in Missions, NEW v \in Vehicles, NEW a \in Authorizations,
             AuthorizeFlight(m, v, a)
      PROVE  OneOpenCommand'
  BY <1>1, <1>5 DEF AuthorizeFlight
<1>6. ASSUME NEW m \in Missions, NEW a \in Authorizations, Withdrawn(m, a)
      PROVE  OneOpenCommand'
  BY <1>1, <1>6 DEF Withdrawn, Invalidate
<1>7. ASSUME NEW m \in Missions, NEW g \in Gateways, NEW a \in Authorizations,
             ClaimAccepted(m, g, a)
      PROVE  OneOpenCommand'
  BY <1>1, <1>7 DEF ClaimAccepted
<1>8. ASSUME NEW m \in Missions, NEW g \in Gateways, NEW s \in MissionStatus,
             NEW kept \in BOOLEAN, ReportApplied(m, g, s, kept)
      PROVE  OneOpenCommand'
  BY <1>1, <1>8 DEF ReportApplied
<1>9. ASSUME NEW m \in Missions, NEW k \in CommandType, NEW c \in Commands, Asked(m, k, c)
      PROVE  OneOpenCommand'
  <2>1. CASE RequestCommand(m, k, c)
    BY <2>1 DEF RequestCommand, Requested, Command
  <2>2. CASE RequestAbort(m, c)
    <3>1. ASSUME NEW d \in Commands, d # c
          PROVE  /\ cmd'[d].mission = cmd[d].mission
                 /\ cmd'[d].status \in OpenCommandStatus =>
                      cmd'[d] = cmd[d] /\ cmd[d].mission # m
      BY <2>2, <3>1 DEF RequestAbort, Command
    <3>2. cmd'[c].mission = m
      BY <2>2 DEF RequestAbort, Requested
    <3> QED
      BY <3>1, <3>2
  <2> QED
    BY <1>9, <2>1, <2>2 DEF Asked
<1>10. ASSUME NEW c \in Commands, NEW g \in Gateways,
              NEW s \in CommandStatus \ {"NONE", "PENDING"}, AcknowledgeCommand(c, g, s)
       PROVE  OneOpenCommand'
  BY <1>10 DEF AcknowledgeCommand, Acknowledgeable, Command
<1> HIDE DEF TypeOK, OneOpenCommand, OpenCommands, OpenCommandStatus
<1> QED
  BY StepKinds, <1>2, <1>3, <1>4, <1>5, <1>6, <1>7, <1>8, <1>9, <1>10 DEF StepKind

-------------------------------------------------------------------------------
(* The inductive invariant and the theorems it yields.                     *)

Inv ==
  /\ TypeOK
  /\ OnePermissionPerFlight
  /\ CommandsOfTheHolder
  /\ OrderFollowsMission
  /\ OneOpenCommand

(* The rows keep their types, permissions, bindings, stages and the one    *)
(* open command together: each handler needs all of them to preserve any.  *)
THEOREM BackendInvariant == Spec => []Inv
<1>1. Init => Inv
  BY TypeInit, PermissionInit, HolderInit, OrderInit, OneOpenInit DEF Inv
<1>2. Inv /\ [Next]_vars => Inv'
  BY TypeStep, PermissionStep, HolderStep, OrderFollowsStep, OneOpenStep DEF Inv
<1> QED
  BY <1>1, <1>2, PTL DEF Spec

(* Every flight rests on one permission, used once.                        *)
THEOREM PermissionSafety == Spec => []OnePermissionPerFlight
<1>1. Inv => OnePermissionPerFlight
  BY DEF Inv
<1> QED
  BY <1>1, BackendInvariant, PTL

(* The customer's view of an order never leaves its mission's stage.       *)
THEOREM OrderSafety == Spec => []OrderFollowsMission
<1>1. Inv => OrderFollowsMission
  BY DEF Inv
<1> QED
  BY <1>1, BackendInvariant, PTL

(* Commands stay with the one gateway that holds their mission.            *)
THEOREM HolderSafety == Spec => []CommandsOfTheHolder
<1>1. Inv => CommandsOfTheHolder
  BY DEF Inv
<1> QED
  BY <1>1, BackendInvariant, PTL

(* No mission has two critical commands open at once.                      *)
THEOREM CommandSafety == Spec => []OneOpenCommand
<1>1. Inv => OneOpenCommand
  BY DEF Inv
<1> QED
  BY <1>1, BackendInvariant, PTL

-------------------------------------------------------------------------------
(* What ended stays ended.                                                 *)

(* An order with a mission is out of its customer's hands.                 *)
OrdersTaken ==
  \A m \in Missions : mission[m].status # "NONE" =>
    order[m] \notin {"DRAFT", "PENDING_ADMIN_APPROVAL"}

LEMMA OrdersTakenHere ==
  ASSUME Inv
  PROVE  OrdersTaken
BY DEF Inv, TypeOK, Mission, OrdersTaken, OrderFollowsMission, Follows, MissionStatus,
       ClaimedStatus, FlightStatus, UploadStatus, AirborneStatus, EndStatus, PlanningStatus,
       OrderStatusFromMission

LEMMA EndsStep ==
  ASSUME TypeOK, OrdersTaken, [Next]_vars
  PROVE  NothingRevived /\ EndsKept
<1> USE DEF TypeOK
<1>1. ASSUME NEW n \in Missions, mission[n].status \in EndStatus
      PROVE  mission'[n] = mission[n] /\ order'[n] = order[n]
  <2> mission[n].status \notin FlightStatus \cup PlanningStatus \cup {"NONE", "AUTHORIZED"}
    BY <1>1 DEF EndStatus, FlightStatus, UploadStatus, AirborneStatus, PlanningStatus
  <2> order[n] \notin {"DRAFT", "PENDING_ADMIN_APPROVAL"}
    BY <1>1 DEF OrdersTaken, EndStatus
  <2>1. CASE Quiet
    BY <2>1 DEF Quiet
  <2>2. CASE OrderStep
    BY <2>2 DEF OrderStep, SubmitOrder, CancelOrder, ApproveOrder, RejectOrder, MoveOrder
  <2>3. ASSUME NEW m \in Missions, Planned(m)
        PROVE  mission'[n] = mission[n] /\ order'[n] = order[n]
    BY <2>3 DEF Planned, PrepareMission, ExportMission, MarkUnderReview, MarkReviewed,
                PlanningStatus
  <2>4. ASSUME NEW m \in Missions, NEW v \in Vehicles, NEW a \in Authorizations,
               AuthorizeFlight(m, v, a)
        PROVE  mission'[n] = mission[n] /\ order'[n] = order[n]
    BY <2>4 DEF AuthorizeFlight, PlanningStatus
  <2>5. ASSUME NEW m \in Missions, NEW a \in Authorizations, Withdrawn(m, a)
        PROVE  mission'[n] = mission[n] /\ order'[n] = order[n]
    BY <2>5 DEF Withdrawn, Invalidate
  <2>6. ASSUME NEW m \in Missions, NEW g \in Gateways, NEW a \in Authorizations,
               ClaimAccepted(m, g, a)
        PROVE  mission'[n] = mission[n] /\ order'[n] = order[n]
    BY <2>6 DEF ClaimAccepted, Claimable
  <2>7. ASSUME NEW m \in Missions, NEW g \in Gateways, NEW s \in MissionStatus,
               NEW kept \in BOOLEAN, ReportApplied(m, g, s, kept)
        PROVE  mission'[n] = mission[n] /\ order'[n] = order[n]
    <3> mission[m].status \in FlightStatus
      BY <2>7, TransitionsOfFlights DEF ReportApplied, Mission
    <3> QED
      BY <2>7 DEF ReportApplied
  <2>8. ASSUME NEW m \in Missions, NEW k \in CommandType, NEW c \in Commands, Asked(m, k, c)
        PROVE  mission'[n] = mission[n] /\ order'[n] = order[n]
    BY <2>8 DEF Asked, RequestCommand, RequestAbort
  <2>9. ASSUME NEW c \in Commands, NEW g \in Gateways,
               NEW s \in CommandStatus \ {"NONE", "PENDING"}, AcknowledgeCommand(c, g, s)
        PROVE  mission'[n] = mission[n] /\ order'[n] = order[n]
    BY <2>9 DEF AcknowledgeCommand
  <2> HIDE DEF TypeOK
  <2> QED
    BY StepKinds, <2>1, <2>2, <2>3, <2>4, <2>5, <2>6, <2>7, <2>8, <2>9 DEF StepKind
<1>2. ASSUME NEW d \in Commands, cmd[d].status \in {"COMPLETED", "FAILED"}
      PROVE  cmd'[d] = cmd[d]
  <2>1. ASSUME NEW m \in Missions, NEW k \in CommandType, NEW c \in Commands, Asked(m, k, c)
        PROVE  cmd'[d] = cmd[d]
    BY <1>2, <2>1 DEF Asked, RequestCommand, RequestAbort, OpenCommands, OpenCommandStatus
  <2>2. ASSUME NEW c \in Commands, NEW g \in Gateways,
               NEW s \in CommandStatus \ {"NONE", "PENDING"}, AcknowledgeCommand(c, g, s)
        PROVE  cmd'[d] = cmd[d]
    BY <1>2, <2>2 DEF AcknowledgeCommand, Acknowledgeable, OpenCommandStatus
  <2>3. ASSUME NEW m, NEW v, NEW a, NEW g, NEW s, NEW kept,
               \/ Planned(m) \/ AuthorizeFlight(m, v, a) \/ Withdrawn(m, a)
               \/ ClaimAccepted(m, g, a) \/ ReportApplied(m, g, s, kept)
        PROVE  cmd'[d] = cmd[d]
    BY <2>3 DEF Planned, PrepareMission, ExportMission, MarkUnderReview, MarkReviewed,
                AuthorizeFlight, Withdrawn, Invalidate, ClaimAccepted, ReportApplied
  <2>4. ASSUME OrderStep \/ Quiet
        PROVE  cmd'[d] = cmd[d]
    BY <2>4 DEF OrderStep, SubmitOrder, CancelOrder, ApproveOrder, RejectOrder, MoveOrder, Quiet
  <2> HIDE DEF TypeOK
  <2> QED
    BY StepKinds, <2>1, <2>2, <2>3, <2>4 DEF StepKind
<1>3. ASSUME NEW b \in Authorizations, auth[b].status \in {"CONSUMED", "EXPIRED", "REVOKED"}
      PROVE  auth'[b].status = auth[b].status /\ auth'[b].mission = auth[b].mission
  <2>1. ASSUME NEW m \in Missions, NEW v \in Vehicles, NEW a \in Authorizations,
               AuthorizeFlight(m, v, a)
        PROVE  auth'[b] = auth[b]
    BY <1>3, <2>1 DEF AuthorizeFlight
  <2>2. ASSUME NEW m \in Missions, NEW a \in Authorizations, Withdrawn(m, a)
        PROVE  auth'[b] = auth[b]
    BY <1>3, <2>2 DEF Withdrawn, Invalidate, ActiveAuthorizations, WithStatus
  <2>3. ASSUME NEW m \in Missions, NEW g \in Gateways, NEW a \in Authorizations,
               ClaimAccepted(m, g, a)
        PROVE  auth'[b] = auth[b]
    BY <1>3, <2>3 DEF ClaimAccepted, Claimable, ActiveAuthorizations, WithStatus
  <2>4. ASSUME NEW m, NEW g, NEW s, NEW kept, NEW k, NEW c,
               \/ Planned(m) \/ ReportApplied(m, g, s, kept)
               \/ Asked(m, k, c) \/ AcknowledgeCommand(c, g, s)
        PROVE  auth'[b] = auth[b]
    BY <2>4 DEF Planned, PrepareMission, ExportMission, MarkUnderReview, MarkReviewed,
                ReportApplied, Asked, RequestCommand, RequestAbort, AcknowledgeCommand
  <2>5. ASSUME OrderStep
        PROVE  auth'[b] = auth[b]
    BY <2>5 DEF OrderStep, SubmitOrder, CancelOrder, ApproveOrder, RejectOrder, MoveOrder
  <2> HIDE DEF TypeOK
  <2> QED
    BY StepKinds, <2>1, <2>2, <2>3, <2>4, <2>5 DEF StepKind, Quiet
<1> QED
  BY <1>1, <1>2, <1>3 DEF NothingRevived, EndsKept, Ended

(* No late report, retry, acknowledgement or claim reopens what ended.     *)
THEOREM EndedRowsSafety == Spec => EndedRowsStay
<1>1. Inv /\ [Next]_vars => [EndedRows]_vars
  BY EndsStep, OrdersTakenHere DEF Inv, EndedRows
<1> QED
  BY <1>1, BackendInvariant, PTL DEF Spec, EndedRowsStay

-------------------------------------------------------------------------------
(* No command is requested for a gateway that is locked out.               *)

LEMMA HolderKept ==
  ASSUME TypeOK, CommandsOfTheHolder, [Next]_vars,
         NEW n \in Missions, mission[n].claimedBy # NoGateway
  PROVE  mission'[n].claimedBy = mission[n].claimedBy
<1> USE DEF TypeOK
<1>1. CASE Quiet \/ OrderStep
  BY <1>1 DEF Quiet, OrderStep, SubmitOrder, CancelOrder, ApproveOrder, RejectOrder, MoveOrder
<1>2. ASSUME NEW m \in Missions, NEW s, mission' = [mission EXCEPT ![m].status = s]
      PROVE  mission'[n].claimedBy = mission[n].claimedBy
  BY <1>2 DEF Mission
<1>5. ASSUME NEW m \in Missions, Planned(m)
      PROVE  mission'[n].claimedBy = mission[n].claimedBy
  BY <1>2, <1>5 DEF Planned, PrepareMission, ExportMission, MarkUnderReview, MarkReviewed
<1>6. ASSUME NEW m \in Missions, NEW v \in Vehicles, NEW a \in Authorizations,
             AuthorizeFlight(m, v, a)
      PROVE  mission'[n].claimedBy = mission[n].claimedBy
  BY <1>6 DEF AuthorizeFlight, Mission
<1>7. ASSUME NEW m \in Missions, NEW a \in Authorizations, Withdrawn(m, a)
      PROVE  mission'[n].claimedBy = mission[n].claimedBy
  BY <1>2, <1>7 DEF Withdrawn, Invalidate
<1>8. ASSUME NEW m \in Missions, NEW g \in Gateways, NEW s \in MissionStatus,
             NEW kept \in BOOLEAN, ReportApplied(m, g, s, kept)
      PROVE  mission'[n].claimedBy = mission[n].claimedBy
  BY <1>2, <1>8 DEF ReportApplied
<1>3. ASSUME NEW m \in Missions, NEW g \in Gateways, NEW a \in Authorizations,
             ClaimAccepted(m, g, a)
      PROVE  mission'[n].claimedBy = mission[n].claimedBy
  <2>1. mission[n].status \in ClaimedStatus
    BY DEF CommandsOfTheHolder
  <2>2. n # m
    BY <1>3, <2>1 DEF ClaimAccepted, Claimable, ClaimedStatus, FlightStatus, UploadStatus,
                      AirborneStatus, EndStatus
  <2> QED
    BY <1>3, <2>2 DEF ClaimAccepted
<1>4. ASSUME NEW m, NEW k, NEW c, NEW g, NEW s,
             Asked(m, k, c) \/ AcknowledgeCommand(c, g, s)
      PROVE  mission'[n].claimedBy = mission[n].claimedBy
  BY <1>4 DEF Asked, RequestCommand, RequestAbort, AcknowledgeCommand
<1> HIDE DEF TypeOK
<1> QED
  BY StepKinds, <1>1, <1>3, <1>4, <1>5, <1>6, <1>7, <1>8 DEF StepKind

LEMMA StrandedStep ==
  ASSUME Inv, [Next]_vars, gatewayId' = gatewayId
  PROVE  Stranded' \subseteq Stranded
<1> SUFFICES ASSUME NEW c \in Stranded' PROVE c \in Stranded
  OBVIOUS
<1>0. /\ c \in Commands /\ cmd'[c].type \in {"START", "ARM"}
      /\ cmd'[c].status \in OpenCommandStatus
      /\ mission'[cmd'[c].mission].claimedBy # gatewayId
  BY DEF Stranded
<1>1. CASE CommandStep
  <2> PICK m \in Missions, d \in Commands, k \in RequestTypes :
        \/ RequestSafetyAction(m, k, d)
        \/ k = "START" /\ RequestStart(m, d)
        \/ k = "ARM" /\ RequestArm(m, d)
        \/ k = "ABORT" /\ RequestAbort(m, d)
    BY <1>1 DEF CommandStep
  <2>1. /\ mission' = mission /\ cmd'[d] = Requested(m, k)
        /\ c # d => cmd'[c] = cmd[c] \/ cmd'[c].status = "FAILED"
    BY <1>0 DEF RequestSafetyAction, RequestStart, RequestArm, RequestAbort, RequestCommand, Inv,
                TypeOK, Command
  <2>2. c # d
    <3> SUFFICES ASSUME c = d PROVE FALSE
      OBVIOUS
    <3>1. cmd'[c].type = k /\ cmd'[c].mission = m
      BY <2>1 DEF Requested
    <3>2. IdentityMatches(m)
      BY <1>0, <3>1 DEF RequestSafetyAction, RequestStart, RequestArm
    <3> QED
      BY <1>0, <2>1, <3>1, <3>2 DEF IdentityMatches
  <2>3. cmd'[c] = cmd[c]
    BY <1>0, <2>1, <2>2 DEF OpenCommandStatus
  <2> QED
    BY <1>0, <2>1, <2>3 DEF Stranded
<1>2. CASE ~CommandStep
  <2>1. cmd' = cmd \/ \E d \in Commands, s \in CommandStatus \ {"NONE", "PENDING"} :
          AcknowledgeCommand(d, gatewayId, s)
    BY <1>2
    DEF Next, LoopStep, ListingStep, ExportStep, Redeploy, vars, rows, OrderStep, SubmitOrder,
        CancelOrder, ApproveOrder, RejectOrder, MoveOrder, PlanningStep, PrepareMission,
        ExportMission, MarkUnderReview, MarkReviewed, AuthorizeFlight, ClockStep, TtlElapses,
        HealthGoesStale, GatewayStep, Heartbeat, ExpireListed, ClaimExpired, ClaimUnfit,
        ClaimAccepted, Invalidate, ReportApplied, ReportRecorded
  <2>2. /\ cmd[c].type = cmd'[c].type /\ cmd[c].mission = cmd'[c].mission
        /\ cmd[c].status \in OpenCommandStatus
    <3>1. ASSUME NEW d \in Commands, NEW s, AcknowledgeCommand(d, gatewayId, s)
          PROVE  /\ cmd[c].type = cmd'[c].type /\ cmd[c].mission = cmd'[c].mission
                 /\ cmd[c].status \in OpenCommandStatus
      <4>1. /\ cmd[d].status \in OpenCommandStatus
            /\ cmd' = [cmd EXCEPT ![d].status = s, ![d].gateway = gatewayId]
        BY <3>1 DEF AcknowledgeCommand, Acknowledgeable
      <4>2. cmd \in [Commands -> Command]
        BY DEF Inv, TypeOK
      <4> QED
        BY <1>0, <4>1, <4>2 DEF Command
    <3> QED
      BY <1>0, <2>1, <3>1
  <2>3. /\ cmd[c].mission \in Missions
        /\ mission[cmd[c].mission].claimedBy # NoGateway
    BY <1>0, <2>2 DEF Inv, CommandsOfTheHolder, TypeOK, Command, OpenCommandStatus
  <2>4. mission'[cmd[c].mission].claimedBy = mission[cmd[c].mission].claimedBy
    BY <2>3, HolderKept DEF Inv
  <2> QED
    BY <1>0, <2>2, <2>4 DEF Stranded
<1> QED
  BY <1>1, <1>2

(* Only a redeployment strands a START or an ARM.                          *)
THEOREM StrandedSafety == Spec => NoNewStranded
<1>1. Inv /\ [Next]_vars => [UNCHANGED gatewayId => Stranded' \subseteq Stranded]_vars
  BY StrandedStep
<1> QED
  BY <1>1, BackendInvariant, PTL DEF Spec, NoNewStranded

-------------------------------------------------------------------------------
(* What was once reported with a kept event_id is not undone: the mission  *)
(* never returns to a status before it.                                    *)

Earlier(s) ==
  CASE s = "UPLOADED"  -> {"UPLOADING"}
    [] s = "VERIFIED"  -> {"UPLOADING", "UPLOADED"}
    [] s = "EXECUTING" -> UploadStatus
    [] s = "COMPLETED" -> FlightStatus
    [] OTHER           -> {}

Passed ==
  \A m \in Missions : \A s \in reported[m] :
    mission[m].status \in ClaimedStatus \ Earlier(s)

LEMMA NeverBack ==
  ASSUME NEW t \in ClaimedStatus, NEW s \in GatewayTransitions[t], NEW r \in ClaimedStatus,
         t \notin Earlier(r)
  PROVE  s \in ClaimedStatus \ Earlier(r)
<1>1. t \in MissionStatus
  BY DEF MissionStatus
<1>2. s \in ClaimedStatus
  BY <1>1, TransitionsOfFlights
<1>3. s \notin Earlier(r)
  BY <1>1 DEF GatewayTransitions, Earlier, ClaimedStatus, FlightStatus, UploadStatus,
              AirborneStatus, EndStatus
<1> QED
  BY <1>2, <1>3

LEMMA PassedInit == Init => Passed
BY DEF Init, Passed

LEMMA PassedStep ==
  ASSUME TypeOK, Passed, [Next]_vars
  PROVE  Passed'
<1> SUFFICES ASSUME NEW m \in Missions, NEW r \in reported'[m]
             PROVE  mission'[m].status \in ClaimedStatus \ Earlier(r)
  BY DEF Passed
<1> DEFINE Goal == mission'[m].status \in ClaimedStatus \ Earlier(r)
<1>1. ASSUME r \in reported[m], mission'[m].status = mission[m].status PROVE Goal
  BY <1>1 DEF Passed
<1>2. ASSUME NEW n \in Missions, NEW g, NEW s \in MissionStatus, NEW kept \in BOOLEAN,
             ReportApplied(n, g, s, kept)
      PROVE  Goal
  <2>1. s \in GatewayTransitions[mission[n].status] /\ mission[n].status \in ClaimedStatus
    BY <1>2, TransitionsOfFlights DEF ReportApplied, TypeOK, Mission, ClaimedStatus
  <2>2. s \in ClaimedStatus /\ s \notin Earlier(s)
    BY <2>1, NeverBack DEF Earlier, ClaimedStatus, FlightStatus, UploadStatus, AirborneStatus,
                           EndStatus
  <2>3. /\ mission'[m].status = IF m = n THEN s ELSE mission[m].status
        /\ r \in reported[m] \/ (m = n /\ r = s)
    BY <1>2 DEF ReportApplied, Record, TypeOK, Mission
  <2>4. CASE m = n /\ r \in reported[m]
    <3>1. r \in ClaimedStatus
      BY <2>4, BodyAssumption DEF TypeOK
    <3>2. mission[m].status \notin Earlier(r)
      BY <2>4 DEF Passed
    <3> QED
      BY <2>1, <2>3, <2>4, <3>1, <3>2, NeverBack
  <2> QED
    BY <1>1, <2>2, <2>3, <2>4
<1>3. ASSUME NEW n \in Missions, NEW g, NEW s \in MissionStatus, ReportRecorded(n, g, s)
      PROVE  Goal
  <2>1. /\ mission' = mission /\ s = mission[n].status /\ s \in ClaimedStatus
        /\ r \in reported[m] \/ (m = n /\ r = s)
    BY <1>3, BodyAssumption DEF ReportRecorded, Record, Answerable, TypeOK
  <2>2. s \notin Earlier(s)
    BY <2>1 DEF Earlier, ClaimedStatus, FlightStatus, UploadStatus, AirborneStatus, EndStatus
  <2> QED
    BY <1>1, <2>1, <2>2
<1>4. ASSUME reported' = reported, NEW n \in Missions, mission[n].status \notin ClaimedStatus,
             \A k \in Missions : k # n => mission'[k].status = mission[k].status
      PROVE  Goal
  BY <1>1, <1>4 DEF Passed
<1>5. CASE OrderStep \/ CommandStep \/ ClockStep
  <2> reported' = reported /\ mission' = mission
    BY <1>5 DEF OrderStep, SubmitOrder, CancelOrder, ApproveOrder, RejectOrder, MoveOrder,
                CommandStep, RequestSafetyAction, RequestStart, RequestArm, RequestCommand,
                RequestAbort, ClockStep, TtlElapses, HealthGoesStale
  <2> QED
    BY <1>1
<1>6. CASE PlanningStep \/ ExportStep
  <2>1. PICK n \in Missions :
          Planned(n) \/ \E v \in Vehicles, a \in Authorizations : AuthorizeFlight(n, v, a)
    BY <1>6 DEF PlanningStep, ExportStep, Planned
  <2>2. mission[n].status \in PlanningStatus \cup {"NONE"} /\ reported' = reported
    BY <2>1 DEF Planned, PrepareMission, ExportMission, MarkUnderReview, MarkReviewed,
                AuthorizeFlight, PlanningStatus
  <2>3. \A k \in Missions : k # n => mission'[k].status = mission[k].status
    BY <2>1 DEF Planned, PrepareMission, ExportMission, MarkUnderReview, MarkReviewed,
                AuthorizeFlight, TypeOK
  <2> QED
    BY <1>4, <2>2, <2>3 DEF PlanningStatus, ClaimedStatus, FlightStatus, UploadStatus,
                            AirborneStatus, EndStatus
<1>7. CASE GatewayStep \/ ListingStep
  <2>1. ASSUME NEW v, NEW p, NEW after, Heartbeat(v, p, after) PROVE Goal
    BY <1>1, <2>1 DEF Heartbeat
  <2>2. ASSUME NEW n \in Missions, NEW g, NEW a \in Authorizations,
               ExpireListed(n, a) \/ ClaimExpired(n, g, a) \/ ClaimUnfit(n, g, a)
               \/ ClaimAccepted(n, g, a)
        PROVE  Goal
    <3>1. mission[n].status = "AUTHORIZED" /\ reported' = reported
      BY <2>2 DEF ExpireListed, ClaimExpired, ClaimUnfit, ClaimAccepted, Claimable, Invalidate
    <3>2. \A k \in Missions : k # n => mission'[k].status = mission[k].status
      BY <2>2 DEF ExpireListed, ClaimExpired, ClaimUnfit, ClaimAccepted, Invalidate, TypeOK
    <3> QED
      BY <1>4, <3>1, <3>2 DEF ClaimedStatus, FlightStatus, UploadStatus, AirborneStatus,
                              EndStatus
  <2>3. ASSUME NEW c, NEW g, NEW s, AcknowledgeCommand(c, g, s) PROVE Goal
    BY <1>1, <2>3 DEF AcknowledgeCommand
  <2> QED
    BY <1>2, <1>3, <1>7, <2>1, <2>2, <2>3 DEF GatewayStep, ListingStep
<1>8. CASE Redeploy \/ UNCHANGED vars
  BY <1>1, <1>8 DEF Redeploy, vars, rows
<1> QED
  BY <1>5, <1>6, <1>7, <1>8 DEF Next, LoopStep

-------------------------------------------------------------------------------
(* The lifecycle.                                                          *)

Holder == [m \in Missions |-> mission[m].claimedBy]

FitVehicles == {v \in Vehicles : Fit(v)}

(* The stage of a mission in status s, the state of a permit in status s.  *)
StageOf(s) ==
  CASE s = "AUTHORIZED"    -> "permitted"
    [] s \in FlightStatus  -> "flying"
    [] s \in EndStatus     -> "ended"
    [] OTHER               -> "ground"

PermitOf(s, late) ==
  CASE s = "NONE"     -> "blank"
    [] s = "ACTIVE"   -> IF late THEN "lapsed" ELSE "valid"
    [] s = "CONSUMED" -> "used"
    [] OTHER          -> "void"

LEMMA StageValues ==
  /\ StageOf("AUTHORIZED") = "permitted"
  /\ \A s \in FlightStatus : StageOf(s) = "flying"
  /\ \A s \in EndStatus : StageOf(s) = "ended"
  /\ \A s \in {"NONE"} \cup PlanningStatus : StageOf(s) = "ground"
BY DEF StageOf, FlightStatus, UploadStatus, AirborneStatus, EndStatus, PlanningStatus

LEMMA PermitValues ==
  /\ PermitOf("ACTIVE", FALSE) = "valid"
  /\ PermitOf("ACTIVE", TRUE) = "lapsed"
  /\ \A late \in BOOLEAN :
       /\ PermitOf("NONE", late) = "blank"
       /\ PermitOf("CONSUMED", late) = "used"
       /\ PermitOf("EXPIRED", late) = "void"
       /\ PermitOf("REVOKED", late) = "void"
BY DEF PermitOf

LEMMA Mapping ==
  /\ LifecycleStage = [m \in Missions |-> StageOf(mission[m].status)]
  /\ LifecyclePermit = [a \in Authorizations |->
       [mission |-> auth[a].mission, state |-> PermitOf(auth[a].status, auth[a].expired)]]
  /\ LifecycleStage' = [m \in Missions |-> StageOf(mission'[m].status)]
  /\ LifecyclePermit' = [a \in Authorizations |->
       [mission |-> auth'[a].mission, state |-> PermitOf(auth'[a].status, auth'[a].expired)]]
BY DEF LifecycleStage, LifecyclePermit, StageOf, PermitOf

LEMMA SameHealth ==
  ASSUME health' = health
  PROVE  FitVehicles' = FitVehicles
BY DEF FitVehicles, Fit, Sound

LEMMA LifecycleInit == Init => Lifecycle!Init
<1> SUFFICES ASSUME Init PROVE Lifecycle!Init
  OBVIOUS
<1>1. {v \in Vehicles : Fit(v)} = {}
  BY DEF Init, Fit, Sound
<1> QED
  BY <1>1, Mapping, StageValues, PermitValues DEF Init, Lifecycle!Init, LifecycleCraft

LEMMA LifecycleStep ==
  ASSUME Inv, [Next]_vars
  PROVE  [Lifecycle!Next]_(Lifecycle!vars)
<1> USE DEF TypeOK
<1> DEFINE SameFlights == UNCHANGED <<LifecycleStage, Holder, LifecycleCraft>>
           Stutter == SameFlights /\ UNCHANGED <<LifecyclePermit, FitVehicles>>
<1>0. ASSUME \A m \in Missions : /\ StageOf(mission'[m].status) = StageOf(mission[m].status)
                                 /\ mission'[m].claimedBy = mission[m].claimedBy
                                 /\ mission'[m].vehicle = mission[m].vehicle
      PROVE  SameFlights
  BY <1>0, Mapping DEF Holder, LifecycleCraft
<1>a. ASSUME auth' = auth
      PROVE  UNCHANGED LifecyclePermit
  BY <1>a, Mapping
<1>b. ASSUME \A m \in Missions : /\ StageOf(mission'[m].status) = StageOf(mission[m].status)
                                 /\ mission'[m].claimedBy = mission[m].claimedBy
                                 /\ mission'[m].vehicle = mission[m].vehicle,
             auth' = auth, health' = health
      PROVE  Stutter
  BY <1>0, <1>a, <1>b, SameHealth
<1> HIDE DEF Stutter, SameFlights
<1>1. ASSUME Quiet
      PROVE  \/ Stutter \/ Lifecycle!Inspect
             \/ \E a \in Authorizations : Lifecycle!Lapse(a)
  <2>1. SameFlights
    BY <1>0, <1>1 DEF Quiet
  <2>2. CASE auth' = auth
    <3>1. FitVehicles' \in SUBSET Vehicles
      BY DEF FitVehicles
    <3> QED
      BY <1>a, <2>1, <2>2, <3>1 DEF SameFlights, Lifecycle!Inspect, Holder, FitVehicles
  <2>3. ASSUME health' = health, NEW a \in Authorizations, TtlElapses(a)
        PROVE  Stutter \/ Lifecycle!Lapse(a)
    <3>1. auth' = [auth EXCEPT ![a].expired = TRUE] /\ ~auth[a].expired
      BY <2>3 DEF TtlElapses
    <3>2. CASE auth[a].status = "ACTIVE"
      <4>1. LifecyclePermit[a].state = "valid"
        BY <3>1, <3>2, Mapping, PermitValues DEF Inv, Authorization
      <4>2. LifecyclePermit' = [LifecyclePermit EXCEPT ![a].state = "lapsed"]
        BY <3>1, <3>2, Mapping, PermitValues DEF Inv, Authorization
      <4> QED
        BY <2>1, <2>3, <4>1, <4>2, SameHealth
        DEF SameFlights, Lifecycle!Lapse, Holder, FitVehicles
    <3>3. CASE auth[a].status = "CONSUMED"
      <4>1. LifecyclePermit' = LifecyclePermit
        BY <3>1, <3>3, Mapping, PermitValues DEF Inv, Authorization
      <4> QED
        BY <2>1, <2>3, <4>1, SameHealth DEF Stutter
    <3> QED
      BY <2>3, <3>2, <3>3 DEF TtlElapses
  <2> QED
    BY <1>1, <2>2, <2>3 DEF Quiet
<1>2. ASSUME OrderStep PROVE Stutter
  BY <1>b, <1>2 DEF OrderStep, SubmitOrder, CancelOrder, ApproveOrder, RejectOrder, MoveOrder
<1>3. ASSUME NEW m \in Missions, Planned(m)
      PROVE  Stutter
  <2>1. PICK s \in PlanningStatus : mission' = [mission EXCEPT ![m].status = s]
    BY <1>3 DEF Planned, PrepareMission, ExportMission, MarkUnderReview, MarkReviewed,
                PlanningStatus
  <2>2. /\ mission[m].status \in {"NONE"} \cup PlanningStatus
        /\ auth' = auth /\ health' = health
    BY <1>3 DEF Planned, PrepareMission, ExportMission, MarkUnderReview, MarkReviewed,
                PlanningStatus
  <2> QED
    BY <1>b, <2>1, <2>2, StageValues DEF Inv, Mission
<1>4. ASSUME NEW m \in Missions, NEW v \in Vehicles, NEW a \in Authorizations,
             AuthorizeFlight(m, v, a)
      PROVE  Lifecycle!Issue(m, v, a)
  <2>1. LifecycleStage[m] = "ground" /\ LifecyclePermit[a].state = "blank"
    BY <1>4, Mapping, StageValues, PermitValues
    DEF AuthorizeFlight, PlanningStatus, Inv, Authorization
  <2>2. LifecycleStage' = [LifecycleStage EXCEPT ![m] = "permitted"]
    BY <1>4, Mapping, StageValues DEF AuthorizeFlight, Inv, Mission
  <2>3. LifecyclePermit' = [LifecyclePermit EXCEPT ![a] = [mission |-> m, state |-> "valid"]]
    BY <1>4, Mapping, PermitValues DEF AuthorizeFlight, Inv, Authorization
  <2>4. Holder' = Holder
    BY <1>4 DEF AuthorizeFlight, Holder, Inv, Mission
  <2>5. LifecycleCraft' = [LifecycleCraft EXCEPT ![m] = v]
    BY <1>4 DEF AuthorizeFlight, LifecycleCraft, Inv, Mission
  <2>6. v \in FitVehicles /\ FitVehicles' = FitVehicles
    BY <1>4, SameHealth DEF AuthorizeFlight, FitVehicles
  <2> QED
    BY <2>1, <2>2, <2>3, <2>4, <2>5, <2>6 DEF Lifecycle!Issue, Holder, FitVehicles
<1>5. ASSUME NEW m \in Missions, NEW a \in Authorizations, Withdrawn(m, a)
      PROVE  Lifecycle!Withdraw(m, a)
  <2>1. /\ LifecycleStage[m] = "permitted"
        /\ LifecyclePermit[a].mission = m
        /\ LifecyclePermit[a].state \in {"valid", "lapsed"}
    BY <1>5, Mapping, StageValues, PermitValues
    DEF Withdrawn, ActiveAuthorizations, WithStatus, Inv, Authorization
  <2>2. LifecycleStage' = [LifecycleStage EXCEPT ![m] = "ground"]
    <3>1. mission' = [mission EXCEPT ![m].status = "READY_FOR_AUTHORIZATION"]
      BY <1>5 DEF Withdrawn, Invalidate
    <3>2. "READY_FOR_AUTHORIZATION" \in PlanningStatus
      BY DEF PlanningStatus
    <3> QED
      BY <3>1, <3>2, Mapping, StageValues DEF Inv, Mission
  <2>3. PICK s \in {"EXPIRED", "REVOKED"} : auth' = [auth EXCEPT ![a].status = s]
    BY <1>5 DEF Withdrawn, Invalidate
  <2>4. LifecyclePermit' = [LifecyclePermit EXCEPT ![a].state = "void"]
    BY <2>3, Mapping, PermitValues DEF Inv, Authorization
  <2>5. Holder' = Holder /\ LifecycleCraft' = LifecycleCraft
    BY <1>5 DEF Withdrawn, Invalidate, Holder, LifecycleCraft, Inv, Mission
  <2>6. FitVehicles' = FitVehicles
    BY <1>5, SameHealth DEF Withdrawn, Invalidate
  <2> QED
    BY <2>1, <2>2, <2>4, <2>5, <2>6 DEF Lifecycle!Withdraw, Holder, FitVehicles
<1>6. ASSUME NEW m \in Missions, NEW g \in Gateways, NEW a \in Authorizations,
             ClaimAccepted(m, g, a)
      PROVE  Lifecycle!Take(m, a)
  <2>1. /\ LifecycleStage[m] = "permitted"
        /\ LifecyclePermit[a] = [mission |-> m, state |-> "valid"]
    BY <1>6, Mapping, StageValues, PermitValues
    DEF ClaimAccepted, Claimable, ActiveAuthorizations, WithStatus, Inv, Authorization
  <2>2. LifecycleStage' = [LifecycleStage EXCEPT ![m] = "flying"]
    BY <1>6, Mapping, StageValues
    DEF ClaimAccepted, Inv, Mission, FlightStatus, UploadStatus
  <2>3. LifecyclePermit' = [LifecyclePermit EXCEPT ![a].state = "used"]
    BY <1>6, Mapping, PermitValues DEF ClaimAccepted, Inv, Authorization
  <2>4. mission[m].vehicle \in Vehicles /\ GatewayOf[mission[m].vehicle] = g
    BY <1>6 DEF ClaimAccepted, Claimable, Inv, Mission
  <2>5. Holder' = [Holder EXCEPT ![m] = g] /\ LifecycleCraft' = LifecycleCraft
    BY <1>6 DEF ClaimAccepted, Holder, LifecycleCraft, Inv, Mission
  <2>6. LifecycleCraft[m] = mission[m].vehicle
    BY DEF LifecycleCraft
  <2>7. LifecycleCraft[m] \in FitVehicles /\ FitVehicles' = FitVehicles
    BY <1>6, <2>4, <2>6, SameHealth DEF ClaimAccepted, FitVehicles
  <2> QED
    BY <2>1, <2>2, <2>3, <2>4, <2>5, <2>6, <2>7 DEF Lifecycle!Take, Holder, FitVehicles
<1>7. ASSUME NEW m \in Missions, NEW g \in Gateways, NEW s \in MissionStatus,
             NEW kept \in BOOLEAN, ReportApplied(m, g, s, kept)
      PROVE  Stutter \/ Lifecycle!End(m)
  <2>1. /\ mission[m].status \in FlightStatus /\ s \in ClaimedStatus
        /\ mission' = [mission EXCEPT ![m].status = s]
        /\ auth' = auth /\ health' = health
    BY <1>7, TransitionsOfFlights DEF ReportApplied, Inv, Mission
  <2>2. CASE s \in FlightStatus
    BY <1>b, <2>1, <2>2, StageValues DEF Inv, Mission
  <2>3. CASE s \in EndStatus
    <3>1. LifecycleStage[m] = "flying"
      BY <2>1, Mapping, StageValues
    <3>2. LifecycleStage' = [LifecycleStage EXCEPT ![m] = "ended"]
      BY <2>1, <2>3, Mapping, StageValues DEF Inv, Mission
    <3>3. /\ Holder' = Holder /\ LifecycleCraft' = LifecycleCraft
          /\ LifecyclePermit' = LifecyclePermit
      BY <2>1, Mapping DEF Holder, LifecycleCraft, Inv, Mission
    <3>4. FitVehicles' = FitVehicles
      BY <2>1, SameHealth
    <3> QED
      BY <3>1, <3>2, <3>3, <3>4 DEF Lifecycle!End, Holder, FitVehicles
  <2> QED
    BY <2>1, <2>2, <2>3 DEF ClaimedStatus
<1>8. ASSUME NEW m, NEW k, NEW c, NEW g, NEW s,
             Asked(m, k, c) \/ AcknowledgeCommand(c, g, s)
      PROVE  Stutter
  BY <1>b, <1>8 DEF Asked, RequestCommand, RequestAbort, AcknowledgeCommand
<1> HIDE DEF TypeOK
<1>9. \/ Stutter \/ Lifecycle!Inspect
      \/ \E a \in Authorizations : Lifecycle!Lapse(a)
      \/ \E m \in Missions :
           \/ Lifecycle!End(m)
           \/ \E a \in Authorizations :
                \/ \E v \in Vehicles : Lifecycle!Issue(m, v, a)
                \/ Lifecycle!Withdraw(m, a)
                \/ Lifecycle!Take(m, a)
  BY StepKinds, <1>1, <1>2, <1>3, <1>4, <1>5, <1>6, <1>7, <1>8 DEF StepKind, Inv
<1> QED
  BY <1>9 DEF Stutter, SameFlights, Lifecycle!Next, Lifecycle!vars, Holder, FitVehicles

(* No sequence of calls flies a mission twice, on a permit not its own or  *)
(* over its time, or on a vehicle that is not fit.                         *)
THEOREM LifecycleRefinement == Spec => ImplementsLifecycle
<1>1. Init => Lifecycle!Init
  BY LifecycleInit
<1>2. Inv /\ [Next]_vars => [Lifecycle!Next]_(Lifecycle!vars)
  BY LifecycleStep
<1> QED
  BY <1>1, <1>2, BackendInvariant, PTL DEF Spec, ImplementsLifecycle, Lifecycle!Spec

-------------------------------------------------------------------------------
(* The handlers in threads.  What a thread holds is a row that exists, and *)
(* keeps existing.                                                         *)

HeldRow(t) ==
  /\ pool[t].doing = "list" =>
       /\ auth[pool[t].auth].status # "NONE"
       /\ auth[pool[t].auth].mission \in Missions
       /\ mission[auth[pool[t].auth].mission].status # "NONE"
  /\ pool[t].doing = "export" => mission[pool[t].mission].status # "NONE"

PoolInv ==
  /\ pool \in [Threads -> Request]
  /\ \A t \in Threads : HeldRow(t)

(* Rows that were inserted stay, whoever writes.                           *)
RowsStay ==
  /\ \A m \in Missions : mission[m].status # "NONE" => mission'[m].status # "NONE"
  /\ \A a \in Authorizations : auth[a].status # "NONE" =>
       auth'[a].status # "NONE" /\ auth'[a].mission = auth[a].mission

LEMMA RequestFields ==
  ASSUME NEW r \in Request
  PROVE  /\ r.doing \in {"nothing", "list", "export"}
         /\ r.doing = "list" => r.auth \in Authorizations
         /\ r.doing = "export" => r.mission \in Missions
BY DEF Request, Idle

LEMMA NextRowsStay ==
  ASSUME TypeOK, [Next]_vars
  PROVE  RowsStay
<1> USE DEF TypeOK
<1>1. CASE Quiet \/ OrderStep
  BY <1>1 DEF Quiet, OrderStep, SubmitOrder, CancelOrder, ApproveOrder, RejectOrder, MoveOrder,
              RowsStay
<1>2. ASSUME NEW m \in Missions, Planned(m)
      PROVE  RowsStay
  <2>1. PICK s \in PlanningStatus : mission' = [mission EXCEPT ![m].status = s]
    BY <1>2 DEF Planned, PrepareMission, ExportMission, MarkUnderReview, MarkReviewed,
                PlanningStatus
  <2>2. auth' = auth
    BY <1>2 DEF Planned, PrepareMission, ExportMission, MarkUnderReview, MarkReviewed
  <2>3. s # "NONE"
    BY DEF PlanningStatus
  <2> QED
    BY <2>1, <2>2, <2>3 DEF RowsStay, Mission
<1>3. ASSUME NEW m \in Missions, NEW v \in Vehicles, NEW a \in Authorizations,
             AuthorizeFlight(m, v, a)
      PROVE  RowsStay
  <2>1. \A n \in Missions : mission[n].status # "NONE" => mission'[n].status # "NONE"
    BY <1>3 DEF AuthorizeFlight, Mission
  <2> QED
    BY <1>3, <2>1 DEF AuthorizeFlight, RowsStay
<1>4. ASSUME NEW m \in Missions, NEW a \in Authorizations, Withdrawn(m, a)
      PROVE  RowsStay
  BY <1>4 DEF Withdrawn, Invalidate, Authorization, RowsStay
<1>5. ASSUME NEW m \in Missions, NEW g \in Gateways, NEW a \in Authorizations,
             ClaimAccepted(m, g, a)
      PROVE  RowsStay
  <2>1. \A n \in Missions : mission[n].status # "NONE" => mission'[n].status # "NONE"
    BY <1>5 DEF ClaimAccepted, Mission
  <2>2. \A b \in Authorizations : auth[b].status # "NONE" =>
          auth'[b].status # "NONE" /\ auth'[b].mission = auth[b].mission
    BY <1>5 DEF ClaimAccepted, Authorization
  <2> QED
    BY <2>1, <2>2 DEF RowsStay
<1>6. ASSUME NEW m \in Missions, NEW g \in Gateways, NEW s \in MissionStatus,
             NEW kept \in BOOLEAN, ReportApplied(m, g, s, kept)
      PROVE  RowsStay
  <2>1. s # "NONE"
    BY <1>6, TransitionsOfFlights
    DEF ReportApplied, Mission, ClaimedStatus, FlightStatus, UploadStatus, AirborneStatus,
        EndStatus
  <2> QED
    BY <1>6, <2>1 DEF ReportApplied, RowsStay
<1>7. ASSUME NEW m, NEW k, NEW c, NEW g, NEW s,
             Asked(m, k, c) \/ AcknowledgeCommand(c, g, s)
      PROVE  RowsStay
  BY <1>7 DEF Asked, RequestCommand, RequestAbort, AcknowledgeCommand, RowsStay
<1> HIDE DEF TypeOK
<1> QED
  BY StepKinds, <1>1, <1>2, <1>3, <1>4, <1>5, <1>6, <1>7 DEF StepKind

(* The steps of the threaded backend, as the rows see them.                *)
LEMMA ThreadedKinds ==
  ASSUME TypeOK, PoolInv, [ThreadedNext]_threadedVars
  PROVE  \/ [Next]_vars
         \/ /\ gatewayId' = gatewayId
            /\ \/ \E m \in Missions, a \in Authorizations :
                    /\ auth[a].status # "NONE" /\ mission[m].status # "NONE"
                    /\ Invalidate(m, a, "EXPIRED")
               \/ \E m \in Missions :
                    /\ mission[m].status # "NONE"
                    /\ mission' = [mission EXCEPT ![m].status = "EXPORTED_TO_MISSION_PLANNER"]
                    /\ UNCHANGED <<order, auth, cmd, reported, health>>
<1>1. CASE (LoopStep /\ UNCHANGED <<gatewayId, pool>>) \/ Redeploy
  BY <1>1 DEF Next
<1>2. CASE UNCHANGED threadedVars
  BY <1>2 DEF threadedVars
<1>3. ASSUME NEW t \in Threads, NEW m \in Missions,
             ExportRead(t, m) \/ \E a \in Authorizations : ListRead(t, m, a)
      PROVE  UNCHANGED vars
  BY <1>3 DEF ListRead, ExportRead
<1>4. ASSUME NEW t \in Threads, ListWrite(t)
      PROVE  \/ UNCHANGED vars
             \/ /\ gatewayId' = gatewayId
                /\ \E m \in Missions, a \in Authorizations :
                     /\ auth[a].status # "NONE" /\ mission[m].status # "NONE"
                     /\ Invalidate(m, a, "EXPIRED")
  <2>1. pool[t].doing = "list" /\ pool[t].auth \in Authorizations /\ HeldRow(t)
    BY <1>4, RequestFields DEF ListWrite, PoolInv
  <2> QED
    BY <1>4, <2>1 DEF ListWrite, HeldRow, vars
<1>5. ASSUME NEW t \in Threads, ExportWrite(t)
      PROVE  /\ gatewayId' = gatewayId
             /\ \E m \in Missions :
                  /\ mission[m].status # "NONE"
                  /\ mission' = [mission EXCEPT ![m].status = "EXPORTED_TO_MISSION_PLANNER"]
                  /\ UNCHANGED <<order, auth, cmd, reported, health>>
  <2>1. pool[t].doing = "export" /\ pool[t].mission \in Missions /\ HeldRow(t)
    BY <1>5, RequestFields DEF ExportWrite, PoolInv
  <2> QED
    BY <1>5, <2>1 DEF ExportWrite, HeldRow
<1> QED
  BY <1>1, <1>2, <1>3, <1>4, <1>5 DEF ThreadedNext, ThreadStep

(* What survives any overtaking: types, held rows, orders with a mission.  *)
ThreadedInv == TypeOK /\ OrdersTaken /\ PoolInv

LEMMA ThreadedInit1 == ThreadedInit => ThreadedInv
<1> SUFFICES ASSUME ThreadedInit PROVE ThreadedInv
  OBVIOUS
<1>1. Init /\ pool = [t \in Threads |-> Idle]
  BY DEF ThreadedInit
<1>2. OrdersTaken
  BY <1>1 DEF Init, OrdersTaken
<1>3. PoolInv
  <2>1. pool \in [Threads -> Request]
    BY <1>1 DEF Request
  <2>2. ASSUME NEW t \in Threads PROVE pool[t].doing = "nothing"
    BY <1>1 DEF Idle
  <2> QED
    BY <2>1, <2>2 DEF PoolInv, HeldRow
<1> QED
  BY <1>1, <1>2, <1>3, TypeInit DEF ThreadedInv

LEMMA ThreadedRowsStay ==
  ASSUME TypeOK, PoolInv, [ThreadedNext]_threadedVars
  PROVE  RowsStay
<1>1. ASSUME NEW m \in Missions, NEW a \in Authorizations, Invalidate(m, a, "EXPIRED")
      PROVE  RowsStay
  BY <1>1 DEF Invalidate, RowsStay, TypeOK, Mission, Authorization
<1>2. ASSUME NEW m \in Missions, auth' = auth,
             mission' = [mission EXCEPT ![m].status = "EXPORTED_TO_MISSION_PLANNER"]
      PROVE  RowsStay
  BY <1>2 DEF RowsStay, TypeOK, Mission
<1> QED
  BY ThreadedKinds, NextRowsStay, <1>1, <1>2

LEMMA PoolStep ==
  ASSUME TypeOK, PoolInv, [ThreadedNext]_threadedVars
  PROVE  PoolInv'
<1>0. RowsStay /\ TypeOK
  BY ThreadedRowsStay
<1>1. ASSUME NEW t \in Threads, pool'[t] = pool[t]
      PROVE  HeldRow(t)'
  <2>1. pool[t] \in Request /\ HeldRow(t)
    BY DEF PoolInv
  <2> QED
    BY <1>0, <1>1, <2>1, RequestFields DEF HeldRow, RowsStay
<1>2. ASSUME NEW t \in Threads, pool'[t] = Idle
      PROVE  HeldRow(t)'
  BY <1>2 DEF HeldRow, Idle
<1>3. CASE pool' = pool
  BY <1>1, <1>3 DEF PoolInv
<1>4. CASE pool' = [t \in Threads |-> Idle]
  BY <1>2, <1>4 DEF PoolInv, Request
<1>5. ASSUME NEW t \in Threads, NEW r \in Request, Hold(t, r), r = Idle \/ HeldRow(t)'
      PROVE  PoolInv'
  <2>1. pool' \in [Threads -> Request]
    BY <1>5 DEF Hold, PoolInv
  <2>2. \A u \in Threads : pool'[u] = IF u = t THEN r ELSE pool[u]
    BY <1>5 DEF Hold, PoolInv
  <2> QED
    BY <1>1, <1>2, <1>5, <2>1, <2>2 DEF PoolInv
<1>6. ASSUME NEW t \in Threads, NEW m \in Missions, NEW a \in Authorizations, ListRead(t, m, a)
      PROVE  PoolInv'
  <2> DEFINE r == [doing |-> "list", auth |-> a]
  <2>1. r \in Request /\ Hold(t, r) /\ mission' = mission /\ auth' = auth
    BY <1>6 DEF ListRead, Request, vars, rows
  <2>2. pool'[t] = r
    BY <2>1 DEF Hold, PoolInv
  <2>3. HeldRow(t)'
    BY <1>6, <2>1, <2>2 DEF HeldRow, ListRead, ActiveAuthorizations, WithStatus
  <2> QED
    BY <1>5, <2>1, <2>3
<1>7. ASSUME NEW t \in Threads, NEW m \in Missions, ExportRead(t, m)
      PROVE  PoolInv'
  <2> DEFINE r == [doing |-> "export", mission |-> m]
  <2>1. r \in Request /\ Hold(t, r) /\ mission' = mission
    BY <1>7 DEF ExportRead, Request, vars, rows
  <2>2. pool'[t] = r
    BY <2>1 DEF Hold, PoolInv
  <2>3. HeldRow(t)'
    BY <1>7, <2>1, <2>2 DEF HeldRow, ExportRead
  <2> QED
    BY <1>5, <2>1, <2>3
<1>8. ASSUME NEW t \in Threads, ListWrite(t) \/ ExportWrite(t)
      PROVE  PoolInv'
  BY <1>5, <1>8 DEF ListWrite, ExportWrite, Request
<1> QED
  BY <1>3, <1>4, <1>6, <1>7, <1>8 DEF ThreadedNext, ThreadStep, threadedVars

LEMMA OrdersTakenStep ==
  ASSUME TypeOK, OrdersTaken, [Next]_vars
  PROVE  OrdersTaken'
<1> USE DEF TypeOK, OrdersTaken
<1>1. CASE Quiet
  BY <1>1 DEF Quiet
<1>2. CASE OrderStep
  <2> PICK m \in Missions :
        SubmitOrder(m) \/ CancelOrder(m) \/ ApproveOrder(m) \/ RejectOrder(m)
    BY <1>2 DEF OrderStep
  <2> QED
    BY DEF SubmitOrder, CancelOrder, ApproveOrder, RejectOrder, MoveOrder
<1>3. ASSUME NEW m \in Missions, Planned(m)
      PROVE  OrdersTaken'
  BY <1>3 DEF Planned, PrepareMission, ExportMission, MarkUnderReview, MarkReviewed
<1>4. ASSUME NEW m \in Missions, NEW v \in Vehicles, NEW a \in Authorizations,
             AuthorizeFlight(m, v, a)
      PROVE  OrdersTaken'
  BY <1>4 DEF AuthorizeFlight, Mission
<1>5. ASSUME NEW m \in Missions, NEW a \in Authorizations, Withdrawn(m, a)
      PROVE  OrdersTaken'
  BY <1>5 DEF Withdrawn, Invalidate
<1>6. ASSUME NEW m \in Missions, NEW g \in Gateways, NEW a \in Authorizations,
             ClaimAccepted(m, g, a)
      PROVE  OrdersTaken'
  BY <1>6 DEF ClaimAccepted, Claimable, Mission
<1>7. ASSUME NEW m \in Missions, NEW g \in Gateways, NEW s \in MissionStatus,
             NEW kept \in BOOLEAN, ReportApplied(m, g, s, kept)
      PROVE  OrdersTaken'
  <2>1. mission[m].status \in FlightStatus /\ s \in ClaimedStatus
    BY <1>7, TransitionsOfFlights DEF ReportApplied, Mission
  <2>2. mission[m].status # "NONE"
    BY <2>1 DEF FlightStatus, UploadStatus, AirborneStatus
  <2>3. s # "PAUSED" =>
          OrderStatusFromMission[s] \notin {"DRAFT", "PENDING_ADMIN_APPROVAL"}
    BY <2>1 DEF OrderStatusFromMission, ClaimedStatus, FlightStatus, UploadStatus,
                AirborneStatus, EndStatus
  <2> QED
    BY <1>7, <2>2, <2>3 DEF ReportApplied
<1>8. ASSUME NEW m, NEW k, NEW c, NEW g, NEW s,
             Asked(m, k, c) \/ AcknowledgeCommand(c, g, s)
      PROVE  OrdersTaken'
  BY <1>8 DEF Asked, RequestCommand, RequestAbort, AcknowledgeCommand
<1> HIDE DEF TypeOK, OrdersTaken
<1> QED
  BY StepKinds, <1>1, <1>2, <1>3, <1>4, <1>5, <1>6, <1>7, <1>8 DEF StepKind

LEMMA ThreadedStep ==
  ASSUME ThreadedInv, [ThreadedNext]_threadedVars
  PROVE  ThreadedInv'
<1> USE DEF ThreadedInv
<1>1. ASSUME NEW m \in Missions, NEW a \in Authorizations, mission[m].status # "NONE",
             Invalidate(m, a, "EXPIRED"), gatewayId' = gatewayId
      PROVE  TypeOK' /\ OrdersTaken'
  BY <1>1, TypeInvalidate DEF Invalidate, OrdersTaken, TypeOK
<1>2. ASSUME NEW m \in Missions, mission[m].status # "NONE",
             mission' = [mission EXCEPT ![m].status = "EXPORTED_TO_MISSION_PLANNER"],
             UNCHANGED <<order, auth, cmd, reported, health, gatewayId>>
      PROVE  TypeOK' /\ OrdersTaken'
  BY <1>2, TypeExported DEF OrdersTaken, TypeOK
<1> QED
  BY ThreadedKinds, TypeStep, OrdersTakenStep, PoolStep, <1>1, <1>2

(* Also with a listing and an export overtaken in their threads: no step   *)
(* revives a command or an authorization, and no handler of the event loop *)
(* rewrites an end.                                                        *)
THEOREM EndedRowsWithThreads == ThreadedSpec => EndedRowsStay
<1>1. ASSUME ThreadedInv, [ThreadedNext]_threadedVars
      PROVE  [EndedRows]_vars
  <2>1. CASE [Next]_vars
    BY <1>1, <2>1, EndsStep DEF ThreadedInv, EndedRows
  <2>2. CASE gatewayId' = gatewayId /\ ~[Next]_vars
    <3>1. ~LoopStep
      BY <2>2 DEF Next
    <3>2. NothingRevived
      <4>1. ASSUME NEW m \in Missions, NEW a \in Authorizations, auth[a].status # "NONE",
                   Invalidate(m, a, "EXPIRED")
            PROVE  NothingRevived
        BY <1>1, <4>1 DEF Invalidate, NothingRevived, Ended, ThreadedInv, TypeOK, Authorization
      <4>2. ASSUME cmd' = cmd, auth' = auth
            PROVE  NothingRevived
        BY <4>2 DEF NothingRevived
      <4> QED
        BY <1>1, <2>2, <4>1, <4>2, ThreadedKinds DEF ThreadedInv
    <3> QED
      BY <3>1, <3>2 DEF EndedRows
  <2> QED
    BY <1>1, <2>1, <2>2, ThreadedKinds DEF ThreadedInv
<1>2. ThreadedInit => ThreadedInv
  BY ThreadedInit1
<1>3. ThreadedInv /\ [ThreadedNext]_threadedVars => ThreadedInv'
  BY ThreadedStep
<1> QED
  BY <1>1, <1>2, <1>3, PTL DEF ThreadedSpec, EndedRowsStay

(* The backend with its two handlers in threads is MissionBackend as long  *)
(* as neither writes over what has changed since it was read: all that is  *)
(* proved of Spec holds of it then.                                        *)
THEOREM IsolationSuffices == ThreadedSpec /\ [][Undisturbed]_threadedVars => Spec
<1>1. ASSUME Inv, PoolInv, [ThreadedNext]_threadedVars, [Undisturbed]_threadedVars
      PROVE  [Next]_vars
  <2>1. CASE UNCHANGED threadedVars
    BY <2>1 DEF threadedVars
  <2>2. CASE (LoopStep /\ UNCHANGED <<gatewayId, pool>>) \/ Redeploy
    BY <2>2 DEF Next
  <2>3. ASSUME NEW t \in Threads, NEW m \in Missions,
               ExportRead(t, m) \/ \E a \in Authorizations : ListRead(t, m, a)
        PROVE  UNCHANGED vars
    BY <2>3 DEF ListRead, ExportRead
  <2>4. ASSUME Undisturbed, NEW t \in Threads, ListWrite(t)
        PROVE  [Next]_vars
    <3> DEFINE a == pool[t].auth
               m == auth[a].mission
    <3>1. pool[t].doing = "list" /\ a \in Authorizations /\ m \in Missions
      BY <1>1, <2>4, RequestFields DEF ListWrite, PoolInv, HeldRow
    <3>2. CASE ~auth[a].expired
      BY <2>4, <3>2 DEF ListWrite, vars
    <3>3. CASE auth[a].expired
      <4>1. a \in WithStatus(m, "ACTIVE")
        BY <2>4, <3>1, <3>3 DEF Undisturbed, WithStatus
      <4>2. mission[m].status = "AUTHORIZED"
        BY <1>1, <3>1, <4>1 DEF Inv, OnePermissionPerFlight
      <4>3. ExpireListed(m, a) /\ gatewayId' = gatewayId
        BY <2>4, <3>3, <4>1, <4>2 DEF ListWrite, ExpireListed, ActiveAuthorizations
      <4> QED
        BY <3>1, <4>3 DEF Next, ListingStep
    <3> QED
      BY <3>2, <3>3
  <2>5. ASSUME Undisturbed, NEW t \in Threads, ExportWrite(t)
        PROVE  [Next]_vars
    <3>1. pool[t].doing = "export" /\ pool[t].mission \in Missions
      BY <1>1, <2>5, RequestFields DEF ExportWrite, PoolInv
    <3>2. ExportMission(pool[t].mission) /\ gatewayId' = gatewayId
      BY <2>5, <3>1 DEF Undisturbed, ExportWrite, ExportMission
    <3> QED
      BY <3>1, <3>2 DEF Next, ExportStep
  <2> QED
    BY <1>1, <2>1, <2>2, <2>3, <2>4, <2>5 DEF ThreadedNext, ThreadStep
<1>2. ThreadedInit => Init /\ Inv /\ PoolInv
  BY TypeInit, PermissionInit, HolderInit, OrderInit, OneOpenInit, ThreadedInit1
  DEF ThreadedInit, ThreadedInv, Inv
<1>3. Inv /\ [Next]_vars => Inv'
  BY TypeStep, PermissionStep, HolderStep, OrderFollowsStep, OneOpenStep DEF Inv
<1>4. Inv /\ PoolInv /\ [ThreadedNext]_threadedVars => PoolInv'
  BY PoolStep DEF Inv
<1> QED
  BY <1>1, <1>2, <1>3, <1>4, PTL DEF ThreadedSpec, Spec
==============================================================================
