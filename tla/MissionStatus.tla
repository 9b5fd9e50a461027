---------------------------- MODULE MissionStatus ----------------------------
(***************************************************************************)
(* The vocabulary of the delivery backend: the statuses of its rows and    *)
(* the two transition tables the mission service looks up.                 *)
(*                                                                         *)
(* Statuses are the strings of backend/app/core/enums.py.  "NONE" is the   *)
(* one value the program does not have: it stands for a row that does not  *)
(* exist yet (an order without mission, an authorization never issued, a   *)
(* command never requested).                                               *)
(***************************************************************************)

OrderStatus ==
  {"DRAFT", "PENDING_ADMIN_APPROVAL", "APPROVED", "REJECTED",
   "MISSION_PREPARING", "MISSION_READY", "WAITING_FLIGHT_AUTHORIZATION",
   "MISSION_UPLOADING", "IN_TRANSIT", "AT_DESTINATION", "DELIVERED",
   "RETURNING", "COMPLETED", "CANCELLED", "FAILED"}

(* Statuses a mission only leaves through the gateway's reports.           *)
UploadStatus == {"UPLOADING", "UPLOADED", "VERIFIED"}
AirborneStatus ==
  {"EXECUTING", "PAUSED", "DESTINATION_REACHED", "DELIVERY_CONFIRMED",
   "RETURNING"}
EndStatus == {"COMPLETED", "ABORTED", "FAILED"}
FlightStatus == UploadStatus \cup AirborneStatus
ClaimedStatus == FlightStatus \cup EndStatus

(* Statuses of a mission that is being planned on the ground.  DRAFT and   *)
(* PENDING_VALIDATION of the enumeration are never assigned.               *)
PlanningStatus ==
  {"GENERATED", "EXPORTED_TO_MISSION_PLANNER", "UNDER_REVIEW",
   "READY_FOR_AUTHORIZATION"}

MissionStatus ==
  {"NONE"} \cup PlanningStatus \cup {"AUTHORIZED"} \cup ClaimedStatus

AuthorizationStatus == {"NONE", "ACTIVE", "CONSUMED", "EXPIRED", "REVOKED"}

CommandType == {"ARM", "START", "PAUSE", "CONTINUE", "ABORT", "RTL"}
CommandStatus == {"NONE", "PENDING", "ACKNOWLEDGED", "COMPLETED", "FAILED"}
OpenCommandStatus == {"PENDING", "ACKNOWLEDGED"}

OperationalSource == {"UNKNOWN", "SIMULATION", "SITL", "HARDWARE_REAL"}
FlightSource == {"SITL", "HARDWARE_REAL"}

(* A refused or unknown source status has no successor: dict.get(_, set()) *)
GatewayTransitions ==
  [s \in MissionStatus |->
     CASE s = "UPLOADING" -> {"UPLOADED", "ABORTED", "FAILED"}
       [] s = "UPLOADED"  -> {"VERIFIED", "ABORTED", "FAILED"}
       [] s = "VERIFIED"  -> {"EXECUTING", "ABORTED", "FAILED"}
       [] s = "EXECUTING" ->
            {"PAUSED", "DESTINATION_REACHED", "RETURNING", "ABORTED", "FAILED"}
       [] s = "DESTINATION_REACHED" ->
            {"PAUSED", "DELIVERY_CONFIRMED", "RETURNING", "ABORTED", "FAILED"}
       [] s = "DELIVERY_CONFIRMED" ->
            {"PAUSED", "RETURNING", "ABORTED", "FAILED"}
       [] s = "RETURNING" -> {"PAUSED", "COMPLETED", "ABORTED", "FAILED"}
       [] s = "PAUSED" ->
            {"EXECUTING", "DESTINATION_REACHED", "DELIVERY_CONFIRMED",
             "RETURNING", "ABORTED", "FAILED"}
       [] OTHER -> {}]

(* PAUSED has no entry: a paused mission leaves its order where it was.    *)
OrderStatusFromMission ==
  [s \in ClaimedStatus \ {"PAUSED"} |->
     CASE s \in UploadStatus          -> "MISSION_UPLOADING"
       [] s = "EXECUTING"             -> "IN_TRANSIT"
       [] s = "DESTINATION_REACHED"   -> "AT_DESTINATION"
       [] s = "DELIVERY_CONFIRMED"    -> "DELIVERED"
       [] s = "RETURNING"             -> "RETURNING"
       [] s = "COMPLETED"             -> "COMPLETED"
       [] s \in {"ABORTED", "FAILED"} -> "FAILED"]

(* Mission statuses in which an administrator may request each command.    *)
AllowedStates ==
  [k \in CommandType |->
     CASE k \in {"ARM", "START"} -> {"VERIFIED"}
       [] k = "PAUSE"            -> AirborneStatus \ {"PAUSED"}
       [] k = "CONTINUE"         -> {"PAUSED"}
       [] k = "RTL"              -> AirborneStatus
       [] k = "ABORT"            -> FlightStatus]
==============================================================================
