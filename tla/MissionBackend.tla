---------------------------- MODULE MissionBackend ---------------------------
(***************************************************************************)
(* The authoritative side of a delivery: the rows the FastAPI backend      *)
(* keeps for orders, missions, flight authorizations, gateway commands and *)
(* vehicle health, and the handlers that change them                       *)
(* (backend/app/modules/{orders,missions,vehicles}/service.py).            *)
(*                                                                         *)
(* One action is one handler, from its first read to its commit: all but   *)
(* two of these are `async def' routes that never await before they        *)
(* commit and run on one event loop.  The listing of authorized missions   *)
(* and the export of a mission run in threads; here, as long as no other   *)
(* handler commits between their read and their write (ListingStep,        *)
(* ExportStep).  ThreadedHandlers takes them apart, and what holds here    *)
(* only under that condition is said at each property.  A handler that     *)
(* raises rolls back and one that answers a replay writes nothing: both    *)
(* are stuttering steps, so an action describes the calls that change a    *)
(* row.                                                                    *)
(*                                                                         *)
(* An order has at most one mission (unique order_id), so both are named   *)
(* by the same m \in Missions.  Rows that are inserted at run time         *)
(* (authorizations, commands) come from finite sets of row identities;     *)
(* a row still in status "NONE" has not been inserted.                     *)
(*                                                                         *)
(* Time enters only through what the handlers compare with the clock: an   *)
(* authorization outlives its TTL and a health snapshot goes stale by an   *)
(* action of their own, at any moment.                                     *)
(***************************************************************************)
EXTENDS MissionStatus

CONSTANTS
  Missions,          \* orders, each with its future mission
  Vehicles,          \* vehicles registered by a heartbeat
  Gateways,          \* gateway identities
  GatewayOf,         \* the gateway that registered each vehicle
  Authorizations,    \* row identities for flight authorizations
  Commands,          \* row identities for gateway commands
  HealthPosts,       \* bodies a gateway may post as a heartbeat
  KeptStatuses,      \* statuses gateways report with a kept event_id
  RequestTypes,      \* commands administrators ask for
  NoMission, NoVehicle, NoGateway

(* What health_failures and the arming rules tell apart in a heartbeat:    *)
(* linked is connected and heartbeat, nominal every other check but the    *)
(* armed flag (a null armed flag is armed = FALSE and nominal = FALSE),    *)
(* startGates the flight-command and mission-start gates together.         *)
HealthPost ==
  [source : OperationalSource, linked : BOOLEAN, nominal : BOOLEAN,
   armed : BOOLEAN, stabilize : BOOLEAN, startGates : BOOLEAN,
   armGate : BOOLEAN]

ASSUME NullAssumption ==
  /\ NoMission \notin Missions
  /\ NoVehicle \notin Vehicles
  /\ NoGateway \notin Gateways

ASSUME RegistrationAssumption == GatewayOf \in [Vehicles -> Gateways]

ASSUME BodyAssumption ==
  /\ HealthPosts \subseteq HealthPost
  /\ KeptStatuses \subseteq ClaimedStatus
  /\ RequestTypes \subseteq CommandType

VARIABLES
  order,      \* order[m]: status of the order
  mission,    \* mission[m]: status, vehicle_id and claimed_by_gateway
  auth,       \* auth[a]: its mission, its status, whether its TTL is over
  cmd,        \* cmd[c]: its mission, type, status and gateway_id
  reported,   \* reported[m]: statuses whose kept event_id is recorded
  health,     \* health[v]: latest snapshot of the vehicle
  gatewayId   \* settings.gateway_id: the one gateway this deployment admits

rows == <<order, mission, auth, cmd, reported, health>>
vars == <<rows, gatewayId>>

Mission == [status : MissionStatus, vehicle : Vehicles \cup {NoVehicle},
            claimedBy : Gateways \cup {NoGateway}]

Authorization == [mission : Missions \cup {NoMission},
                  status : AuthorizationStatus, expired : BOOLEAN]

Command == [mission : Missions \cup {NoMission}, type : CommandType,
            status : CommandStatus, gateway : Gateways \cup {NoGateway}]

(* after: the acknowledged commands the snapshot's heartbeat is later than *)
Health == [post : HealthPosts, fresh : BOOLEAN, after : SUBSET Commands]

TypeOK ==
  /\ order \in [Missions -> OrderStatus]
  /\ mission \in [Missions -> Mission]
  /\ auth \in [Authorizations -> Authorization]
  /\ cmd \in [Commands -> Command]
  /\ reported \in [Missions -> SUBSET KeptStatuses]
  /\ health \in [Vehicles -> Health]
  /\ gatewayId \in Gateways

(* Vehicles registered earlier; whatever they last posted is stale by now. *)
Init ==
  /\ order = [m \in Missions |-> "DRAFT"]
  /\ mission = [m \in Missions |->
       [status |-> "NONE", vehicle |-> NoVehicle, claimedBy |-> NoGateway]]
  /\ auth = [a \in Authorizations |->
       [mission |-> NoMission, status |-> "NONE", expired |-> FALSE]]
  /\ cmd = [c \in Commands |->
       [mission |-> NoMission, type |-> "ARM", status |-> "NONE",
        gateway |-> NoGateway]]
  /\ reported = [m \in Missions |-> {}]
  /\ \E p \in HealthPosts :
       health = [v \in Vehicles |-> [post |-> p, fresh |-> FALSE, after |-> {}]]
  /\ gatewayId \in Gateways

-------------------------------------------------------------------------------
(* Orders, before a mission exists.                                        *)

MoveOrder(m, from, to) ==
  /\ order[m] \in from
  /\ order' = [order EXCEPT ![m] = to]
  /\ UNCHANGED <<mission, auth, cmd, reported, health>>

SubmitOrder(m)  == MoveOrder(m, {"DRAFT"}, "PENDING_ADMIN_APPROVAL")
CancelOrder(m)  == MoveOrder(m, {"DRAFT", "PENDING_ADMIN_APPROVAL"}, "CANCELLED")
ApproveOrder(m) == MoveOrder(m, {"PENDING_ADMIN_APPROVAL"}, "APPROVED")
RejectOrder(m)  == MoveOrder(m, {"PENDING_ADMIN_APPROVAL"}, "REJECTED")

-------------------------------------------------------------------------------
(* Planning on the ground.                                                 *)

(* The intermediate MISSION_PREPARING is overwritten before the commit.    *)
PrepareMission(m) ==
  /\ order[m] = "APPROVED"
  /\ mission[m].status = "NONE"
  /\ mission' = [mission EXCEPT ![m].status = "GENERATED"]
  /\ order' = [order EXCEPT ![m] = "MISSION_READY"]
  /\ UNCHANGED <<auth, cmd, reported, health>>

(* A later download, up to READY_FOR_AUTHORIZATION, changes no row.  The   *)
(* route runs in a thread: ThreadedHandlers takes read and write apart.    *)
ExportMission(m) ==
  /\ mission[m].status \in {"GENERATED", "EXPORTED_TO_MISSION_PLANNER"}
  /\ mission' = [mission EXCEPT ![m].status = "EXPORTED_TO_MISSION_PLANNER"]
  /\ UNCHANGED <<order, auth, cmd, reported, health>>

MarkUnderReview(m) ==
  /\ mission[m].status \in {"GENERATED", "EXPORTED_TO_MISSION_PLANNER"}
  /\ mission' = [mission EXCEPT ![m].status = "UNDER_REVIEW"]
  /\ UNCHANGED <<order, auth, cmd, reported, health>>

(* Mutant: the review does not reach the order.                            *)
MarkReviewedSilently(m) ==
  /\ mission[m].status = "UNDER_REVIEW"
  /\ mission' = [mission EXCEPT ![m].status = "READY_FOR_AUTHORIZATION"]
  /\ UNCHANGED <<order, auth, cmd, reported, health>>

MarkReviewed(m) ==
  /\ mission[m].status = "UNDER_REVIEW"
  /\ mission' = [mission EXCEPT ![m].status = "READY_FOR_AUTHORIZATION"]
  /\ order' = [order EXCEPT ![m] = "WAITING_FLIGHT_AUTHORIZATION"]
  /\ UNCHANGED <<auth, cmd, reported, health>>

-------------------------------------------------------------------------------
(* Health.                                                                 *)

(* health_failures(snapshot) without VEHICLE_ALREADY_ARMED                 *)
Sound(v) ==
  /\ health[v].fresh
  /\ health[v].post.source # "UNKNOWN"
  /\ health[v].post.linked
  /\ health[v].post.nominal

(* health_failures(snapshot) = []                                          *)
Fit(v) == Sound(v) /\ ~health[v].post.armed

(* ARM commands whose acknowledgement a new heartbeat may follow.          *)
AcknowledgedArms(v) ==
  {c \in Commands : /\ cmd[c].type = "ARM"
                    /\ cmd[c].status = "ACKNOWLEDGED"
                    /\ mission[cmd[c].mission].vehicle = v}

(* The gateway posts what it last heard from the autopilot: the MAVLink    *)
(* heartbeat may still precede some acknowledgements.                      *)
Heartbeat(v, p, after) ==
  /\ after \subseteq AcknowledgedArms(v)
  /\ health' = [health EXCEPT ![v] = [post |-> p, fresh |-> TRUE, after |-> after]]
  /\ UNCHANGED <<order, mission, auth, cmd, reported>>

HealthGoesStale(v) ==
  /\ health[v].fresh
  /\ health' = [health EXCEPT ![v].fresh = FALSE]
  /\ UNCHANGED <<order, mission, auth, cmd, reported>>

-------------------------------------------------------------------------------
(* Flight authorizations.                                                  *)

WithStatus(m, s) == {a \in Authorizations : auth[a].mission = m /\ auth[a].status = s}
ActiveAuthorizations(m) == WithStatus(m, "ACTIVE")

TtlElapses(a) ==
  /\ auth[a].status \in {"ACTIVE", "CONSUMED"}
  /\ ~auth[a].expired
  /\ auth' = [auth EXCEPT ![a].expired = TRUE]
  /\ UNCHANGED <<order, mission, cmd, reported, health>>

AuthorizeFlight(m, v, a) ==
  /\ mission[m].status = "READY_FOR_AUTHORIZATION"
  /\ Fit(v)
  /\ ActiveAuthorizations(m) = {}
  /\ auth[a].status = "NONE"
  /\ auth' = [auth EXCEPT ![a] =
       [mission |-> m, status |-> "ACTIVE", expired |-> FALSE]]
  /\ mission' = [mission EXCEPT ![m].vehicle = v, ![m].status = "AUTHORIZED"]
  /\ UNCHANGED <<order, cmd, reported, health>>

(* Mutant: the mission is left authorized.                                 *)
InvalidatePermitOnly(m, a, s) ==
  /\ auth' = [auth EXCEPT ![a].status = s]
  /\ UNCHANGED <<order, mission, cmd, reported, health>>

(* _invalidate_authorization: the mission may be authorized again.         *)
Invalidate(m, a, s) ==
  /\ auth' = [auth EXCEPT ![a].status = s]
  /\ mission' = [mission EXCEPT ![m].status = "READY_FOR_AUTHORIZATION"]
  /\ UNCHANGED <<order, cmd, reported, health>>

(* Listing the authorized missions expires the ones whose TTL is over; the *)
(* loop commits mission by mission, so one action is one iteration.  The   *)
(* route runs in a thread: ThreadedHandlers takes read and write apart.    *)
ExpireListed(m, a) ==
  /\ mission[m].status = "AUTHORIZED"
  /\ a \in ActiveAuthorizations(m)
  /\ auth[a].expired
  /\ Invalidate(m, a, "EXPIRED")

(* Mutant: any gateway may claim.                                          *)
ClaimableByAnyone(m, g, a) ==
  /\ mission[m].status = "AUTHORIZED"
  /\ a \in ActiveAuthorizations(m)

(* The part of a claim that comes before its outcome is decided.           *)
Claimable(m, g, a) ==
  /\ mission[m].status = "AUTHORIZED"
  /\ mission[m].vehicle # NoVehicle
  /\ GatewayOf[mission[m].vehicle] = g
  /\ a \in ActiveAuthorizations(m)

ClaimExpired(m, g, a) ==
  /\ Claimable(m, g, a)
  /\ auth[a].expired
  /\ Invalidate(m, a, "EXPIRED")

(* The other reasons to revoke (a changed version or file of the mission,  *)
(* a missing snapshot) never arise: no code changes the first two once the *)
(* mission is prepared, or deletes a snapshot.                             *)
ClaimUnfit(m, g, a) ==
  /\ Claimable(m, g, a)
  /\ ~auth[a].expired
  /\ ~Fit(mission[m].vehicle)
  /\ Invalidate(m, a, "REVOKED")

(* Mutant: the health of the vehicle is that of the authorization.         *)
ClaimAcceptedUnchecked(m, g, a) ==
  /\ Claimable(m, g, a)
  /\ ~auth[a].expired
  /\ auth' = [auth EXCEPT ![a].status = "CONSUMED"]
  /\ mission' = [mission EXCEPT ![m].status = "UPLOADING", ![m].claimedBy = g]
  /\ order' = [order EXCEPT ![m] = "MISSION_UPLOADING"]
  /\ UNCHANGED <<cmd, reported, health>>

(* Repeating an accepted claim while UPLOADING answers without writing.    *)
ClaimAccepted(m, g, a) ==
  /\ Claimable(m, g, a)
  /\ ~auth[a].expired
  /\ Fit(mission[m].vehicle)
  /\ auth' = [auth EXCEPT ![a].status = "CONSUMED"]
  /\ mission' = [mission EXCEPT ![m].status = "UPLOADING", ![m].claimedBy = g]
  /\ order' = [order EXCEPT ![m] = "MISSION_UPLOADING"]
  /\ UNCHANGED <<cmd, reported, health>>

-------------------------------------------------------------------------------
(* Reports of the gateway that claimed the mission.                        *)

(* kept: the report carries the event_id the gateway journalled for this   *)
(* status and presents again until it gets an answer; every other report   *)
(* carries a fresh id, which need not be remembered.  A replay writes      *)
(* nothing, even when it could no longer be applied.                       *)
Answerable(m, g, s, kept) ==
  /\ mission[m].claimedBy = g
  /\ kept => s \in KeptStatuses /\ s \notin reported[m]

(* Mutant: events without a kept id are remembered too.                    *)
RecordAll(m, s, kept) == reported' = [reported EXCEPT ![m] = @ \cup {s}]

Record(m, s, kept) ==
  reported' = IF kept THEN [reported EXCEPT ![m] = @ \cup {s}] ELSE reported

ReportApplied(m, g, s, kept) ==
  /\ Answerable(m, g, s, kept)
  /\ s \in GatewayTransitions[mission[m].status]
  /\ mission' = [mission EXCEPT ![m].status = s]
  /\ order' = IF s = "PAUSED" THEN order
              ELSE [order EXCEPT ![m] = OrderStatusFromMission[s]]
  /\ Record(m, s, kept)
  /\ UNCHANGED <<auth, cmd, health>>

(* The mission is already there: only the event is stored.                 *)
ReportRecorded(m, g, s) ==
  /\ Answerable(m, g, s, TRUE)
  /\ s = mission[m].status
  /\ Record(m, s, TRUE)
  /\ UNCHANGED <<order, mission, auth, cmd, health>>

(* A refused report rolls its event back; the same id may be tried again.  *)
Refused(m, g, s, kept) ==
  \/ mission[m].claimedBy # g
  \/ /\ kept => s \notin reported[m]
     /\ s # mission[m].status
     /\ s \notin GatewayTransitions[mission[m].status]

-------------------------------------------------------------------------------
(* Critical commands, requested by an administrator for the gateway.       *)

OpenCommands(m) ==
  {c \in Commands : cmd[c].mission = m /\ cmd[c].status \in OpenCommandStatus}

Requested(m, k) ==
  [mission |-> m, type |-> k, status |-> "PENDING", gateway |-> NoGateway]

(* A second request of the open type is answered without a new row, any    *)
(* other one is refused while a command is open.                           *)
RequestCommand(m, k, c) ==
  /\ mission[m].status \in AllowedStates[k]
  /\ OpenCommands(m) = {}
  /\ cmd[c].status = "NONE"
  /\ cmd' = [cmd EXCEPT ![c] = Requested(m, k)]
  /\ UNCHANGED <<order, mission, auth, reported, health>>

RequestSafetyAction(m, k, c) ==
  /\ k \in {"PAUSE", "CONTINUE", "RTL"}
  /\ RequestCommand(m, k, c)

(* Mutant: whatever gateway the deployment admits.                         *)
HolderKnown(m) ==
  /\ mission[m].vehicle # NoVehicle
  /\ mission[m].claimedBy # NoGateway
  /\ GatewayOf[mission[m].vehicle] = mission[m].claimedBy

(* The mission is bound to the gateway this deployment admits.             *)
IdentityMatches(m) ==
  /\ mission[m].vehicle # NoVehicle
  /\ mission[m].claimedBy # NoGateway
  /\ GatewayOf[mission[m].vehicle] = mission[m].claimedBy
  /\ mission[m].claimedBy = gatewayId

(* An armed vehicle is no failure here: START demands one.                 *)
RequestStart(m, c) ==
  /\ IdentityMatches(m)
  /\ LET v == mission[m].vehicle
     IN  /\ Sound(v)
         /\ health[v].post.source \in FlightSource
         /\ health[v].post.armed
         /\ health[v].post.startGates
  /\ RequestCommand(m, "START", c)

RequestArm(m, c) ==
  /\ IdentityMatches(m)
  /\ LET v == mission[m].vehicle
     IN  /\ Fit(v)
         /\ health[v].post.source \in FlightSource
         /\ health[v].post.armGate
         /\ health[v].post.startGates
         /\ health[v].post.stabilize
  /\ RequestCommand(m, "ARM", c)

(* Mutant: the ARM it overrides stays open.                                *)
RequestAbortBeside(m, c) ==
  /\ mission[m].status \in AllowedStates["ABORT"]
  /\ \A d \in OpenCommands(m) : cmd[d].type = "ARM" /\ cmd[d].status = "PENDING"
  /\ cmd[c].status = "NONE"
  /\ cmd' = [cmd EXCEPT ![c] = Requested(m, "ABORT")]
  /\ UNCHANGED <<order, mission, auth, reported, health>>

(* ABORT overrides an ARM the gateway has not acknowledged yet.            *)
RequestAbort(m, c) ==
  /\ mission[m].status \in AllowedStates["ABORT"]
  /\ \A d \in OpenCommands(m) : cmd[d].type = "ARM" /\ cmd[d].status = "PENDING"
  /\ cmd[c].status = "NONE"
  /\ cmd' = [d \in Commands |->
       CASE d = c               -> Requested(m, "ABORT")
         [] d \in OpenCommands(m) -> [cmd[d] EXCEPT !.status = "FAILED"]
         [] OTHER               -> cmd[d]]
  /\ UNCHANGED <<order, mission, auth, reported, health>>

(* A snapshot that proves the vehicle armed after the acknowledgement.     *)
ArmConfirmed(c) ==
  LET v == mission[cmd[c].mission].vehicle
  IN  /\ health[v].fresh
      /\ health[v].post.linked
      /\ health[v].post.armed
      /\ health[v].post.source \in FlightSource
      /\ c \in health[v].after

(* Mutant: a closed command may be acknowledged again.                     *)
AcknowledgeableWhenClosed(c, g, s) ==
  /\ cmd[c].status # "NONE"
  /\ mission[cmd[c].mission].claimedBy = g
  /\ cmd[c].gateway \in {NoGateway, g}

Acknowledgeable(c, g, s) ==
  /\ cmd[c].status \in OpenCommandStatus
  /\ mission[cmd[c].mission].claimedBy = g
  /\ cmd[c].gateway \in {NoGateway, g}
  /\ s = "ACKNOWLEDGED" => cmd[c].status = "PENDING"
  /\ cmd[c].type = "ARM" /\ s = "COMPLETED" =>
       /\ cmd[c].status = "ACKNOWLEDGED"
       /\ GatewayOf[mission[cmd[c].mission].vehicle] = g
       /\ ArmConfirmed(c)

(* Acknowledgements carry a fresh event_id each: none is a replay.         *)
AcknowledgeCommand(c, g, s) ==
  /\ Acknowledgeable(c, g, s)
  /\ cmd' = [cmd EXCEPT ![c].status = s, ![c].gateway = g]
  /\ UNCHANGED <<order, mission, auth, reported, health>>

-------------------------------------------------------------------------------
OrderStep ==
  \E m \in Missions :
    \/ SubmitOrder(m)
    \/ CancelOrder(m)
    \/ ApproveOrder(m)
    \/ RejectOrder(m)

PlanningStep ==
  \E m \in Missions :
    \/ PrepareMission(m)
    \/ MarkUnderReview(m)
    \/ MarkReviewed(m)
    \/ \E v \in Vehicles, a \in Authorizations : AuthorizeFlight(m, v, a)

CommandStep ==
  \E m \in Missions, c \in Commands, k \in RequestTypes :
    \/ RequestSafetyAction(m, k, c)
    \/ k = "START" /\ RequestStart(m, c)
    \/ k = "ARM" /\ RequestArm(m, c)
    \/ k = "ABORT" /\ RequestAbort(m, c)

ClockStep ==
  \/ \E a \in Authorizations : TtlElapses(a)
  \/ \E v \in Vehicles : HealthGoesStale(v)

(* require_gateway lets the gateway of this deployment in, and no other.   *)
GatewayStep ==
  LET g == gatewayId IN
    \/ \E v \in Vehicles, p \in HealthPosts, after \in SUBSET Commands :
         GatewayOf[v] = g /\ Heartbeat(v, p, after)
    \/ \E m \in Missions, a \in Authorizations :
         \/ ClaimExpired(m, g, a)
         \/ ClaimUnfit(m, g, a)
         \/ ClaimAccepted(m, g, a)
    \/ \E m \in Missions, s \in MissionStatus :
         \/ \E kept \in BOOLEAN : ReportApplied(m, g, s, kept)
         \/ ReportRecorded(m, g, s)
    \/ \E c \in Commands, s \in CommandStatus \ {"NONE", "PENDING"} :
         AcknowledgeCommand(c, g, s)

(* The handlers of the event loop, and the clock.                          *)
LoopStep == OrderStep \/ PlanningStep \/ CommandStep \/ ClockStep \/ GatewayStep

(* The two handlers that run in threads, when nothing overtakes them.      *)
ListingStep == \E m \in Missions, a \in Authorizations : ExpireListed(m, a)
ExportStep == \E m \in Missions : ExportMission(m)

(* The backend is deployed anew, for another gateway, on the same rows.    *)
Redeploy ==
  /\ gatewayId' \in Gateways \ {gatewayId}
  /\ UNCHANGED rows

Next ==
  \/ /\ LoopStep \/ ListingStep \/ ExportStep
     /\ UNCHANGED gatewayId
  \/ Redeploy

Spec == Init /\ [][Next]_vars

-------------------------------------------------------------------------------
(* As long as no handler overtakes a listing or an export in its thread    *)
(* (IsolationSuffices in MissionBackendProofs):                            *)
(* A mission is AUTHORIZED exactly while one of its authorizations is      *)
(* ACTIVE, and has been claimed exactly when one was CONSUMED: however     *)
(* often an administrator authorizes and a gateway or the clock            *)
(* invalidates, every flight rests on one permission, used once            *)
(* (authorize_flight, active_authorization, claim_mission).                *)
OnePermissionPerFlight ==
  \A m \in Missions :
    /\ mission[m].status = "AUTHORIZED" <=> WithStatus(m, "ACTIVE") # {}
    /\ mission[m].status \in ClaimedStatus <=> WithStatus(m, "CONSUMED") # {}
    /\ \A a, b \in WithStatus(m, "ACTIVE") \cup WithStatus(m, "CONSUMED") : a = b

(* Where an order in status o is when its mission is in status s.          *)
Follows(o, s) ==
  /\ s = "NONE" => o \in
       {"DRAFT", "PENDING_ADMIN_APPROVAL", "APPROVED", "REJECTED", "CANCELLED"}
  /\ s \in PlanningStatus \ {"READY_FOR_AUTHORIZATION"} => o = "MISSION_READY"
  /\ s \in {"READY_FOR_AUTHORIZATION", "AUTHORIZED"} =>
       o = "WAITING_FLIGHT_AUTHORIZATION"
  /\ s = "PAUSED" => o \in {"IN_TRANSIT", "AT_DESTINATION", "DELIVERED", "RETURNING"}
  /\ s \in ClaimedStatus \ {"PAUSED"} => o = OrderStatusFromMission[s]

(* Whatever the mixture of reports, replays and administrative actions,    *)
(* the order the customer sees is in the stage of its mission; only a      *)
(* paused mission leaves the stage it was paused in (apply_gateway_status, *)
(* mark_reviewed, claim_mission and _invalidate_authorization).  As long   *)
(* as nothing overtakes a listing or an export, like the one before.       *)
OrderFollowsMission == \A m \in Missions : Follows(order[m], mission[m].status)

(* A mission never has two critical commands open, also when an ABORT      *)
(* overtakes an ARM (request_safety_action, request_vehicle_arm).          *)
OneOpenCommand ==
  \A m \in Missions : \A c, d \in OpenCommands(m) : c = d

(* A command can only exist for a mission some gateway holds, and only     *)
(* that gateway, the one of the authorized vehicle, ever took it: the      *)
(* binding survives every later step (claim_mission,                       *)
(* acknowledge_gateway_command).  As long as nothing overtakes a listing   *)
(* or an export, like the two before.                                      *)
CommandsOfTheHolder ==
  /\ \A m \in Missions :
       /\ mission[m].status \in ClaimedStatus <=> mission[m].claimedBy # NoGateway
       /\ mission[m].claimedBy # NoGateway =>
            /\ mission[m].vehicle # NoVehicle
            /\ mission[m].claimedBy = GatewayOf[mission[m].vehicle]
  /\ \A c \in Commands : cmd[c].status # "NONE" =>
       /\ cmd[c].mission # NoMission
       /\ mission[cmd[c].mission].claimedBy # NoGateway
       /\ cmd[c].gateway \in {NoGateway, mission[cmd[c].mission].claimedBy}

(* A START or an ARM that waits for a gateway the deployment locks out.    *)
Stranded ==
  {c \in Commands : /\ cmd[c].type \in {"START", "ARM"}
                    /\ cmd[c].status \in OpenCommandStatus
                    /\ mission[cmd[c].mission].claimedBy # gatewayId}

(* Only a redeployment strands a START or an ARM: none is requested that   *)
(* the admitted gateway could not take, also when missions of the former   *)
(* one go on and its last heartbeat is still fresh (identity_matches in    *)
(* request_safety_action and request_vehicle_arm).                         *)
NoNewStranded == [][UNCHANGED gatewayId => Stranded' \subseteq Stranded]_vars

Ended == {"CONSUMED", "EXPIRED", "REVOKED"}

(* A closed command is closed for good.  An authorization that has ended   *)
(* is never usable again, and only an active one is ever consumed.         *)
NothingRevived ==
  /\ \A c \in Commands : cmd[c].status \in {"COMPLETED", "FAILED"} =>
       cmd'[c] = cmd[c]
  /\ \A a \in Authorizations : auth[a].status \in Ended =>
       /\ auth'[a].status \in Ended
       /\ auth'[a].status = "CONSUMED" => auth[a].status = "CONSUMED"
       /\ auth'[a].mission = auth[a].mission

(* A finished mission, its order, and how an authorization has ended.      *)
EndsKept ==
  /\ \A m \in Missions : mission[m].status \in EndStatus =>
       mission'[m] = mission[m] /\ order'[m] = order[m]
  /\ \A a \in Authorizations : auth[a].status \in Ended =>
       auth'[a].status = auth[a].status

(* No late report, retry, acknowledgement or claim reopens what has ended: *)
(* no step revives a command or an authorization, and no handler of the    *)
(* event loop rewrites the end of a mission or of an authorization         *)
(* (acknowledge_gateway_command, apply_gateway_status, claim_mission).     *)
(* The second part leaves out the listing and the export, whose threads    *)
(* may rewrite an end (ConsumedForGood in ThreadedHandlers); what is said  *)
(* here holds with these threads, too.                                     *)
EndedRows == NothingRevived /\ (EndsKept \/ ~LoopStep)

EndedRowsStay == [][EndedRows]_vars

-------------------------------------------------------------------------------
(* The lifecycle this backend implements.                                  *)

LifecycleStage ==
  [m \in Missions |->
     CASE mission[m].status = "AUTHORIZED"    -> "permitted"
       [] mission[m].status \in FlightStatus  -> "flying"
       [] mission[m].status \in EndStatus     -> "ended"
       [] OTHER                               -> "ground"]

LifecyclePermit ==
  [a \in Authorizations |->
     [mission |-> auth[a].mission,
      state   |-> CASE auth[a].status = "NONE"     -> "blank"
                    [] auth[a].status = "ACTIVE"   ->
                         IF auth[a].expired THEN "lapsed" ELSE "valid"
                    [] auth[a].status = "CONSUMED" -> "used"
                    [] OTHER                       -> "void"]]

LifecycleCraft == [m \in Missions |-> mission[m].vehicle]

Lifecycle == INSTANCE MissionLifecycle
  WITH Permits <- Authorizations, KeeperOf <- GatewayOf,
       Nobody <- NoGateway, Nothing <- NoMission, None <- NoVehicle,
       stage <- LifecycleStage,
       holder <- [m \in Missions |-> mission[m].claimedBy],
       craft <- LifecycleCraft,
       permit <- LifecyclePermit,
       fit <- {v \in Vehicles : Fit(v)}

(* Every handler is a step of the lifecycle or none at all: no sequence of *)
(* calls flies a mission twice, on a permit that is spent, void, over its  *)
(* time or another mission's, or by another gateway or vehicle than the    *)
(* authorized one, or one that is not fit at that moment.  As long as      *)
(* nothing overtakes a listing or an export in its thread: an overtaken    *)
(* listing turns a used permit void, which is no step of the lifecycle.    *)
ImplementsLifecycle == Lifecycle!Spec
==============================================================================
