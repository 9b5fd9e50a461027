--------------------------- MODULE GatewayExecutor ---------------------------
(***************************************************************************)
(* The drone gateway's mission executor                                    *)
(* (drone_gateway/app/missions/executor.py) running against the backend    *)
(* of MissionBackend and one vehicle.                                      *)
(*                                                                         *)
(* The executor is one coroutine.  It gives way only where it awaits a     *)
(* backend call or a vehicle operation; everything between two awaits,     *)
(* journal writes included, is one step.  pc names the await it stands at; *)
(* an action performs that call and runs on to the next await.  Meanwhile  *)
(* administrators, the clock and the vehicle take their own steps, so what *)
(* the executor carries in `work' may be out of date when it is used.      *)
(*                                                                         *)
(* Memory and journal agree at every await, so one variable stands for     *)
(* both, and a crash followed by a restart loses only pc and work.  A      *)
(* request that never reaches the backend has the same effect: the cycle   *)
(* is abandoned and the next one starts from the journal.                  *)
(*                                                                         *)
(* report_event and report_telemetry change no row the protocol reads; a   *)
(* failure in one of them abandons the cycle like any other lost request.  *)
(***************************************************************************)
EXTENDS MissionBackend, Naturals

CONSTANTS
  Drone,           \* the vehicle of this gateway
  Self,            \* the gateway's identity
  NoCommand,
  Conditions,      \* what a health read or an operation may find: the vehicle
                   \* "good", a check "faulty", the link "lost"
  AbortSupported   \* the adapter can abort (fake_gateway), or never (real one)

(* A HealthPost of this gateway: SITL, with every local gate open.         *)
PostOf(linked, nominal, armed, stabilize) ==
  [source |-> "SITL", linked |-> linked, nominal |-> nominal, armed |-> armed,
   stabilize |-> stabilize, startGates |-> TRUE, armGate |-> TRUE]

ASSUME DroneAssumption ==
  /\ Self \in Gateways
  /\ Drone \in Vehicles
  /\ GatewayOf[Drone] = Self
  /\ NoCommand \notin Commands
  /\ AbortSupported \in BOOLEAN
  /\ Conditions \subseteq {"good", "faulty", "lost"}
  /\ \A l, n, a, s \in BOOLEAN : PostOf(l, n, a, s) \in HealthPosts

VARIABLES
  journal,   \* the active mission, its phase and its progress reports
  pc,        \* the await the coroutine stands at
  work,      \* what the running cycle carries from one await to the next
  drone,     \* the physical vehicle and its autopilot
  sent       \* how often something was transmitted to the autopilot

execVars == <<journal, pc, work, drone, sent>>
stepVars == <<rows, execVars>>
allVars == <<vars, execVars>>

ActivePhase ==
  {"UPLOADING_PENDING_REPORT", "UPLOADING", "UPLOAD_COMMAND_SENT",
   "UPLOAD_RECOVERY_BLOCKED", "RECOVERED_UPLOAD_PENDING_REPORT",
   "UPLOADED_PENDING_REPORT", "VERIFYING", "VERIFIED_PENDING_REPORT",
   "WAITING_OPERATOR_ARM", "START_COMMAND_SENT", "EXECUTING_PENDING_REPORT",
   "EXECUTING", "PAUSED"}

(* EMPTY: no journal file.                                                 *)
Phase == ActivePhase \cup {"EMPTY", "CLAIM_PENDING"}

ProgressStatuses ==
  <<"DESTINATION_REACHED", "DELIVERY_CONFIRMED", "RETURNING", "COMPLETED">>
ProgressStatus == {ProgressStatuses[i] : i \in 1 .. 4}

Journal == [phase : Phase, mission : Missions \cup {NoMission},
            pending : ProgressStatus \cup {"NONE"},
            last : ProgressStatus \cup {"NONE"}]

NoJournal == [phase |-> "EMPTY", mission |-> NoMission,
              pending |-> "NONE", last |-> "NONE"]

(* Awaits on the backend, then awaits on the vehicle.                      *)
BackendCall ==
  {"heartbeat", "commands", "missions", "claim", "phaseReport", "flush",
   "flushPolled", "failReport", "actionReport", "take", "publish", "ack"}
VehicleOperation == {"upload", "verify", "poll", "arm", "act"}

(* seen: the health read at the start of the cycle; heard: acknowledgements *)
(* older than it; cmd, status: the command as fetched; answer: how the     *)
(* command is to be acknowledged once the cycle's work is done.            *)
Work == [seen : HealthPosts, heard : SUBSET Commands,
         cmd : Commands \cup {NoCommand}, status : CommandStatus,
         answer : {"NONE", "COMPLETED", "FAILED"}]

NoWork == [seen |-> PostOf(FALSE, FALSE, FALSE, FALSE), heard |-> {},
           cmd |-> NoCommand, status |-> "NONE", answer |-> "NONE"]

(* plan: the mission in the autopilot's memory; flown: the missions it has *)
(* taken off for; progress: how many of the progress statuses the flight   *)
(* of a mission has physically reached.                                    *)
Vehicle == [armed : BOOLEAN,
            plan : Missions \cup {NoMission},
            mode : {"ground", "auto", "hold", "rtl", "landed"},
            flown : SUBSET Missions,
            progress : [Missions -> 0 .. 4]]

(* Counts stop at two: the properties ask whether there was a second time. *)
(* An RTL and an ABORT may be sent again and are not counted.  confirmed:  *)
(* the changes of a flight the autopilot has confirmed to the executor.    *)
Sent == [uploads : [Missions -> 0 .. 2], commands : [Commands -> 0 .. 2],
         confirmed : SUBSET Commands]
Again(n) == IF n = 2 THEN 2 ELSE n + 1
Repeatable == {"RTL", "ABORT"}
FlightChange == {"PAUSE", "CONTINUE", "RTL"}

ExecTypeOK ==
  /\ journal \in Journal
  /\ pc \in BackendCall \cup VehicleOperation
  /\ work \in Work
  /\ drone \in Vehicle
  /\ sent \in Sent

ExecInit ==
  /\ gatewayId = Self
  /\ journal = NoJournal
  /\ pc = "heartbeat"
  /\ work = NoWork
  /\ drone = [armed |-> FALSE, plan |-> NoMission, mode |-> "ground",
              flown |-> {}, progress |-> [m \in Missions |-> 0]]
  /\ sent = [uploads |-> [m \in Missions |-> 0], commands |-> [c \in Commands |-> 0],
             confirmed |-> {}]

-------------------------------------------------------------------------------
(* The vehicle and the people around it.                                   *)

Airborne == drone.mode \in {"auto", "hold", "rtl"}

(* Disarmed only on the ground, by the operator or after landing; then the *)
(* operator may switch back to STABILIZE, for another flight.  Bound: by   *)
(* hand it is armed and disarmed while a mission remains to be flown.      *)
DroneStep ==
  /\ \/ /\ drone.mode = "ground" /\ drone.flown # Missions
        /\ drone' = [drone EXCEPT !.armed = ~@]
     \/ drone.mode = "landed" /\ drone' = [drone EXCEPT !.mode = "ground"]
     \/ /\ drone.mode = "auto" /\ drone.progress[drone.plan] < 3
        /\ drone' = [drone EXCEPT !.progress[drone.plan] = @ + 1]
     \/ /\ drone.mode = "auto" /\ drone.progress[drone.plan] = 3
        /\ drone' = [drone EXCEPT !.progress[drone.plan] = 4, !.mode = "landed",
                                  !.armed = FALSE]
     \/ /\ drone.mode = "rtl"
        /\ drone' = [drone EXCEPT !.mode = "landed", !.armed = FALSE]
  /\ UNCHANGED <<rows, journal, pc, work, sent>>

(* read_health: without a link, arming and mode are unknown, which passes  *)
(* no check.  Link and checks may change between any two reads.            *)
Samples ==
  {LET linked == s # "lost"
   IN  PostOf(linked, s # "faulty", linked /\ drone.armed, linked /\ drone.mode = "ground") :
   s \in Conditions}

-------------------------------------------------------------------------------
(* Flow of one cycle.                                                      *)

Current == journal.mission

Stop == pc' = "heartbeat" /\ work' = NoWork
At(label) == pc' = label /\ UNCHANGED work
Answer(a) == pc' = "ack" /\ work' = [work EXCEPT !.answer = a]

(* The cycle ends, or a command processed along the way is acknowledged.   *)
Finish == IF work.answer = "NONE" THEN Stop ELSE At("ack")

InPhase(p) == [journal EXCEPT !.phase = p]

(* evaluate_preflight and the backend's eligibility, on the health read    *)
(* when the cycle began; the clock is read now.                            *)
Nominal == work.seen.linked /\ work.seen.nominal
Eligible == Nominal /\ ~work.seen.armed
TtlLeft(au) ==
  \A a \in Authorizations :
    au[a].mission = Current /\ au[a].status = "CONSUMED" => ~au[a].expired
PreflightPassed == Eligible /\ TtlLeft(auth)
StartReady == Nominal /\ work.seen.armed /\ TtlLeft(auth)

(* _continue_active up to its next await, the journal being j.             *)
Continue(j) ==
  LET linkedTo(label) == journal' = j /\ IF work.seen.linked THEN At(label) ELSE Finish
  IN CASE j.phase \in {"UPLOADING_PENDING_REPORT", "UPLOADED_PENDING_REPORT",
                       "RECOVERED_UPLOAD_PENDING_REPORT",
                       "VERIFIED_PENDING_REPORT", "EXECUTING_PENDING_REPORT"} ->
            journal' = j /\ At("phaseReport")
       [] j.phase = "UPLOADING" ->
            \/ ~work.seen.linked /\ journal' = j /\ Finish
            \/ /\ work.seen.linked /\ ~PreflightPassed
               /\ journal' = j /\ At("failReport")
            \/ /\ PreflightPassed
               /\ journal' = [j EXCEPT !.phase = "UPLOAD_COMMAND_SENT"]
               /\ At("upload")
       [] j.phase \in {"UPLOAD_COMMAND_SENT", "VERIFYING"} -> linkedTo("verify")
       [] j.phase = "EXECUTING" /\ j.pending # "NONE" -> journal' = j /\ At("flush")
       [] j.phase = "EXECUTING" /\ j.pending = "NONE" -> linkedTo("poll")
       [] OTHER -> journal' = j /\ Finish

-------------------------------------------------------------------------------
(* The beginning of a cycle.                                               *)

BackendBeat(post, after) == Heartbeat(Drone, post, after)

(* The MAVLink heartbeat behind the sample may precede the acknowledgement *)
(* of an ARM by up to the heartbeat timeout.                               *)
RunCycle ==
  /\ pc = "heartbeat"
  /\ \E seen \in Samples, after \in {{}, AcknowledgedArms(Drone)} :
       /\ BackendBeat(seen, after)
       /\ IF journal.phase = "CLAIM_PENDING" /\ ~seen.linked THEN Stop
          ELSE /\ pc' = IF journal.phase = "CLAIM_PENDING" THEN "claim" ELSE "commands"
               /\ work' = [NoWork EXCEPT !.seen = seen, !.heard = after]
  /\ UNCHANGED <<journal, drone, sent>>

(* Open commands of the missions this gateway claimed.                     *)
PendingCommands ==
  {c \in Commands : /\ cmd[c].status \in OpenCommandStatus
                    /\ mission[cmd[c].mission].claimedBy = Self}

Fetch(c) == [work EXCEPT !.cmd = c, !.status = cmd[c].status]

(* The last local check of an ARM that is still PENDING.                   *)
ArmReady ==
  /\ journal.phase \in {"VERIFIED_PENDING_REPORT", "WAITING_OPERATOR_ARM"}
  /\ work.seen.linked
  /\ work.seen.armed \/ (PreflightPassed /\ work.seen.stabilize)

(* Mutant: an acknowledged ARM waits until the vehicle is armed.           *)
ProcessArmPatiently(c) ==
  IF cmd[c].status = "ACKNOWLEDGED"
  THEN IF work.seen.linked /\ work.seen.armed
       THEN pc' = "publish" /\ work' = [Fetch(c) EXCEPT !.answer = "COMPLETED"]
       ELSE Stop
  ELSE ArmReady /\ pc' = "take" /\ work' = Fetch(c)

(* An ARM that was acknowledged before is only reconciled, never resent.   *)
ProcessArm(c) ==
  IF cmd[c].status = "ACKNOWLEDGED"
  THEN IF work.seen.linked /\ work.seen.armed
       THEN pc' = "publish" /\ work' = [Fetch(c) EXCEPT !.answer = "COMPLETED"]
       ELSE pc' = "ack" /\ work' = [Fetch(c) EXCEPT !.answer = "FAILED"]
  ELSE \/ ArmReady /\ pc' = "take" /\ work' = Fetch(c)
       \* not ready, or older than gateway_command_max_age_seconds
       \/ pc' = "ack" /\ work' = [Fetch(c) EXCEPT !.answer = "FAILED"]

(* A command whose effect is journalled needs its acknowledgement only.    *)
Reconciled(c) ==
  \/ cmd[c].type = "START" /\ journal.phase = "EXECUTING"
  \/ /\ cmd[c].status = "ACKNOWLEDGED"
     /\ \/ cmd[c].type = "PAUSE" /\ journal.phase = "PAUSED"
        \/ cmd[c].type = "CONTINUE" /\ journal.phase = "EXECUTING"

(* What the executor checks before it transmits anything but an ARM.       *)
Executable(type) ==
  CASE type = "START" -> journal.phase = "WAITING_OPERATOR_ARM" /\ StartReady
    [] type = "PAUSE" -> journal.phase = "EXECUTING"
    [] type = "CONTINUE" -> journal.phase = "PAUSED"
    [] OTHER -> TRUE

(* Mutant: START is transmitted without being journalled first.            *)
ExecuteUnjournalled(type, w) ==
  /\ UNCHANGED journal
  /\ IF Executable(type)
     THEN pc' = "act" /\ work' = w
     ELSE pc' = "ack" /\ work' = [w EXCEPT !.answer = "FAILED"]

(* START is journalled as sent before it is transmitted.                   *)
Execute(type, w) ==
  IF Executable(type)
  THEN /\ pc' = "act" /\ work' = w
       /\ journal' = IF type = "START" THEN InPhase("START_COMMAND_SENT") ELSE journal
  ELSE pc' = "ack" /\ work' = [w EXCEPT !.answer = "FAILED"] /\ UNCHANGED journal

ProcessOther(c) ==
  CASE Reconciled(c) ->
         /\ pc' = "ack" /\ work' = [Fetch(c) EXCEPT !.answer = "COMPLETED"]
         /\ UNCHANGED journal
    [] cmd[c].type = "START" /\ journal.phase = "EXECUTING_PENDING_REPORT" ->
         /\ pc' = "phaseReport" /\ work' = [Fetch(c) EXCEPT !.answer = "COMPLETED"]
         /\ UNCHANGED journal
    [] cmd[c].type = "START" /\ journal.phase = "START_COMMAND_SENT" ->
         /\ pc' = "ack" /\ work' = [Fetch(c) EXCEPT !.answer = "FAILED"]
         /\ UNCHANGED journal
    [] OTHER ->
         \* no heartbeat, or older than gateway_command_max_age_seconds
         \/ /\ pc' = "ack" /\ work' = [Fetch(c) EXCEPT !.answer = "FAILED"]
            /\ UNCHANGED journal
         \/ /\ work.seen.linked
            /\ IF cmd[c].status = "PENDING"
               THEN pc' = "take" /\ work' = Fetch(c) /\ UNCHANGED journal
               ELSE Execute(cmd[c].type, Fetch(c))

(* Pending commands come before the active mission, and that before the    *)
(* offer of a new one.                                                     *)
PollCommands ==
  /\ pc = "commands"
  /\ \/ \E c \in PendingCommands :
          CASE cmd[c].mission # Current ->
                 /\ pc' = "ack" /\ work' = [Fetch(c) EXCEPT !.answer = "FAILED"]
                 /\ UNCHANGED journal
            [] cmd[c].mission = Current /\ cmd[c].type = "ARM" ->
                 ProcessArm(c) /\ UNCHANGED journal
            [] OTHER -> ProcessOther(c)
     \/ PendingCommands = {} /\ journal.phase # "EMPTY" /\ Continue(journal)
     \/ /\ PendingCommands = {} /\ journal.phase = "EMPTY"
        /\ UNCHANGED journal
        /\ IF Eligible THEN At("missions") ELSE Stop
  /\ UNCHANGED <<rows, drone, sent>>

-------------------------------------------------------------------------------
(* Claiming a mission.                                                     *)

Authorized(m) == mission[m].status = "AUTHORIZED"

(* The backend expires what it finds expired, then lists the rest; the     *)
(* executor journals its intent to claim the first one for its vehicle.    *)
ListMissions ==
  /\ pc = "missions"
  /\ \/ /\ \E m \in Missions, a \in Authorizations : ExpireListed(m, a)
        /\ UNCHANGED execVars
     \/ /\ \A m \in Missions : Authorized(m) =>
             \A a \in ActiveAuthorizations(m) : ~auth[a].expired
        /\ LET offers == {m \in Missions : Authorized(m) /\ mission[m].vehicle = Drone}
           IN  \/ offers = {} /\ Stop /\ UNCHANGED journal
               \/ \E m \in offers :
                    /\ journal' = [NoJournal EXCEPT !.phase = "CLAIM_PENDING", !.mission = m]
                    /\ At("claim")
        /\ UNCHANGED <<rows, drone, sent>>

ClaimReplayed(m) ==
  /\ mission[m].status = "UPLOADING" /\ mission[m].claimedBy = Self
  /\ UNCHANGED rows

ClaimGranted(m) ==
  ClaimReplayed(m) \/ \E a \in Authorizations : ClaimAccepted(m, Self, a)

ClaimRefused(m) ==
  \/ \E a \in Authorizations : ClaimExpired(m, Self, a) \/ ClaimUnfit(m, Self, a)
  \/ /\ ~Authorized(m)
     /\ ~(mission[m].status = "UPLOADING" /\ mission[m].claimedBy = Self)
     /\ UNCHANGED rows

(* The final local checks come after the permission is consumed; the one   *)
(* of the mission file may fail at any time.                               *)
Claim ==
  /\ pc = "claim"
  /\ \/ /\ ClaimGranted(Current)
        /\ \/ /\ Eligible /\ TtlLeft(auth')
              /\ journal' = InPhase("UPLOADING_PENDING_REPORT")
              /\ At("phaseReport")
           \/ At("failReport") /\ UNCHANGED journal
     \/ ClaimRefused(Current) /\ journal' = NoJournal /\ Stop
  /\ UNCHANGED <<drone, sent>>

-------------------------------------------------------------------------------
(* Reports.                                                                *)

(* The backend's answer is a success: applied, recorded, or a replay.      *)
ReportAccepted(s, kept) ==
  \/ ReportApplied(Current, Self, s, kept)
  \/ kept /\ ReportRecorded(Current, Self, s)
  \/ /\ mission[Current].claimedBy = Self
     /\ IF kept THEN s \in reported[Current] ELSE s = mission[Current].status
     /\ UNCHANGED rows

ReportRefused(s, kept) == Refused(Current, Self, s, kept) /\ UNCHANGED rows

(* What a phase reports, and the phase an accepted report leads to.        *)
PhaseStatus ==
  CASE journal.phase = "UPLOADING_PENDING_REPORT"        -> "UPLOADING"
    [] journal.phase = "UPLOADED_PENDING_REPORT"         -> "UPLOADED"
    [] journal.phase = "RECOVERED_UPLOAD_PENDING_REPORT" -> "UPLOADED"
    [] journal.phase = "VERIFIED_PENDING_REPORT"         -> "VERIFIED"
    [] journal.phase = "EXECUTING_PENDING_REPORT"        -> "EXECUTING"

PhaseAfterReport ==
  CASE journal.phase = "UPLOADING_PENDING_REPORT"        -> "UPLOADING"
    [] journal.phase = "UPLOADED_PENDING_REPORT"         -> "VERIFYING"
    [] journal.phase = "RECOVERED_UPLOAD_PENDING_REPORT" -> "VERIFIED_PENDING_REPORT"
    [] journal.phase = "VERIFIED_PENDING_REPORT"         -> "WAITING_OPERATOR_ARM"
    [] journal.phase = "EXECUTING_PENDING_REPORT"        -> "EXECUTING"

PhaseReport ==
  /\ pc = "phaseReport"
  /\ \/ ReportAccepted(PhaseStatus, TRUE) /\ Continue(InPhase(PhaseAfterReport))
     \/ ReportRefused(PhaseStatus, TRUE) /\ UNCHANGED journal /\ Stop
  /\ UNCHANGED <<drone, sent>>

Flushed == IF journal.pending = "COMPLETED" THEN NoJournal
           ELSE [journal EXCEPT !.last = journal.pending, !.pending = "NONE"]

FlushPendingStatus ==
  /\ pc \in {"flush", "flushPolled"}
  /\ \/ /\ ReportAccepted(journal.pending, TRUE)
        /\ journal' = Flushed
        /\ IF pc = "flush" /\ journal.pending # "COMPLETED" /\ work.seen.linked
           THEN At("poll") ELSE Finish
     \/ ReportRefused(journal.pending, TRUE) /\ UNCHANGED journal /\ Stop
  /\ UNCHANGED <<drone, sent>>

(* _fail_active, and the end of a claim that failed its local checks.      *)
FailActive ==
  /\ pc = "failReport"
  /\ \/ ReportAccepted("FAILED", FALSE) /\ journal' = NoJournal
     \/ ReportRefused("FAILED", FALSE) /\ UNCHANGED journal
  /\ Stop
  /\ UNCHANGED <<drone, sent>>

-------------------------------------------------------------------------------
(* Operations on the vehicle outside a command.                            *)

(* Whatever becomes of the transfer, it was journalled as sent before.     *)
UploadMission ==
  /\ pc = "upload"
  /\ sent' = [sent EXCEPT !.uploads[Current] = Again(@)]
  /\ \/ /\ drone' = [drone EXCEPT !.plan = Current]
        /\ journal' = InPhase("UPLOADED_PENDING_REPORT")
        /\ At("phaseReport")
     \/ \* timed out, rejected or not acknowledged: any plan may be in memory
        /\ \E p \in {drone.plan, Current, NoMission} : drone' = [drone EXCEPT !.plan = p]
        /\ Finish \/ At("failReport")
        /\ UNCHANGED journal
  /\ UNCHANGED rows

(* Mutant: the readback is not compared with the mission.                  *)
VerifyAnyMission ==
  /\ pc = "verify"
  /\ journal' = InPhase(IF journal.phase = "VERIFYING" THEN "VERIFIED_PENDING_REPORT"
                        ELSE "RECOVERED_UPLOAD_PENDING_REPORT")
  /\ At("phaseReport")
  /\ UNCHANGED <<rows, drone, sent>>

VerifyMission ==
  /\ pc = "verify"
  /\ \/ /\ drone.plan = Current
        /\ journal' = InPhase(IF journal.phase = "VERIFYING" THEN "VERIFIED_PENDING_REPORT"
                              ELSE "RECOVERED_UPLOAD_PENDING_REPORT")
        /\ At("phaseReport")
     \/ \* the readback failed or differs
        /\ journal' = IF journal.phase = "VERIFYING" THEN journal
                      ELSE InPhase("UPLOAD_RECOVERY_BLOCKED")
        /\ Finish
  /\ UNCHANGED <<rows, drone, sent>>

ProgressIndex(s) == IF s = "NONE" THEN 0 ELSE CHOOSE i \in 1 .. 4 : ProgressStatuses[i] = s

(* The adapter suggests the status after the last one the executor told it *)
(* of, once the vehicle has got that far; it may also have seen nothing.   *)
PollMission ==
  /\ pc = "poll"
  /\ \/ /\ ProgressIndex(journal.last) < drone.progress[Current]
        /\ journal' = [journal EXCEPT !.pending = ProgressStatuses[ProgressIndex(journal.last) + 1]]
        /\ At("flushPolled")
     \/ Finish /\ UNCHANGED journal
  /\ UNCHANGED <<rows, drone, sent>>

-------------------------------------------------------------------------------
(* Commands.                                                               *)

(* Mutant: a refused acknowledgement does not stop the command.            *)
TakeRegardless ==
  /\ pc = "take"
  /\ \/ AcknowledgeCommand(work.cmd, Self, "ACKNOWLEDGED")
     \/ ~Acknowledgeable(work.cmd, Self, "ACKNOWLEDGED") /\ UNCHANGED rows
  /\ IF cmd[work.cmd].type = "ARM" THEN At("arm") /\ UNCHANGED journal
     ELSE Execute(cmd[work.cmd].type, work)
  /\ UNCHANGED <<drone, sent>>

TakeCommand ==
  /\ pc = "take"
  /\ \/ /\ AcknowledgeCommand(work.cmd, Self, "ACKNOWLEDGED")
        /\ IF cmd[work.cmd].type # "ARM" THEN Execute(cmd[work.cmd].type, work)
           ELSE /\ UNCHANGED journal
                /\ IF work.seen.armed
                   THEN pc' = "publish" /\ work' = [work EXCEPT !.answer = "COMPLETED"]
                   ELSE At("arm")
     \/ /\ ~Acknowledgeable(work.cmd, Self, "ACKNOWLEDGED")
        /\ Stop /\ UNCHANGED <<rows, journal>>
  /\ UNCHANGED <<drone, sent>>

Transmitted(confirmed) ==
  LET counts == cmd[work.cmd].type \notin Repeatable
      keeps  == confirmed /\ cmd[work.cmd].type \in FlightChange
  IN  sent' = [sent EXCEPT !.commands[work.cmd] = IF counts THEN Again(@) ELSE @,
                           !.confirmed = IF keeps THEN @ \cup {work.cmd} ELSE @]

(* The autopilot has confirmed an RTL.                                     *)
CommandedHome(m) ==
  \E c \in sent.confirmed : cmd[c].mission = m /\ cmd[c].type = "RTL"

(* arm_vehicle: a vehicle armed by someone else meanwhile is not commanded *)
(* again; a confirmed arming comes with a heartbeat newer than the ACK.    *)
ArmVehicle ==
  /\ pc = "arm"
  /\ \/ /\ drone.mode = "ground"
        /\ drone' = [drone EXCEPT !.armed = TRUE]
        /\ pc' = "publish"
        /\ \E seen \in Samples' :
             /\ seen.linked
             /\ work' = [work EXCEPT !.seen = seen, !.heard = AcknowledgedArms(Drone),
                                     !.answer = "COMPLETED"]
        /\ IF drone.armed THEN UNCHANGED sent ELSE Transmitted(TRUE)
     \/ /\ \/ drone.mode = "ground" /\ drone' = [drone EXCEPT !.armed = TRUE]
           \/ UNCHANGED drone
        /\ Transmitted(FALSE)
        /\ Answer("FAILED")
  /\ UNCHANGED <<rows, journal>>

(* What an accepted command does to the vehicle.                           *)
Effect(type) ==
  CASE type = "START" ->
         /\ drone.mode = "ground" /\ drone.armed /\ drone.plan = Current
         /\ drone' = [drone EXCEPT !.mode = "auto", !.flown = @ \cup {Current}]
    [] type = "PAUSE"    -> drone.mode \in {"auto", "hold"} /\ drone' = [drone EXCEPT !.mode = "hold"]
    [] type = "CONTINUE" -> drone.mode \in {"auto", "hold"} /\ drone' = [drone EXCEPT !.mode = "auto"]
    [] type = "RTL"      -> Airborne /\ drone' = [drone EXCEPT !.mode = "rtl"]
    [] type = "ABORT"    ->
         /\ AbortSupported
         /\ drone' = IF Airborne THEN [drone EXCEPT !.mode = "landed", !.armed = FALSE]
                     ELSE drone

(* A failure may still have had its effect on the vehicle.  START is       *)
(* followed by a new health read, which may fail in its turn.              *)
ActOnVehicle ==
  /\ pc = "act"
  /\ LET type == cmd[work.cmd].type IN
     \/ /\ type = "START" /\ Effect(type)
        /\ Transmitted(TRUE)
        /\ journal' = InPhase("EXECUTING_PENDING_REPORT")
        /\ \/ /\ pc' = "phaseReport"
              /\ \E seen \in Samples' :
                   work' = [work EXCEPT !.seen = seen, !.answer = "COMPLETED"]
           \/ Answer("FAILED")
     \/ /\ type # "START" /\ Effect(type)
        /\ Transmitted(TRUE)
        /\ At("actionReport") /\ UNCHANGED journal
     \/ /\ Effect(type) \/ UNCHANGED drone
        /\ Transmitted(FALSE)
        /\ Answer("FAILED") /\ UNCHANGED journal
  /\ UNCHANGED rows

(* CONTINUE reports the last progress the executor knows was published.    *)
ActionStatus ==
  LET type == cmd[work.cmd].type
  IN CASE type = "PAUSE" -> "PAUSED"
       [] type = "CONTINUE" -> IF journal.last = "NONE" THEN "EXECUTING" ELSE journal.last
       [] type = "RTL" -> "RETURNING"
       [] type = "ABORT" -> "ABORTED"

(* Mutant: the reported status is journalled as the phase.                 *)
AfterActionAsReported == InPhase(ActionStatus)

(* Mutant: an RTL is taken for the end of the mission.                     *)
AfterActionGone ==
  CASE cmd[work.cmd].type = "PAUSE" -> InPhase("PAUSED")
    [] cmd[work.cmd].type = "CONTINUE" -> InPhase("EXECUTING")
    [] OTHER -> NoJournal

AfterAction ==
  LET type == cmd[work.cmd].type
  IN CASE type = "PAUSE" -> InPhase("PAUSED")
       [] type = "CONTINUE" -> InPhase("EXECUTING")
       [] type = "RTL" -> [InPhase("EXECUTING") EXCEPT !.last = "RETURNING"]
       [] type = "ABORT" -> NoJournal

(* The phase is journalled only once the backend has accepted the report.  *)
ActionReport ==
  /\ pc = "actionReport"
  /\ \/ /\ ReportAccepted(ActionStatus, FALSE)
        /\ journal' = AfterAction
        /\ Answer("COMPLETED")
     \/ /\ ReportRefused(ActionStatus, FALSE)
        /\ UNCHANGED journal
        /\ Answer("FAILED")
  /\ UNCHANGED <<drone, sent>>

PublishArmConfirmation ==
  /\ pc = "publish"
  /\ BackendBeat(work.seen, work.heard)
  /\ At("ack")
  /\ UNCHANGED <<journal, drone, sent>>

FinishCommand ==
  /\ pc = "ack"
  /\ \/ AcknowledgeCommand(work.cmd, Self, work.answer)
     \/ ~Acknowledgeable(work.cmd, Self, work.answer) /\ UNCHANGED rows
  /\ Stop
  /\ UNCHANGED <<journal, drone, sent>>

-------------------------------------------------------------------------------
(* Failures.                                                               *)

(* The gateway dies, or its request is lost: the next cycle starts over.   *)
Interrupted ==
  /\ pc # "heartbeat"
  /\ Stop
  /\ UNCHANGED <<rows, journal, drone, sent>>

(* The backend did what was asked; the gateway never learns.               *)
AnswerLost ==
  /\ \/ /\ pc = "heartbeat"
        /\ \E seen \in Samples, after \in {{}, AcknowledgedArms(Drone)} :
             BackendBeat(seen, after)
     \/ pc = "claim" /\ (ClaimGranted(Current) \/ ClaimRefused(Current))
     \/ pc = "phaseReport" /\ ReportAccepted(PhaseStatus, TRUE)
     \/ pc \in {"flush", "flushPolled"} /\ ReportAccepted(journal.pending, TRUE)
     \/ pc = "failReport" /\ ReportAccepted("FAILED", FALSE)
     \/ pc = "actionReport" /\ ReportAccepted(ActionStatus, FALSE)
     \/ pc = "take" /\ AcknowledgeCommand(work.cmd, Self, "ACKNOWLEDGED")
     \/ pc = "publish" /\ BackendBeat(work.seen, work.heard)
     \/ pc = "ack" /\ AcknowledgeCommand(work.cmd, Self, work.answer)
  /\ Stop
  /\ UNCHANGED <<journal, drone, sent>>

-------------------------------------------------------------------------------
ExecutorStep ==
  \/ RunCycle \/ PollCommands \/ ListMissions \/ Claim
  \/ PhaseReport \/ FlushPendingStatus \/ FailActive
  \/ UploadMission \/ VerifyMission \/ PollMission
  \/ TakeCommand \/ ArmVehicle \/ ActOnVehicle \/ ActionReport
  \/ PublishArmConfirmation \/ FinishCommand

PeopleStep ==
  /\ OrderStep \/ PlanningStep \/ ExportStep \/ CommandStep \/ ClockStep
  /\ UNCHANGED execVars

(* One deployment: the backend keeps admitting this gateway.               *)
ExecNext ==
  /\ ExecutorStep \/ Interrupted \/ AnswerLost \/ DroneStep \/ PeopleStep
  /\ UNCHANGED gatewayId

ExecSpec == Init /\ ExecInit /\ [][ExecNext]_allVars

-------------------------------------------------------------------------------
(* Every status the backend shows is borne out by the vehicle: a mission   *)
(* under way is in its memory from VERIFIED on, it has taken off for it    *)
(* from EXECUTING on, and no progress is reported before it happened,      *)
(* whatever is lost, repeated or restarted on the way and however many     *)
(* missions follow it.                                                     *)
StatusIsEvidence ==
  \A m \in Missions : LET s == mission[m].status IN
    /\ s \in {"VERIFIED"} \cup AirborneStatus => drone.plan = m
    /\ s \in {"COMPLETED"} \cup AirborneStatus => m \in drone.flown
    /\ s = "DESTINATION_REACHED" => drone.progress[m] >= 1
    /\ s = "DELIVERY_CONFIRMED" => drone.progress[m] >= 2
    /\ s = "RETURNING" => drone.progress[m] >= 3 \/ CommandedHome(m)
    /\ s = "COMPLETED" => drone.progress[m] = 4

(* The vehicle only flies the mission an administrator authorized, the     *)
(* gateway claimed and a START was transmitted for, by that gateway, once. *)
FlightIsCommanded ==
  Airborne =>
    /\ drone.plan \in Missions
    /\ mission[drone.plan].claimedBy = Self
    /\ WithStatus(drone.plan, "CONSUMED") # {}
    /\ \E c \in Commands : /\ cmd[c].mission = drone.plan /\ cmd[c].type = "START"
                           /\ cmd[c].gateway = Self /\ sent.commands[c] = 1

(* An upload, an ARM and a START are transmitted at most once, and no      *)
(* second START follows one whose outcome is unknown, across any number of *)
(* lost answers and restarts.                                              *)
TransmittedOnce ==
  /\ \A m \in Missions : sent.uploads[m] <= 1
  /\ \A c \in Commands : cmd[c].type \in {"ARM", "START"} => sent.commands[c] <= 1
  /\ \A c, d \in Commands :
       /\ cmd[c].type = "START" /\ cmd[d].type = "START"
       /\ cmd[c].mission = cmd[d].mission
       /\ sent.commands[c] > 0 /\ sent.commands[d] > 0
       => c = d

(* What is about to be transmitted for a command still stands: the command *)
(* is acknowledged and open at that very moment, although an ABORT may     *)
(* cancel an ARM between its fetch and its acknowledgement; and an ARM or  *)
(* a START finds its mission VERIFIED and nothing else.                    *)
TransmissionIsCurrent ==
  pc \in {"arm", "act"} =>
    /\ cmd[work.cmd].status = "ACKNOWLEDGED"
    /\ cmd[work.cmd].gateway = Self
    /\ cmd[work.cmd].type \in {"ARM", "START"} =>
         mission[cmd[work.cmd].mission].status = "VERIFIED"

(* A mission the backend believes to be under way is the one its gateway   *)
(* has in its journal: none is forgotten by a crash or a lost answer.      *)
NoForgottenFlight ==
  \A m \in Missions : mission[m].status \in FlightStatus => journal.mission = m

(* Every call of the executor is one the backend offers: the invariants of *)
(* MissionBackend hold of the composition.                                 *)
ImplementsBackend == Spec

-------------------------------------------------------------------------------
(* A PAUSE or CONTINUE the vehicle has confirmed is not transmitted again  *)
(* (docs/DRONE_PROTOCOL.md, on a failed HTTP publication).                 *)
ConfirmedNotResent ==
  [][\A c \in sent.confirmed :
       cmd[c].type \in {"PAUSE", "CONTINUE"} => sent'.commands[c] = sent.commands[c]]_allVars

-------------------------------------------------------------------------------
(* Crashes, lost requests and lost answers come to an end, the executor    *)
(* goes on, and an ARM confirmation that can succeed again and again, with *)
(* a heartbeat newer than the acknowledgement, is not late every time.     *)
Fairness ==
  /\ <>[][Interrupted \/ AnswerLost => ExecutorStep]_allVars
  /\ WF_stepVars(ExecutorStep)
  /\ SF_stepVars(RunCycle /\ health'[Drone].after = AcknowledgedArms(Drone))
  /\ SF_stepVars(FinishCommand /\ cmd' # cmd)

FairExecSpec == ExecSpec /\ Fairness

(* An administrator's command never stays open for ever: once the gateway  *)
(* has the mission, it is acknowledged as completed or failed, whatever    *)
(* was lost before (run_cycle, _process_command).                          *)
CommandsAnswered ==
  \A c \in Commands :
    cmd[c].status \in OpenCommandStatus /\ journal.phase # "CLAIM_PENDING"
      ~> cmd[c].status \in {"COMPLETED", "FAILED"}
==============================================================================
