------------------------ MODULE GatewayExecutorProofs ------------------------
(***************************************************************************)
(* Proofs about GatewayExecutor, for any number of missions and commands,  *)
(* on any adapter and whatever is lost or restarted: its types; that every *)
(* call it makes is one the backend offers, so that the theorems of        *)
(* MissionBackendProofs hold of the composition; that nothing is           *)
(* transmitted twice, or for a command that no longer stands; that no      *)
(* flight is forgotten; that what the backend shows is borne out by the    *)
(* vehicle; and that the vehicle flies what was commanded. Three inductive *)
(* invariants build on one another: OnceInv, BookInv and FlightInv.        *)
(***************************************************************************)
EXTENDS GatewayExecutor, MissionBackendProofs

-------------------------------------------------------------------------------
(* The inductive invariant.                                                *)

ReportPhase ==
  {"UPLOADING_PENDING_REPORT", "UPLOADED_PENDING_REPORT",
   "RECOVERED_UPLOAD_PENDING_REPORT", "VERIFIED_PENDING_REPORT",
   "EXECUTING_PENDING_REPORT"}

(* Awaits that concern the journalled mission.                             *)
Engaged ==
  {"claim", "phaseReport", "flush", "flushPolled", "failReport", "actionReport",
   "take", "upload", "verify", "poll", "arm", "act"}

(* Journal, await and work of a cycle fit together: what is awaited has    *)
(* its mission, its report or its command.                                 *)
Fits(j, p, w) ==
  /\ j \in Journal /\ p \in BackendCall \cup VehicleOperation /\ w \in Work
  /\ j.phase # "EMPTY" \/ p \in Engaged => j.mission \in Missions
  /\ p = "phaseReport" => j.phase \in ReportPhase
  /\ p \in {"flush", "flushPolled"} => j.pending # "NONE"
  /\ p \in {"take", "arm", "act", "actionReport"} => w.cmd \in Commands
  /\ p \in {"ack", "publish"} => w.answer # "NONE"
  /\ w.answer # "NONE" => w.cmd \in Commands

(* The command at hand is a row, of a type the step at hand is for.        *)
CommandAtHand ==
  work.cmd \in Commands =>
    /\ cmd[work.cmd].status # "NONE"
    /\ pc \in {"act", "actionReport"} => cmd[work.cmd].type # "ARM"
    /\ pc = "actionReport" => cmd[work.cmd].type # "START"

ExecInv ==
  /\ TypeOK /\ CommandsOfTheHolder
  /\ gatewayId = Self
  /\ drone \in Vehicle /\ sent \in Sent
  /\ Fits(journal, pc, work)
  /\ CommandAtHand

-------------------------------------------------------------------------------
(* Types.                                                                  *)

LEMMA SamplesTyped ==
  ASSUME drone \in Vehicle
  PROVE  Samples \subseteq HealthPosts
BY DroneAssumption DEF Samples, Vehicle

LEMMA NoWorkTyped == NoWork \in Work
BY DroneAssumption DEF NoWork, Work, CommandStatus

LEMMA NoJournalTyped == NoJournal \in Journal
BY DEF NoJournal, Journal, Phase

LEMMA ExecStarts == Init /\ ExecInit => ExecInv
<1> SUFFICES ASSUME Init, ExecInit PROVE ExecInv
  OBVIOUS
<1>1. TypeOK /\ CommandsOfTheHolder
  BY TypeInit, HolderInit
<1>2. drone \in Vehicle
  BY DEF ExecInit, Vehicle
<1>3. sent \in Sent
  BY DEF ExecInit, Sent
<1>4. Fits(journal, pc, work)
  BY NoWorkTyped, NoJournalTyped
  DEF ExecInit, Fits, BackendCall, Engaged, NoJournal, NoWork
<1>5. CommandAtHand
  BY DroneAssumption DEF ExecInit, CommandAtHand, NoWork
<1> QED
  BY <1>1, <1>2, <1>3, <1>4, <1>5 DEF ExecInv, ExecInit

-------------------------------------------------------------------------------
(* Every call is one the backend offers.                                   *)

Offered == GatewayStep \/ ListingStep \/ UNCHANGED rows

LEMMA BeatOffered ==
  ASSUME gatewayId = Self, NEW p \in HealthPosts, NEW after \in SUBSET Commands,
         BackendBeat(p, after)
  PROVE  GatewayStep
BY DroneAssumption DEF BackendBeat, GatewayStep

LEMMA ReportOffered ==
  ASSUME gatewayId = Self, journal.mission \in Missions,
         NEW s \in MissionStatus, NEW kept \in BOOLEAN,
         ReportAccepted(s, kept) \/ ReportRefused(s, kept)
  PROVE  Offered
BY DEF Current, ReportAccepted, ReportRefused, Offered, GatewayStep

LEMMA ClaimOffered ==
  ASSUME gatewayId = Self, journal.mission \in Missions,
         ClaimGranted(journal.mission) \/ ClaimRefused(journal.mission)
  PROVE  Offered
BY DEF ClaimGranted, ClaimReplayed, ClaimRefused, Offered, GatewayStep

LEMMA AnswerOffered ==
  ASSUME gatewayId = Self, NEW c \in Commands,
         NEW s \in {"ACKNOWLEDGED", "COMPLETED", "FAILED"},
         AcknowledgeCommand(c, Self, s)
  PROVE  Offered
BY DEF Offered, GatewayStep, CommandStatus

(* What may be reported of a phase, of progress or of an action.           *)
LEMMA ReportedStatuses ==
  ASSUME ExecInv
  PROVE  /\ pc = "phaseReport" => PhaseStatus \in MissionStatus
         /\ pc \in {"flush", "flushPolled"} => journal.pending \in MissionStatus
         /\ pc = "actionReport" => ActionStatus \in MissionStatus
         /\ "FAILED" \in MissionStatus
<1>0. /\ ProgressStatus \subseteq MissionStatus
      /\ {"UPLOADING", "UPLOADED", "VERIFIED", "EXECUTING", "PAUSED", "RETURNING",
          "ABORTED", "FAILED"} \subseteq MissionStatus
  BY DEF ProgressStatus, ProgressStatuses, MissionStatus, ClaimedStatus, FlightStatus,
         UploadStatus, AirborneStatus, EndStatus
<1>1. CASE pc = "phaseReport"
  BY <1>0, <1>1 DEF ExecInv, Fits, ReportPhase, PhaseStatus
<1>2. CASE pc \in {"flush", "flushPolled"}
  BY <1>0, <1>2 DEF ExecInv, Fits, Journal
<1>3. CASE pc = "actionReport"
  <2>1. cmd[work.cmd].type \in {"PAUSE", "CONTINUE", "RTL", "ABORT"}
    BY <1>3 DEF ExecInv, Fits, CommandAtHand, TypeOK, Command, CommandType
  <2>2. journal.last \in ProgressStatus \cup {"NONE"}
    BY DEF ExecInv, Fits, Journal
  <2> QED
    BY <1>0, <1>3, <2>1, <2>2 DEF ActionStatus
<1> QED
  BY <1>0, <1>1, <1>2, <1>3

LEMMA StepOffered ==
  ASSUME ExecInv, ExecNext
  PROVE  [Next]_vars
<1> gatewayId = Self /\ gatewayId' = gatewayId
  BY DEF ExecInv, ExecNext
<1> SUFFICES ASSUME ~PeopleStep PROVE Offered
  BY DEF Offered, ExecNext, PeopleStep, Next, LoopStep, vars
<1>1. Samples \subseteq HealthPosts /\ AcknowledgedArms(Drone) \subseteq Commands
  BY SamplesTyped DEF ExecInv, AcknowledgedArms
<1>2. work.seen \in HealthPosts /\ work.heard \in SUBSET Commands
  BY DEF ExecInv, Fits, Work
<1>3. pc \in Engaged => journal.mission \in Missions
  BY DEF ExecInv, Fits
<1>4. pc = "ack" => work.cmd \in Commands /\ work.answer \in {"COMPLETED", "FAILED"}
  BY DEF ExecInv, Fits, Work
<1>5. pc = "take" => work.cmd \in Commands
  BY DEF ExecInv, Fits
<1>6. ASSUME NEW s, NEW kept \in BOOLEAN, pc \in Engaged, s \in MissionStatus,
             ReportAccepted(s, kept) \/ ReportRefused(s, kept)
      PROVE  Offered
  BY <1>3, <1>6, ReportOffered
<1>7. CASE RunCycle \/ PublishArmConfirmation
  BY <1>1, <1>2, <1>7, BeatOffered DEF RunCycle, PublishArmConfirmation, Offered
<1>8. CASE ListMissions
  BY <1>8 DEF ListMissions, Offered, ListingStep
<1>9. CASE Claim
  BY <1>3, <1>9, ClaimOffered DEF Claim, Current, Engaged
<1>10. CASE PhaseReport \/ FlushPendingStatus \/ FailActive \/ ActionReport
  BY <1>6, <1>10, ReportedStatuses
  DEF PhaseReport, FlushPendingStatus, FailActive, ActionReport, Engaged
<1>11. CASE TakeCommand \/ FinishCommand
  BY <1>4, <1>5, <1>11, AnswerOffered DEF TakeCommand, FinishCommand, Offered
<1>12. CASE PollCommands \/ UploadMission \/ VerifyMission \/ PollMission \/ ArmVehicle
            \/ ActOnVehicle \/ Interrupted \/ DroneStep
  BY <1>12 DEF PollCommands, UploadMission, VerifyMission, PollMission, ArmVehicle,
               ActOnVehicle, Interrupted, DroneStep, Offered
<1>13. CASE AnswerLost
  <2>1. CASE pc = "heartbeat"
             /\ \E seen \in Samples, after \in {{}, AcknowledgedArms(Drone)} : BackendBeat(seen, after)
    BY <1>1, <2>1, BeatOffered DEF Offered
  <2>2. CASE pc = "claim" /\ (ClaimGranted(Current) \/ ClaimRefused(Current))
    BY <1>3, <2>2, ClaimOffered DEF Current, Engaged
  <2>3. CASE \/ pc = "phaseReport" /\ ReportAccepted(PhaseStatus, TRUE)
             \/ pc \in {"flush", "flushPolled"} /\ ReportAccepted(journal.pending, TRUE)
             \/ pc = "failReport" /\ ReportAccepted("FAILED", FALSE)
             \/ pc = "actionReport" /\ ReportAccepted(ActionStatus, FALSE)
    BY <1>6, <2>3, ReportedStatuses DEF Engaged
  <2>4. CASE \/ pc = "take" /\ AcknowledgeCommand(work.cmd, Self, "ACKNOWLEDGED")
             \/ pc = "ack" /\ AcknowledgeCommand(work.cmd, Self, work.answer)
    BY <1>4, <1>5, <2>4, AnswerOffered
  <2>5. CASE pc = "publish" /\ BackendBeat(work.seen, work.heard)
    BY <1>2, <2>5, BeatOffered DEF Offered
  <2> QED
    BY <1>13, <2>1, <2>2, <2>3, <2>4, <2>5 DEF AnswerLost
<1> QED
  BY <1>7, <1>8, <1>9, <1>10, <1>11, <1>12, <1>13 DEF ExecNext, ExecutorStep

-------------------------------------------------------------------------------
(* A command that is a row stays one, of its type, for its mission, and is *)
(* not pending again.                                                      *)

LEMMA CommandRowsStay ==
  ASSUME TypeOK, [Next]_vars, NEW c \in Commands, cmd[c].status # "NONE"
  PROVE  /\ cmd'[c].status # "NONE" /\ cmd'[c].type = cmd[c].type
         /\ cmd'[c].mission = cmd[c].mission
         /\ cmd[c].status # "PENDING" => cmd'[c].status # "PENDING"
<1> DEFINE Stays == /\ cmd'[c].status # "NONE" /\ cmd'[c].type = cmd[c].type
                    /\ cmd'[c].mission = cmd[c].mission
                    /\ cmd[c].status # "PENDING" => cmd'[c].status # "PENDING"
<1> SUFFICES Stays
  OBVIOUS
<1>1. CASE cmd' = cmd
  BY <1>1
<1>2. ASSUME NEW m \in Missions, NEW k \in CommandType, NEW d \in Commands, Asked(m, k, d)
      PROVE  Stays
  BY <1>2 DEF Asked, RequestCommand, RequestAbort, OpenCommands, TypeOK, Command
<1>3. ASSUME NEW d \in Commands, NEW g \in Gateways,
             NEW s \in CommandStatus \ {"NONE", "PENDING"}, AcknowledgeCommand(d, g, s)
      PROVE  Stays
  BY <1>3 DEF AcknowledgeCommand, TypeOK, Command
<1>4. CASE Quiet \/ OrderStep
  BY <1>1, <1>4 DEF Quiet, OrderStep, SubmitOrder, CancelOrder, ApproveOrder, RejectOrder,
                    MoveOrder
<1>5. ASSUME NEW m \in Missions,
             \/ Planned(m)
             \/ \E v \in Vehicles, a \in Authorizations : AuthorizeFlight(m, v, a)
             \/ \E a \in Authorizations : Withdrawn(m, a)
             \/ \E g \in Gateways, a \in Authorizations : ClaimAccepted(m, g, a)
             \/ \E g \in Gateways, s \in MissionStatus, kept \in BOOLEAN :
                  ReportApplied(m, g, s, kept)
      PROVE  cmd' = cmd
  BY <1>5 DEF Planned, PrepareMission, ExportMission, MarkUnderReview, MarkReviewed,
              AuthorizeFlight, Withdrawn, Invalidate, ClaimAccepted, ReportApplied
<1> QED
  BY StepKinds, <1>1, <1>2, <1>3, <1>4, <1>5 DEF StepKind

-------------------------------------------------------------------------------
(* What every step leaves behind, the command read before it.              *)

Handed(p, w) ==
  w.cmd \in Commands =>
    /\ cmd[w.cmd].status # "NONE"
    /\ p \in {"act", "actionReport"} => cmd[w.cmd].type # "ARM"
    /\ p = "actionReport" => cmd[w.cmd].type # "START"

Left ==
  /\ Fits(journal', pc', work') /\ Handed(pc', work')
  /\ drone' \in Vehicle /\ sent' \in Sent

(* A journal a cycle may end with.                                         *)
Kept(j) == j \in Journal /\ (j.phase # "EMPTY" => j.mission \in Missions)

LEMMA NoJournalKept == Kept(NoJournal)
BY NoJournalTyped DEF Kept, NoJournal

LEMMA StopFits ==
  ASSUME Kept(journal'), Stop
  PROVE  Fits(journal', pc', work') /\ Handed(pc', work')
<1>1. NoWork \in Work /\ NoWork.cmd \notin Commands /\ NoWork.answer = "NONE"
  BY NoWorkTyped, DroneAssumption DEF NoWork
<1> QED
  BY <1>1 DEF Stop, Kept, Fits, Handed, BackendCall, Engaged

LEMMA AnswerFits ==
  ASSUME ExecInv, Kept(journal'), pc' = "ack",
         work' \in Work, work'.cmd = work.cmd, work.cmd \in Commands, work'.answer # "NONE"
  PROVE  Fits(journal', pc', work') /\ Handed(pc', work')
BY DEF ExecInv, CommandAtHand, Kept, Fits, Handed, BackendCall, Engaged

LEMMA FinishFits ==
  ASSUME ExecInv, Kept(journal'), Finish
  PROVE  Fits(journal', pc', work') /\ Handed(pc', work')
<1>1. CASE Stop
  BY <1>1, StopFits
<1>2. CASE work.answer # "NONE" /\ At("ack")
  BY <1>2, AnswerFits DEF At, ExecInv, Fits
<1> QED
  BY <1>1, <1>2 DEF Finish

(* On to another operation on the mission of the journal.                  *)
LEMMA GoesOnFits ==
  ASSUME ExecInv, Kept(journal'), journal'.mission \in Missions,
         NEW p \in Engaged \ {"take", "arm", "act", "actionReport"},
         p = "phaseReport" => journal'.phase \in ReportPhase,
         p \in {"flush", "flushPolled"} => journal'.pending # "NONE",
         At(p)
  PROVE  Fits(journal', pc', work') /\ Handed(pc', work')
BY DEF At, ExecInv, CommandAtHand, Kept, Fits, Handed, BackendCall, VehicleOperation, Engaged

LEMMA PhaseKept ==
  ASSUME NEW j, Kept(j), NEW p \in ActivePhase, j.mission \in Missions
  PROVE  /\ Kept([j EXCEPT !.phase = p])
         /\ [j EXCEPT !.phase = p].mission = j.mission
         /\ [j EXCEPT !.phase = p].phase = p
BY DEF Kept, Journal, Phase

LEMMA ContinueFits ==
  ASSUME ExecInv, NEW j, Kept(j), j.mission \in Missions, Continue(j)
  PROVE  Fits(journal', pc', work') /\ Handed(pc', work')
<1>1. CASE j.phase \in ReportPhase
  <2> journal' = j /\ At("phaseReport")
    BY <1>1 DEF Continue, ReportPhase
  <2> QED
    BY <1>1, GoesOnFits DEF Engaged
<1>2. CASE j.phase = "UPLOADING"
  <2>1. CASE journal' = j /\ Finish
    BY <2>1, FinishFits
  <2>2. CASE journal' = j /\ At("failReport")
    BY <2>2, GoesOnFits DEF Engaged
  <2>3. CASE journal' = [j EXCEPT !.phase = "UPLOAD_COMMAND_SENT"] /\ At("upload")
    BY <2>3, PhaseKept, GoesOnFits DEF Engaged, ActivePhase
  <2> QED
    BY <1>2, <2>1, <2>2, <2>3 DEF Continue
<1>3. CASE j.phase \in {"UPLOAD_COMMAND_SENT", "VERIFYING"}
  <2> journal' = j /\ (At("verify") \/ Finish)
    BY <1>3 DEF Continue
  <2> QED
    BY FinishFits, GoesOnFits DEF Engaged
<1>4. CASE j.phase = "EXECUTING" /\ j.pending # "NONE"
  <2> journal' = j /\ At("flush")
    BY <1>4 DEF Continue
  <2> QED
    BY <1>4, GoesOnFits DEF Engaged
<1>5. CASE j.phase = "EXECUTING" /\ j.pending = "NONE"
  <2> journal' = j /\ (At("poll") \/ Finish)
    BY <1>5 DEF Continue
  <2> QED
    BY FinishFits, GoesOnFits DEF Engaged
<1>6. CASE j.phase \notin ReportPhase
             \cup {"UPLOADING", "UPLOAD_COMMAND_SENT", "VERIFYING", "EXECUTING"}
  <2> journal' = j /\ Finish
    BY <1>6 DEF Continue, ReportPhase
  <2> QED
    BY FinishFits
<1> QED
  BY <1>1, <1>2, <1>3, <1>4, <1>5, <1>6

LEMMA JournalKept == ExecInv => Kept(journal)
BY DEF ExecInv, Fits, Kept

-------------------------------------------------------------------------------
(* The beginning of a cycle.                                               *)

LEMMA RunLeaves ==
  ASSUME ExecInv, RunCycle
  PROVE  Left
<1> drone' \in Vehicle /\ sent' \in Sent
  BY DEF ExecInv, RunCycle
<1> PICK seen \in Samples, after \in {{}, AcknowledgedArms(Drone)} :
      IF journal.phase = "CLAIM_PENDING" /\ ~seen.linked THEN Stop
      ELSE /\ pc' = IF journal.phase = "CLAIM_PENDING" THEN "claim" ELSE "commands"
           /\ work' = [NoWork EXCEPT !.seen = seen, !.heard = after]
  BY DEF RunCycle
<1>1. journal' = journal /\ Kept(journal)
  BY JournalKept DEF RunCycle
<1>2. CASE Stop
  BY <1>1, <1>2, StopFits DEF Left
<1>3. CASE /\ pc' = IF journal.phase = "CLAIM_PENDING" THEN "claim" ELSE "commands"
           /\ work' = [NoWork EXCEPT !.seen = seen, !.heard = after]
  <2>1. seen \in HealthPosts /\ after \in SUBSET Commands
    BY SamplesTyped DEF ExecInv, AcknowledgedArms
  <2>2. work' \in Work /\ work'.cmd \notin Commands /\ work'.answer = "NONE"
    BY <1>3, <2>1, NoWorkTyped, DroneAssumption DEF NoWork, Work
  <2> QED
    BY <1>1, <1>3, <2>2 DEF Left, Fits, Handed, Kept, BackendCall, Engaged
<1> QED
  BY <1>2, <1>3

LEMMA FetchTyped ==
  ASSUME ExecInv, NEW c \in Commands
  PROVE  /\ Fetch(c) \in Work /\ Fetch(c).cmd = c
         /\ \A a \in {"COMPLETED", "FAILED"} :
              /\ [Fetch(c) EXCEPT !.answer = a] \in Work
              /\ [Fetch(c) EXCEPT !.answer = a].cmd = c
              /\ [Fetch(c) EXCEPT !.answer = a].answer = a
BY DEF ExecInv, Fits, Fetch, Work, TypeOK, Command

(* Fetched, and to be acknowledged or taken.                               *)
LEMMA FetchedFits ==
  ASSUME ExecInv, NEW c \in PendingCommands, journal' = journal,
         \/ /\ pc' \in {"ack", "publish"}
            /\ \E a \in {"COMPLETED", "FAILED"} : work' = [Fetch(c) EXCEPT !.answer = a]
         \/ pc' = "take" /\ journal.mission \in Missions /\ work' = Fetch(c)
         \/ /\ pc' = "phaseReport" /\ journal.phase \in ReportPhase
            /\ work' = [Fetch(c) EXCEPT !.answer = "COMPLETED"]
  PROVE  Fits(journal', pc', work') /\ Handed(pc', work')
<1>1. c \in Commands /\ cmd[c].status # "NONE"
  BY DEF PendingCommands, OpenCommandStatus
<1>0. work \in Work /\ cmd[c].status \in CommandStatus
  BY <1>1 DEF ExecInv, Fits, TypeOK, Command
<1>2. work' \in Work /\ work'.cmd = c
  BY <1>0, <1>1 DEF Fetch, Work
<1>3. pc' \in {"ack", "publish"} => work'.answer # "NONE"
  BY <1>0, <1>1 DEF Fetch, Work
<1>4. Kept(journal) /\ (journal.phase \in ReportPhase => journal.mission \in Missions)
  BY JournalKept DEF Kept, ReportPhase
<1> QED
  BY <1>1, <1>2, <1>3, <1>4 DEF Fits, Handed, Kept, BackendCall, Engaged

LEMMA ExecuteFits ==
  ASSUME ExecInv, NEW w \in Work, w.cmd \in Commands, cmd[w.cmd].status # "NONE",
         cmd[w.cmd].type # "ARM", journal.mission \in Missions,
         Execute(cmd[w.cmd].type, w)
  PROVE  Fits(journal', pc', work') /\ Handed(pc', work')
<1>1. CASE Executable(cmd[w.cmd].type)
  <2>1. journal' = journal \/ journal' = [journal EXCEPT !.phase = "START_COMMAND_SENT"]
    BY <1>1 DEF Execute, InPhase
  <2>2. "START_COMMAND_SENT" \in ActivePhase
    BY DEF ActivePhase
  <2>3. Kept(journal)
    BY JournalKept
  <2>4. LET j == [journal EXCEPT !.phase = "START_COMMAND_SENT"]
        IN  Kept(j) /\ j.mission = journal.mission
    BY <2>2, <2>3, PhaseKept
  <2>5. Kept(journal') /\ journal'.mission = journal.mission
    BY <2>1, <2>3, <2>4
  <2> QED
    BY <1>1, <2>5 DEF Execute, Fits, Handed, Kept, VehicleOperation, Engaged
<1>2. CASE ~Executable(cmd[w.cmd].type)
  <2>1. [w EXCEPT !.answer = "FAILED"] \in Work /\ [w EXCEPT !.answer = "FAILED"].cmd = w.cmd
        /\ [w EXCEPT !.answer = "FAILED"].answer = "FAILED"
    BY DEF Work
  <2> QED
    BY <1>2, <2>1, JournalKept DEF Execute, Fits, Handed, Kept, BackendCall, Engaged
<1> QED
  BY <1>1, <1>2

LEMMA PollLeaves ==
  ASSUME ExecInv, PollCommands
  PROVE  Left
<1> drone' \in Vehicle /\ sent' \in Sent
  BY DEF ExecInv, PollCommands
<1> SUFFICES Fits(journal', pc', work') /\ Handed(pc', work')
  BY DEF Left
<1>1. ASSUME NEW c \in PendingCommands,
             CASE cmd[c].mission # Current ->
                    /\ pc' = "ack" /\ work' = [Fetch(c) EXCEPT !.answer = "FAILED"]
                    /\ UNCHANGED journal
               [] cmd[c].mission = Current /\ cmd[c].type = "ARM" ->
                    ProcessArm(c) /\ UNCHANGED journal
               [] OTHER -> ProcessOther(c)
      PROVE  Fits(journal', pc', work') /\ Handed(pc', work')
  <2>1. c \in Commands /\ cmd[c].status # "NONE" /\ cmd[c].mission \in Missions
    BY DEF PendingCommands, OpenCommandStatus, ExecInv, CommandsOfTheHolder, TypeOK, Command
  <2>2. CASE cmd[c].mission # Current
    BY <1>1, <2>2, FetchedFits
  <2>3. CASE cmd[c].mission = Current /\ cmd[c].type = "ARM"
    <3> ProcessArm(c) /\ journal' = journal
      BY <1>1, <2>3
    <3> QED
      BY <2>1, <2>3, FetchedFits DEF ProcessArm, Current
  <2>4. CASE cmd[c].mission = Current /\ cmd[c].type # "ARM"
    <3> ProcessOther(c)
      BY <1>1, <2>4
    <3>1. CASE /\ pc' = "ack" /\ journal' = journal
               /\ \E a \in {"COMPLETED", "FAILED"} : work' = [Fetch(c) EXCEPT !.answer = a]
      BY <3>1, FetchedFits
    <3>2. CASE /\ journal.phase = "EXECUTING_PENDING_REPORT"
               /\ pc' = "phaseReport" /\ work' = [Fetch(c) EXCEPT !.answer = "COMPLETED"]
               /\ journal' = journal
      BY <3>2, FetchedFits DEF ReportPhase
    <3>3. CASE pc' = "take" /\ work' = Fetch(c) /\ journal' = journal
      BY <2>1, <2>4, <3>3, FetchedFits DEF Current
    <3>4. CASE Execute(cmd[c].type, Fetch(c))
      <4> Fetch(c) \in Work /\ Fetch(c).cmd = c /\ journal.mission \in Missions
        BY <2>1, <2>4, FetchTyped DEF Current
      <4> Execute(cmd[Fetch(c).cmd].type, Fetch(c))
        BY <3>4
      <4> QED
        BY <2>1, <2>4, ExecuteFits
    <3> QED
      BY <3>1, <3>2, <3>3, <3>4 DEF ProcessOther
  <2> QED
    BY <2>2, <2>3, <2>4
<1>2. CASE journal.phase # "EMPTY" /\ Continue(journal)
  BY <1>2, JournalKept, ContinueFits DEF Kept
<1>3. CASE journal' = journal /\ Stop
  BY <1>3, JournalKept, StopFits
<1>4. CASE journal' = journal /\ journal.phase = "EMPTY" /\ At("missions")
  BY <1>4, JournalKept
  DEF At, ExecInv, CommandAtHand, Fits, Handed, BackendCall, Engaged, Kept
<1> QED
  BY <1>1, <1>2, <1>3, <1>4 DEF PollCommands

-------------------------------------------------------------------------------
(* Claims and reports.                                                     *)

LEMMA InPhaseKept ==
  ASSUME Kept(journal), journal.mission \in Missions, NEW p \in ActivePhase
  PROVE  /\ Kept(InPhase(p))
         /\ InPhase(p).mission = journal.mission /\ InPhase(p).phase = p
BY PhaseKept DEF InPhase

LEMMA StayFits ==
  ASSUME ExecInv, UNCHANGED <<journal, pc, work>>
  PROVE  Fits(journal', pc', work') /\ Handed(pc', work')
BY DEF ExecInv, CommandAtHand, Handed

LEMMA OffersLeave ==
  ASSUME ExecInv, ListMissions \/ Claim
  PROVE  Left
<1> drone' \in Vehicle /\ sent' \in Sent
  BY DEF ExecInv, ListMissions, Claim, execVars
<1> SUFFICES Fits(journal', pc', work') /\ Handed(pc', work')
  BY DEF Left
<1>1. CASE UNCHANGED execVars
  BY <1>1, StayFits DEF execVars
<1>2. CASE journal' \in {journal, NoJournal} /\ Stop
  BY <1>2, JournalKept, NoJournalKept, StopFits
<1>3. ASSUME NEW m \in Missions, At("claim"),
             journal' = [NoJournal EXCEPT !.phase = "CLAIM_PENDING", !.mission = m]
      PROVE  Fits(journal', pc', work') /\ Handed(pc', work')
  <2> Kept(journal') /\ journal'.mission \in Missions
    BY <1>3 DEF Kept, NoJournal, Journal, Phase
  <2> QED
    BY <1>3, GoesOnFits DEF Engaged
<1>4. CASE Claim
  <2>1. Kept(journal) /\ journal.mission \in Missions
    BY <1>4, JournalKept DEF Claim, ExecInv, Fits, Engaged
  <2>2. CASE journal' = InPhase("UPLOADING_PENDING_REPORT") /\ At("phaseReport")
    <3> "UPLOADING_PENDING_REPORT" \in ActivePhase \cap ReportPhase
      BY DEF ActivePhase, ReportPhase
    <3> QED
      BY <2>1, <2>2, InPhaseKept, GoesOnFits DEF Engaged
  <2>3. CASE journal' = journal /\ At("failReport")
    BY <2>1, <2>3, GoesOnFits DEF Engaged
  <2> QED
    BY <1>2, <1>4, <2>2, <2>3 DEF Claim
<1> QED
  BY <1>1, <1>2, <1>3, <1>4 DEF ListMissions

LEMMA ReportsLeave ==
  ASSUME ExecInv, PhaseReport \/ FlushPendingStatus \/ FailActive
  PROVE  Left
<1> drone' \in Vehicle /\ sent' \in Sent
  BY DEF ExecInv, PhaseReport, FlushPendingStatus, FailActive
<1> SUFFICES Fits(journal', pc', work') /\ Handed(pc', work')
  BY DEF Left
<1>1. Kept(journal) /\ journal.mission \in Missions
  BY JournalKept DEF PhaseReport, FlushPendingStatus, FailActive, ExecInv, Fits, Engaged
<1>2. CASE journal' \in {journal, NoJournal} /\ Stop
  BY <1>1, <1>2, NoJournalKept, StopFits
<1>3. CASE PhaseReport /\ Continue(InPhase(PhaseAfterReport))
  <2> PhaseAfterReport \in ActivePhase
    BY <1>3 DEF PhaseReport, ExecInv, Fits, ReportPhase, PhaseAfterReport, ActivePhase
  <2> QED
    BY <1>1, <1>3, InPhaseKept, ContinueFits
<1>4. CASE FlushPendingStatus /\ journal' = Flushed
  <2>1. CASE journal.pending = "COMPLETED"
    <3> Finish \/ Stop
      BY <1>4, <2>1 DEF FlushPendingStatus
    <3> QED
      BY <1>4, <2>1, NoJournalKept, FinishFits, StopFits DEF Flushed
  <2>2. CASE journal.pending # "COMPLETED"
    <3>1. journal.pending \in ProgressStatus
      BY <1>4 DEF FlushPendingStatus, ExecInv, Fits, Journal
    <3>2. Kept(journal') /\ journal'.mission \in Missions
      BY <1>1, <1>4, <2>2, <3>1 DEF Flushed, Kept, Journal
    <3>3. Finish \/ At("poll") \/ Stop
      BY <1>4 DEF FlushPendingStatus
    <3> QED
      BY <3>2, <3>3, FinishFits, StopFits, GoesOnFits DEF Engaged
  <2> QED
    BY <2>1, <2>2
<1> QED
  BY <1>2, <1>3, <1>4 DEF PhaseReport, FlushPendingStatus, FailActive

-------------------------------------------------------------------------------
(* Operations on the vehicle outside a command.                            *)

LEMMA AgainTyped == \A n \in 0 .. 2 : Again(n) \in 0 .. 2
BY DEF Again

LEMMA UploadLeaves ==
  ASSUME ExecInv, UploadMission
  PROVE  Left
<1>1. Kept(journal) /\ journal.mission \in Missions
  BY JournalKept DEF UploadMission, ExecInv, Fits, Engaged
<1>2. sent' \in Sent
  BY AgainTyped DEF UploadMission, ExecInv, Sent
<1>3. drone' \in Vehicle
  BY <1>1 DEF UploadMission, ExecInv, Vehicle, Current
<1>4. CASE journal' = InPhase("UPLOADED_PENDING_REPORT") /\ At("phaseReport")
  <2> "UPLOADED_PENDING_REPORT" \in ActivePhase \cap ReportPhase
    BY DEF ActivePhase, ReportPhase
  <2> QED
    BY <1>1, <1>2, <1>3, <1>4, InPhaseKept, GoesOnFits DEF Left, Engaged
<1>5. CASE journal' = journal /\ (Finish \/ At("failReport"))
  BY <1>1, <1>2, <1>3, <1>5, FinishFits, GoesOnFits DEF Left, Engaged
<1> QED
  BY <1>4, <1>5 DEF UploadMission

LEMMA VerifyLeaves ==
  ASSUME ExecInv, VerifyMission
  PROVE  Left
<1> drone' \in Vehicle /\ sent' \in Sent
  BY DEF ExecInv, VerifyMission
<1>1. Kept(journal) /\ journal.mission \in Missions
  BY JournalKept DEF VerifyMission, ExecInv, Fits, Engaged
<1>2. {"VERIFIED_PENDING_REPORT", "RECOVERED_UPLOAD_PENDING_REPORT"}
        \subseteq ActivePhase \cap ReportPhase /\ "UPLOAD_RECOVERY_BLOCKED" \in ActivePhase
  BY DEF ActivePhase, ReportPhase
<1>3. ASSUME NEW p \in {"VERIFIED_PENDING_REPORT", "RECOVERED_UPLOAD_PENDING_REPORT"},
             journal' = InPhase(p), At("phaseReport")
      PROVE  Left
  BY <1>1, <1>2, <1>3, InPhaseKept, GoesOnFits DEF Left, Engaged
<1>4. CASE journal' \in {journal, InPhase("UPLOAD_RECOVERY_BLOCKED")} /\ Finish
  BY <1>1, <1>2, <1>4, InPhaseKept, FinishFits DEF Left
<1> QED
  BY <1>3, <1>4 DEF VerifyMission

LEMMA Indices ==
  \A s \in ProgressStatus : ProgressIndex(s) \in 1 .. 4
<1> SUFFICES ASSUME NEW s \in ProgressStatus PROVE ProgressIndex(s) \in 1 .. 4
  OBVIOUS
<1>1. s # "NONE" /\ \E i \in 1 .. 4 : ProgressStatuses[i] = s
  BY DEF ProgressStatus, ProgressStatuses
<1> QED
  BY <1>1 DEF ProgressIndex

LEMMA PollsLeave ==
  ASSUME ExecInv, PollMission
  PROVE  Left
<1> drone' \in Vehicle /\ sent' \in Sent
  BY DEF ExecInv, PollMission
<1>1. Kept(journal) /\ journal.mission \in Missions
  BY JournalKept DEF PollMission, ExecInv, Fits, Engaged
<1>2. CASE journal' = journal /\ Finish
  BY <1>1, <1>2, FinishFits DEF Left
<1>3. CASE /\ ProgressIndex(journal.last) < drone.progress[journal.mission]
           /\ journal' = [journal EXCEPT
                            !.pending = ProgressStatuses[ProgressIndex(journal.last) + 1]]
           /\ At("flushPolled")
  <2> DEFINE i == ProgressIndex(journal.last)
  <2>0. drone.progress[journal.mission] \in 0 .. 4
    BY <1>1 DEF ExecInv, Vehicle
  <2>1. i \in 0 .. 4
    BY Indices DEF ProgressIndex, ExecInv, Fits, Journal
  <2>3. i + 1 \in 1 .. 4
    BY <1>3, <2>0, <2>1
  <2>4. ProgressStatuses[i + 1] \in ProgressStatus
    BY <2>3 DEF ProgressStatus
  <2>5. \A s \in ProgressStatus : s # "NONE"
    BY DEF ProgressStatus, ProgressStatuses
  <2>6. journal' = [journal EXCEPT !.pending = ProgressStatuses[i + 1]]
    BY <1>3
  <2> HIDE DEF i
  <2>7. Kept(journal') /\ journal'.mission = journal.mission /\ journal'.pending # "NONE"
    BY <1>1, <2>4, <2>5, <2>6 DEF Kept, Journal
  <2> QED
    BY <1>1, <1>3, <2>7, GoesOnFits DEF Left, Engaged
<1> QED
  BY <1>2, <1>3 DEF PollMission, Current

-------------------------------------------------------------------------------
(* Commands.                                                               *)

LEMMA TransmittedTyped ==
  ASSUME ExecInv, work.cmd \in Commands, NEW b \in BOOLEAN, Transmitted(b)
  PROVE  sent' \in Sent
BY AgainTyped DEF ExecInv, Transmitted, Sent

LEMMA AnsweredFits ==
  ASSUME ExecInv, Kept(journal'), work.cmd \in Commands,
         NEW a \in {"COMPLETED", "FAILED"}, Answer(a)
  PROVE  Fits(journal', pc', work') /\ Handed(pc', work')
<1> work' \in Work /\ work'.cmd = work.cmd /\ work'.answer # "NONE"
  BY DEF Answer, ExecInv, Fits, Work
<1> QED
  BY AnswerFits DEF Answer

LEMMA TakeLeaves ==
  ASSUME ExecInv, TakeCommand
  PROVE  Left
<1> drone' \in Vehicle /\ sent' \in Sent
  BY DEF ExecInv, TakeCommand
<1>1. /\ Kept(journal) /\ journal.mission \in Missions
      /\ work \in Work /\ work.cmd \in Commands /\ cmd[work.cmd].status # "NONE"
  BY JournalKept DEF TakeCommand, ExecInv, Fits, Engaged, CommandAtHand
<1>2. CASE cmd[work.cmd].type # "ARM" /\ Execute(cmd[work.cmd].type, work)
  BY <1>1, <1>2, ExecuteFits DEF Left
<1>3. CASE journal' = journal /\ pc' = "publish" /\ work' = [work EXCEPT !.answer = "COMPLETED"]
  <2> work' \in Work /\ work'.cmd = work.cmd /\ work'.answer = "COMPLETED"
    BY <1>1, <1>3 DEF Work
  <2> QED
    BY <1>1, <1>3 DEF Left, Fits, Handed, Kept, BackendCall, Engaged
<1>4. CASE journal' = journal /\ At("arm")
  BY <1>1, <1>4
  DEF At, Left, ExecInv, CommandAtHand, Fits, Handed, Kept, VehicleOperation, Engaged
<1>5. CASE journal' = journal /\ Stop
  BY <1>1, <1>5, StopFits DEF Left
<1> QED
  BY <1>2, <1>3, <1>4, <1>5 DEF TakeCommand

LEMMA ArmLeaves ==
  ASSUME ExecInv, ArmVehicle
  PROVE  Left
<1>1. /\ Kept(journal) /\ journal' = journal
      /\ work \in Work /\ work.cmd \in Commands /\ cmd[work.cmd].status # "NONE"
  BY JournalKept DEF ArmVehicle, ExecInv, Fits, CommandAtHand
<1>2. sent' \in Sent
  BY <1>1, TransmittedTyped DEF ArmVehicle, ExecInv
<1>3. drone' \in Vehicle
  BY DEF ArmVehicle, ExecInv, Vehicle
<1>4. ASSUME NEW seen \in Samples', pc' = "publish",
             work' = [work EXCEPT !.seen = seen, !.heard = AcknowledgedArms(Drone),
                                  !.answer = "COMPLETED"]
      PROVE  Left
  <2>1. Samples' \subseteq HealthPosts
    BY <1>3, DroneAssumption DEF Samples, Vehicle
  <2>2. work' \in Work /\ work'.cmd = work.cmd /\ work'.answer = "COMPLETED"
    BY <1>1, <1>4, <2>1 DEF Work, AcknowledgedArms
  <2> QED
    BY <1>1, <1>2, <1>3, <1>4, <2>2 DEF Left, Fits, Handed, Kept, BackendCall, Engaged
<1>5. CASE Answer("FAILED")
  BY <1>1, <1>2, <1>3, <1>5, AnsweredFits DEF Left
<1> QED
  BY <1>4, <1>5 DEF ArmVehicle

LEMMA EffectTyped ==
  ASSUME ExecInv, NEW k, Effect(k), journal.mission \in Missions,
         k \in {"START", "PAUSE", "CONTINUE", "RTL", "ABORT"}
  PROVE  drone' \in Vehicle
<1>1. drone \in Vehicle
  BY DEF ExecInv
<1>2. CASE k = "START"
  <2>1. drone.flown \cup {journal.mission} \in SUBSET Missions
    BY <1>1 DEF Vehicle
  <2>2. drone' = [drone EXCEPT !.mode = "auto", !.flown = drone.flown \cup {journal.mission}]
    BY <1>2 DEF Effect, Current
  <2> QED
    BY <1>1, <2>1, <2>2 DEF Vehicle
<1>3. CASE k \in {"PAUSE", "CONTINUE", "RTL"}
  BY <1>1, <1>3 DEF Effect, Vehicle
<1>4. CASE k = "ABORT"
  BY <1>1, <1>4 DEF Effect, Vehicle
<1> QED
  BY <1>2, <1>3, <1>4

LEMMA ActLeaves ==
  ASSUME ExecInv, ActOnVehicle
  PROVE  Left
<1> DEFINE k == cmd[work.cmd].type
<1>1. /\ Kept(journal) /\ journal.mission \in Missions
      /\ work \in Work /\ work.cmd \in Commands /\ cmd[work.cmd].status # "NONE"
      /\ k \in {"START", "PAUSE", "CONTINUE", "RTL", "ABORT"}
  BY JournalKept
  DEF ActOnVehicle, ExecInv, Fits, CommandAtHand, Engaged, TypeOK, Command, CommandType
<1>2. sent' \in Sent
  BY <1>1, TransmittedTyped DEF ActOnVehicle
<1>3. drone' \in Vehicle
  BY <1>1, EffectTyped DEF ActOnVehicle, ExecInv
<1>4. CASE journal' = InPhase("EXECUTING_PENDING_REPORT")
  <2>1. "EXECUTING_PENDING_REPORT" \in ActivePhase \cap ReportPhase
    BY DEF ActivePhase, ReportPhase
  <2>2. Kept(journal') /\ journal'.mission \in Missions /\ journal'.phase \in ReportPhase
    BY <1>1, <1>4, <2>1, InPhaseKept
  <2>3. ASSUME NEW seen \in Samples', pc' = "phaseReport",
               work' = [work EXCEPT !.seen = seen, !.answer = "COMPLETED"]
        PROVE  Left
    <3>1. Samples' \subseteq HealthPosts
      BY <1>3, DroneAssumption DEF Samples, Vehicle
    <3>2. work' \in Work /\ work'.cmd = work.cmd /\ work'.answer = "COMPLETED"
      BY <1>1, <2>3, <3>1 DEF Work
    <3> QED
      BY <1>1, <1>2, <1>3, <2>2, <2>3, <3>2
      DEF Left, Fits, Handed, Kept, BackendCall, Engaged
  <2>4. CASE Answer("FAILED")
    BY <1>1, <1>2, <1>3, <2>2, <2>4, AnsweredFits DEF Left
  <2>5. CASE k # "START" /\ At("actionReport")
    BY <1>1, <1>2, <1>3, <2>2, <2>5
    DEF At, Left, ExecInv, Fits, Handed, Kept, BackendCall, Engaged
  <2> QED
    BY <1>4, <2>3, <2>4, <2>5 DEF ActOnVehicle
<1>5. CASE k # "START" /\ journal' = journal /\ At("actionReport")
  BY <1>1, <1>2, <1>3, <1>5
  DEF At, Left, ExecInv, Fits, Handed, Kept, BackendCall, Engaged
<1>6. CASE journal' = journal /\ Answer("FAILED")
  BY <1>1, <1>2, <1>3, <1>6, AnsweredFits DEF Left
<1> QED
  BY <1>4, <1>5, <1>6 DEF ActOnVehicle

LEMMA ActionLeaves ==
  ASSUME ExecInv, ActionReport
  PROVE  Left
<1> drone' \in Vehicle /\ sent' \in Sent
  BY DEF ExecInv, ActionReport
<1>1. /\ Kept(journal) /\ journal.mission \in Missions /\ work.cmd \in Commands
      /\ cmd[work.cmd].type \in {"PAUSE", "CONTINUE", "RTL", "ABORT"}
  BY JournalKept
  DEF ActionReport, ExecInv, Fits, CommandAtHand, Engaged, TypeOK, Command, CommandType
<1>2. Kept(AfterAction)
  <2>1. {"PAUSED", "EXECUTING"} \subseteq ActivePhase
    BY DEF ActivePhase
  <2>2. Kept(InPhase("PAUSED")) /\ Kept(InPhase("EXECUTING"))
    BY <1>1, <2>1, InPhaseKept
  <2>3. Kept([InPhase("EXECUTING") EXCEPT !.last = "RETURNING"])
    <3>1. InPhase("EXECUTING") \in Journal /\ InPhase("EXECUTING").mission \in Missions
      BY <1>1, <2>1, InPhaseKept DEF Kept
    <3>2. "RETURNING" \in ProgressStatus
      BY DEF ProgressStatus, ProgressStatuses
    <3> QED
      BY <3>1, <3>2 DEF Kept, Journal
  <2> QED
    BY <1>1, <2>2, <2>3, NoJournalKept DEF AfterAction
<1>3. CASE journal' = AfterAction /\ Answer("COMPLETED")
  BY <1>1, <1>2, <1>3, AnsweredFits DEF Left
<1>4. CASE journal' = journal /\ Answer("FAILED")
  BY <1>1, <1>4, AnsweredFits DEF Left
<1> QED
  BY <1>3, <1>4 DEF ActionReport

LEMMA DroneStepTyped ==
  ASSUME drone \in Vehicle, DroneStep
  PROVE  drone' \in Vehicle
<1> DEFINE p == drone.progress[drone.plan]
<1>1. drone.progress \in [Missions -> 0 .. 4]
  BY DEF Vehicle
<1>2. CASE drone' = [drone EXCEPT !.armed = ~drone.armed]
  BY <1>2 DEF Vehicle
<1>3. CASE drone' = [drone EXCEPT !.mode = "landed", !.armed = FALSE]
  BY <1>3 DEF Vehicle
<1>4. CASE drone' = [drone EXCEPT !.mode = "ground"]
  BY <1>4 DEF Vehicle
<1>5. ASSUME NEW n \in 0 .. 4
      PROVE  [drone.progress EXCEPT ![drone.plan] = n] \in [Missions -> 0 .. 4]
  BY <1>1
<1>6. CASE p < 3 /\ drone' = [drone EXCEPT !.progress[drone.plan] = p + 1]
  <2>1. CASE drone.plan \in Missions
    <3>1. p \in 0 .. 4 /\ p + 1 \in 0 .. 4
      BY <1>1, <1>6, <2>1
    <3> QED
      BY <1>6, <1>5, <3>1 DEF Vehicle
  <2>2. CASE drone.plan \notin Missions
    <3>1. [drone.progress EXCEPT ![drone.plan] = p + 1] = drone.progress
      BY <1>1, <2>2
    <3> QED
      BY <1>6, <3>1 DEF Vehicle
  <2> QED
    BY <2>1, <2>2
<1>7. CASE drone' = [drone EXCEPT !.progress[drone.plan] = 4, !.mode = "landed",
                                  !.armed = FALSE]
  <2>1. [drone.progress EXCEPT ![drone.plan] = 4] \in [Missions -> 0 .. 4]
    BY <1>5
  <2> QED
    BY <1>7, <2>1 DEF Vehicle
<1> QED
  BY <1>2, <1>3, <1>4, <1>6, <1>7 DEF DroneStep

LEMMA OthersLeave ==
  ASSUME ExecInv,
         \/ PublishArmConfirmation \/ FinishCommand
         \/ Interrupted \/ AnswerLost \/ DroneStep \/ PeopleStep
  PROVE  Left
<1>1. sent' \in Sent
  BY DEF ExecInv, PublishArmConfirmation, FinishCommand, Interrupted, AnswerLost, DroneStep,
         PeopleStep, execVars
<1>2. drone' \in Vehicle
  BY DroneStepTyped
  DEF ExecInv, PublishArmConfirmation, FinishCommand, Interrupted, AnswerLost, PeopleStep, execVars
<1>3. CASE journal' = journal /\ Stop
  BY <1>1, <1>2, <1>3, JournalKept, StopFits DEF Left
<1>4. CASE UNCHANGED <<journal, pc, work>>
  BY <1>1, <1>2, <1>4, StayFits DEF Left
<1>5. CASE PublishArmConfirmation
  <2> /\ Kept(journal) /\ journal' = journal /\ pc' = "ack" /\ work' = work
      /\ work \in Work /\ work.cmd \in Commands /\ work.answer # "NONE"
    BY <1>5, JournalKept DEF PublishArmConfirmation, At, ExecInv, Fits
  <2> QED
    BY <1>1, <1>2, AnswerFits DEF Left
<1> QED
  BY <1>3, <1>4, <1>5
  DEF FinishCommand, Interrupted, AnswerLost, DroneStep, PeopleStep, execVars

-------------------------------------------------------------------------------
(* The invariant, and what follows from it.                                *)

LEMMA StepLeaves ==
  ASSUME ExecInv, [ExecNext]_allVars
  PROVE  Left
<1>1. CASE ExecNext
  BY <1>1, RunLeaves, PollLeaves, OffersLeave, ReportsLeave, UploadLeaves, VerifyLeaves,
     PollsLeave, TakeLeaves, ArmLeaves, ActLeaves, ActionLeaves, OthersLeave
  DEF ExecNext, ExecutorStep
<1>2. CASE UNCHANGED allVars
  BY <1>2, StayFits DEF allVars, execVars, Left, ExecInv
<1> QED
  BY <1>1, <1>2

LEMMA ExecStep == ExecInv /\ [ExecNext]_allVars => ExecInv'
<1> SUFFICES ASSUME ExecInv, [ExecNext]_allVars PROVE ExecInv'
  OBVIOUS
<1>1. [Next]_vars
  BY StepOffered DEF allVars
<1>2. TypeOK' /\ CommandsOfTheHolder'
  BY <1>1, TypeStep, HolderStep DEF ExecInv
<1>3. gatewayId' = Self
  BY DEF ExecInv, ExecNext, allVars, vars
<1>4. Left
  BY StepLeaves
<1>5. CommandAtHand'
  <2> SUFFICES ASSUME work'.cmd \in Commands
               PROVE  /\ cmd'[work'.cmd].status # "NONE"
                      /\ pc' \in {"act", "actionReport"} => cmd'[work'.cmd].type # "ARM"
                      /\ pc' = "actionReport" => cmd'[work'.cmd].type # "START"
    BY DEF CommandAtHand
  <2>1. /\ cmd[work'.cmd].status # "NONE"
        /\ pc' \in {"act", "actionReport"} => cmd[work'.cmd].type # "ARM"
        /\ pc' = "actionReport" => cmd[work'.cmd].type # "START"
    BY <1>4 DEF Left, Handed
  <2>2. cmd'[work'.cmd].status # "NONE" /\ cmd'[work'.cmd].type = cmd[work'.cmd].type
    BY <1>1, <2>1, CommandRowsStay DEF ExecInv
  <2> QED
    BY <2>1, <2>2
<1> QED
  BY <1>2, <1>3, <1>4, <1>5 DEF ExecInv, Left

LEMMA ExecInductive == ExecSpec => []ExecInv
<1> QED
  BY ExecStarts, ExecStep, PTL DEF ExecSpec

(* The journal, the await and the work of a cycle keep their types through *)
(* every failure, lost answer and restart of the executor.                 *)
THEOREM ExecTypeCorrect == ExecSpec => []ExecTypeOK
<1>1. ExecInv => ExecTypeOK
  BY DEF ExecInv, Fits, ExecTypeOK
<1> QED
  BY <1>1, ExecInductive, PTL

(* Every call of the executor (run_cycle and what it awaits) is one the    *)
(* backend offers to the gateway of its deployment: with a mission, a      *)
(* command and a status of its vocabulary, whatever was lost before.       *)
THEOREM ExecutorUsesBackend == ExecSpec => ImplementsBackend
<1>1. Init /\ ExecInit => Init
  OBVIOUS
<1>2. ExecInv /\ [ExecNext]_allVars => [Next]_vars
  BY StepOffered DEF allVars
<1> QED
  BY <1>1, <1>2, ExecInductive, PTL DEF ExecSpec, ImplementsBackend, Spec

(* The safety of the backend is therefore the safety of the composition    *)
(* with its gateway: one permission per flight, one open command per       *)
(* mission, commands answered by the holder, orders that follow missions.  *)
THEOREM CompositionSafety ==
  ExecSpec => [](OnePermissionPerFlight /\ OrderFollowsMission
                 /\ CommandsOfTheHolder /\ OneOpenCommand)
<1> QED
  BY ExecutorUsesBackend, PermissionSafety, OrderSafety, HolderSafety, CommandSafety, PTL
  DEF ImplementsBackend

-------------------------------------------------------------------------------
(* Nothing is transmitted twice.                                           *)

(* Phases before the upload, and before the start, is journalled.          *)
BeforeUpload == {"CLAIM_PENDING", "UPLOADING_PENDING_REPORT", "UPLOADING"}
BeforeStart ==
  BeforeUpload \cup
  {"UPLOAD_COMMAND_SENT", "UPLOAD_RECOVERY_BLOCKED", "RECOVERED_UPLOAD_PENDING_REPORT",
   "UPLOADED_PENDING_REPORT", "VERIFYING", "VERIFIED_PENDING_REPORT",
   "WAITING_OPERATOR_ARM"}

StartsSent(m) ==
  {c \in Commands : /\ cmd[c].type = "START" /\ cmd[c].mission = m
                    /\ sent.commands[c] > 0}

(* What is journalled as still to be transmitted was not transmitted.      *)
Due(j, p, w) ==
  /\ j.phase \in BeforeUpload => sent.uploads[j.mission] = 0
  /\ j.phase \in BeforeStart => StartsSent(j.mission) = {}
  /\ p = "claim" => j.phase = "CLAIM_PENDING"
  /\ p = "upload" => j.phase = "UPLOAD_COMMAND_SENT" /\ sent.uploads[j.mission] = 0
  /\ p = "verify" => j.phase \in {"UPLOAD_COMMAND_SENT", "VERIFYING"}
  /\ p \in {"take", "arm", "act", "actionReport"} => cmd[w.cmd].mission = j.mission
  /\ p = "arm" => cmd[w.cmd].type = "ARM" /\ sent.commands[w.cmd] = 0
  /\ p = "act" /\ cmd[w.cmd].type = "START" =>
       j.phase = "START_COMMAND_SENT" /\ StartsSent(j.mission) = {}

(* What was transmitted, was for a mission that is claimed and for a       *)
(* command that is acknowledged.                                           *)
SentIsKnown ==
  /\ \A m \in Missions : sent.uploads[m] > 0 => mission[m].status \in ClaimedStatus
  /\ \A c \in Commands : sent.commands[c] > 0 => cmd[c].status \notin {"NONE", "PENDING"}

Held(j) ==
  j.phase \notin {"EMPTY", "CLAIM_PENDING"} => mission[j.mission].status \in ClaimedStatus

Taken(p, w) == p \in {"arm", "act"} => cmd[w.cmd].status # "PENDING"

OnceInv ==
  /\ ExecInv
  /\ Due(journal, pc, work) /\ Held(journal) /\ Taken(pc, work)
  /\ SentIsKnown
  /\ TransmittedOnce

LEMMA ClaimedStays ==
  ASSUME TypeOK, [Next]_vars, NEW m \in Missions, mission[m].status \in ClaimedStatus
  PROVE  mission'[m].status \in ClaimedStatus
<1>1. mission[m].status \notin {"NONE", "AUTHORIZED"} \cup PlanningStatus
  BY DEF PlanningStatus, ClaimedStatus, FlightStatus, UploadStatus, AirborneStatus, EndStatus
<1>2. CASE mission' = mission
  BY <1>2
<1>3. CASE OrderStep \/ Quiet
  BY <1>2, <1>3 DEF Quiet, OrderStep, SubmitOrder, CancelOrder, ApproveOrder, RejectOrder,
                    MoveOrder
<1>4. ASSUME NEW n \in Missions, Planned(n)
      PROVE  mission'[m].status \in ClaimedStatus
  BY <1>1, <1>4 DEF Planned, PrepareMission, ExportMission, MarkUnderReview, MarkReviewed,
                    PlanningStatus, TypeOK
<1>5. ASSUME NEW n \in Missions, NEW v \in Vehicles, NEW a \in Authorizations,
             AuthorizeFlight(n, v, a)
      PROVE  mission'[m].status \in ClaimedStatus
  BY <1>1, <1>5 DEF AuthorizeFlight, PlanningStatus, TypeOK
<1>6. ASSUME NEW n \in Missions, NEW a \in Authorizations, Withdrawn(n, a)
      PROVE  mission'[m].status \in ClaimedStatus
  BY <1>1, <1>6 DEF Withdrawn, Invalidate, TypeOK
<1>7. ASSUME NEW n \in Missions, NEW g \in Gateways, NEW a \in Authorizations,
             ClaimAccepted(n, g, a)
      PROVE  mission'[m].status \in ClaimedStatus
  BY <1>1, <1>7 DEF ClaimAccepted, Claimable, TypeOK
<1>8. ASSUME NEW n \in Missions, NEW g \in Gateways, NEW s \in MissionStatus,
             NEW kept \in BOOLEAN, ReportApplied(n, g, s, kept)
      PROVE  mission'[m].status \in ClaimedStatus
  <2> s \in ClaimedStatus
    BY <1>8, TransitionsOfFlights DEF ReportApplied, TypeOK, Mission
  <2> QED
    BY <1>8 DEF ReportApplied, TypeOK, Mission
<1>9. ASSUME NEW n \in Missions, NEW k \in CommandType, NEW c \in Commands, Asked(n, k, c)
      PROVE  mission' = mission
  BY <1>9 DEF Asked, RequestCommand, RequestAbort
<1>10. ASSUME NEW c, NEW g, NEW s, AcknowledgeCommand(c, g, s)
       PROVE  mission' = mission
  BY <1>10 DEF AcknowledgeCommand
<1> QED
  BY StepKinds, <1>2, <1>3, <1>4, <1>5, <1>6, <1>7, <1>8, <1>9, <1>10 DEF StepKind

(* Nothing was transmitted for a mission that is not claimed.              *)
LEMMA UnclaimedUnsent ==
  ASSUME OnceInv, NEW m \in Missions, mission[m].status \notin ClaimedStatus
  PROVE  sent.uploads[m] = 0 /\ StartsSent(m) = {}
<1>1. sent.uploads[m] \in 0 .. 2
  BY DEF OnceInv, ExecInv, Sent
<1>2. sent.uploads[m] = 0
  BY <1>1 DEF OnceInv, SentIsKnown
<1>3. ASSUME NEW c \in StartsSent(m) PROVE FALSE
  <2> c \in Commands /\ cmd[c].mission = m /\ cmd[c].status # "NONE"
    BY DEF StartsSent, OnceInv, SentIsKnown
  <2> QED
    BY DEF OnceInv, ExecInv, CommandsOfTheHolder
<1> QED
  BY <1>2, <1>3

-------------------------------------------------------------------------------
(* Steps that transmit nothing.                                            *)

Ready(j, p, w) == Due(j, p, w) /\ Held(j) /\ Taken(p, w)

Elsewhere ==
  {"heartbeat", "commands", "missions", "phaseReport", "flush", "flushPolled", "failReport",
   "publish", "ack", "poll"}

(* j is no earlier than what is journalled.                                *)
NotEarlier(j) ==
  /\ j.mission = journal.mission
  /\ j.phase \in BeforeUpload => journal.phase \in BeforeUpload
  /\ j.phase \in BeforeStart => journal.phase \in BeforeStart
  /\ journal.phase \in {"EMPTY", "CLAIM_PENDING"} => j.phase = journal.phase

LEMMA ElsewhereReady ==
  ASSUME OnceInv, NEW j, NotEarlier(j), NEW p \in Elsewhere, NEW w
  PROVE  Ready(j, p, w)
BY DEF OnceInv, Due, Held, Taken, Ready, Elsewhere, NotEarlier

LEMMA SameNotEarlier == NotEarlier(journal)
BY DEF NotEarlier

LEMMA GoneReady ==
  ASSUME NEW p \in Elsewhere, NEW w
  PROVE  Ready(NoJournal, p, w)
BY DEF Ready, Due, Held, Taken, Elsewhere, NoJournal, BeforeUpload, BeforeStart

LEMMA StopReady ==
  ASSUME OnceInv, Stop \/ Finish, NotEarlier(journal') \/ journal' = NoJournal
  PROVE  Ready(journal', pc', work')
<1> pc' \in Elsewhere
  BY DEF Stop, Finish, At, Elsewhere
<1> QED
  BY ElsewhereReady, GoneReady

LEMMA ContinueReady ==
  ASSUME OnceInv, NEW j, NotEarlier(j), Kept(j), Continue(j)
  PROVE  Ready(journal', pc', work')
<1>1. CASE journal' = j /\ (Finish \/ \E p \in Elsewhere : At(p))
  BY <1>1, StopReady, ElsewhereReady DEF At
<1>2. CASE /\ j.phase = "UPLOADING"
           /\ journal' = [j EXCEPT !.phase = "UPLOAD_COMMAND_SENT"] /\ At("upload")
  <2>1. /\ journal'.phase = "UPLOAD_COMMAND_SENT" /\ journal'.mission = journal.mission
        /\ journal.phase \in (BeforeUpload \cap BeforeStart) \ {"EMPTY", "CLAIM_PENDING"}
    BY <1>2 DEF Kept, Journal, NotEarlier, BeforeUpload, BeforeStart
  <2> QED
    BY <1>2, <2>1 DEF At, OnceInv, Ready, Due, Held, Taken, BeforeUpload
<1>3. CASE /\ j.phase \in {"UPLOAD_COMMAND_SENT", "VERIFYING"}
           /\ journal' = j /\ At("verify")
  BY <1>3 DEF At, OnceInv, Ready, Due, Held, Taken, NotEarlier
<1>4. CASE j.phase \in ReportPhase
  <2> journal' = j /\ At("phaseReport")
    BY <1>4 DEF Continue, ReportPhase
  <2> QED
    BY <1>1 DEF Elsewhere
<1>5. CASE j.phase = "UPLOADING"
  BY <1>1, <1>2, <1>5 DEF Continue, Elsewhere
<1>6. CASE j.phase \in {"UPLOAD_COMMAND_SENT", "VERIFYING"}
  BY <1>1, <1>3, <1>6 DEF Continue
<1>7. CASE j.phase = "EXECUTING"
  BY <1>1, <1>7 DEF Continue, Elsewhere
<1>8. CASE j.phase \notin ReportPhase
             \cup {"UPLOADING", "UPLOAD_COMMAND_SENT", "VERIFYING", "EXECUTING"}
  <2> journal' = j /\ Finish
    BY <1>8 DEF Continue, ReportPhase
  <2> QED
    BY <1>1
<1> QED
  BY <1>4, <1>5, <1>6, <1>7, <1>8

(* The steps of a cycle that leave commands, claims and vehicle alone.     *)
LEMMA PlainReady ==
  ASSUME OnceInv,
         \/ RunCycle \/ PhaseReport \/ FlushPendingStatus \/ FailActive \/ VerifyMission
         \/ PollMission \/ PublishArmConfirmation \/ FinishCommand
         \/ Interrupted \/ AnswerLost \/ DroneStep \/ PeopleStep
  PROVE  Ready(journal', pc', work')
<1>1. Kept(journal) /\ NotEarlier(journal)
  BY JournalKept, SameNotEarlier DEF OnceInv
<1>2. CASE journal' \in {journal, NoJournal} /\ (Stop \/ Finish)
  BY <1>1, <1>2, StopReady
<1>3. CASE journal' = journal /\ pc' \in Elsewhere
  BY <1>1, <1>3, ElsewhereReady
<1>4. CASE UNCHANGED <<journal, pc, work>>
  BY <1>4 DEF OnceInv, Ready
<1>5. CASE RunCycle
  <2> journal' = journal /\ (Stop \/ pc' = "commands" \/ (pc' = "claim" /\ journal.phase = "CLAIM_PENDING"))
    BY <1>5 DEF RunCycle
  <2>1. CASE pc' = "claim" /\ journal.phase = "CLAIM_PENDING"
    BY <2>1 DEF OnceInv, Ready, Due, Held, Taken
  <2> QED
    BY <1>2, <1>3, <2>1 DEF Elsewhere
<1>6. CASE PhaseReport /\ Continue(InPhase(PhaseAfterReport))
  <2>1. /\ journal.phase \in ReportPhase /\ journal.mission \in Missions
        /\ PhaseAfterReport \in ActivePhase
    BY <1>6 DEF PhaseReport, OnceInv, ExecInv, Fits, Engaged, ReportPhase, PhaseAfterReport,
                ActivePhase
  <2>2. /\ PhaseAfterReport \in BeforeUpload => journal.phase \in BeforeUpload
        /\ PhaseAfterReport \in BeforeStart => journal.phase \in BeforeStart
        /\ journal.phase \notin {"EMPTY", "CLAIM_PENDING"}
    BY <2>1 DEF ReportPhase, PhaseAfterReport, BeforeUpload, BeforeStart
  <2>3. /\ Kept(InPhase(PhaseAfterReport))
        /\ InPhase(PhaseAfterReport).mission = journal.mission
        /\ InPhase(PhaseAfterReport).phase = PhaseAfterReport
    BY <1>1, <2>1, InPhaseKept
  <2>4. NotEarlier(InPhase(PhaseAfterReport))
    BY <2>2, <2>3 DEF NotEarlier
  <2> QED
    BY <1>6, <2>3, <2>4, ContinueReady
<1>7. CASE FlushPendingStatus /\ journal' = Flushed
  <2> pc' \in Elsewhere
    BY <1>7 DEF FlushPendingStatus, At, Finish, Stop, Elsewhere
  <2>1. CASE journal' = NoJournal
    BY <2>1, GoneReady
  <2>2. CASE journal' = [journal EXCEPT !.last = journal.pending, !.pending = "NONE"]
    <3> journal'.mission = journal.mission /\ journal'.phase = journal.phase
      BY <1>1, <2>2 DEF Kept, Journal
    <3> QED
      BY ElsewhereReady DEF NotEarlier
  <2> QED
    BY <1>7, <2>1, <2>2 DEF Flushed
<1>8. CASE VerifyMission
  <2>1. /\ journal.phase \in {"UPLOAD_COMMAND_SENT", "VERIFYING"}
        /\ journal.mission \in Missions
    BY <1>8 DEF VerifyMission, OnceInv, Due, ExecInv, Fits, Engaged
  <2>2. pc' \in Elsewhere
    BY <1>8 DEF VerifyMission, At, Finish, Stop, Elsewhere
  <2>3. ASSUME NEW q \in {"VERIFIED_PENDING_REPORT", "RECOVERED_UPLOAD_PENDING_REPORT",
                          "UPLOAD_RECOVERY_BLOCKED"},
               journal' = InPhase(q)
        PROVE  Ready(journal', pc', work')
    <3>1. journal'.mission = journal.mission /\ journal'.phase = q
      BY <1>1, <2>1, <2>3, InPhaseKept DEF ActivePhase
    <3>2. NotEarlier(journal')
      BY <2>1, <3>1 DEF NotEarlier, BeforeUpload, BeforeStart
    <3> QED
      BY <2>2, <3>2, ElsewhereReady
  <2> QED
    BY <1>3, <1>8, <2>2, <2>3 DEF VerifyMission
<1>9. CASE PollMission
  <2>1. pc' \in Elsewhere
    BY <1>9 DEF PollMission, At, Finish, Stop, Elsewhere
  <2>2. journal'.mission = journal.mission /\ journal'.phase = journal.phase
    BY <1>1, <1>9 DEF PollMission, Kept, Journal
  <2> QED
    BY <2>1, <2>2, ElsewhereReady DEF NotEarlier
<1>10. CASE PublishArmConfirmation
  BY <1>3, <1>10 DEF PublishArmConfirmation, At, Elsewhere
<1> QED
  BY <1>2, <1>4, <1>5, <1>6, <1>7, <1>8, <1>9, <1>10
  DEF PhaseReport, FlushPendingStatus, FailActive, FinishCommand, Interrupted, AnswerLost,
      DroneStep, PeopleStep, execVars

(* A command is executed for a mission whose START was not transmitted.    *)
LEMMA ExecuteReady ==
  ASSUME OnceInv, NEW w, NEW c \in Commands, w.cmd = c, cmd[c].mission = journal.mission,
         journal.mission \in Missions, Execute(cmd[c].type, w)
  PROVE  \/ pc' = "ack" /\ journal' = journal
         \/ pc' = "act" /\ work' = w /\ Due(journal', pc', w) /\ Held(journal')
<1>1. CASE ~Executable(cmd[c].type)
  BY <1>1 DEF Execute
<1>2. CASE Executable(cmd[c].type) /\ cmd[c].type # "START"
  BY <1>2 DEF Execute, OnceInv, Due
<1>3. CASE Executable(cmd[c].type) /\ cmd[c].type = "START"
  <2>1. journal.phase = "WAITING_OPERATOR_ARM" /\ journal' = InPhase("START_COMMAND_SENT")
    BY <1>3 DEF Execute, Executable
  <2>2. journal'.mission = journal.mission /\ journal'.phase = "START_COMMAND_SENT"
    BY <2>1, JournalKept, InPhaseKept DEF OnceInv, ActivePhase
  <2>3. StartsSent(journal.mission) = {}
    BY <2>1 DEF OnceInv, Due, BeforeStart
  <2> QED
    BY <1>3, <2>1, <2>2, <2>3 DEF Execute, OnceInv, Due, Held, BeforeUpload, BeforeStart
<1> QED
  BY <1>1, <1>2, <1>3

LEMMA AckReady ==
  ASSUME OnceInv, journal' = journal, pc' \in Elsewhere
  PROVE  Ready(journal', pc', work')
BY SameNotEarlier, ElsewhereReady

LEMMA PollReady ==
  ASSUME OnceInv, PollCommands
  PROVE  Ready(journal', pc', work')
<1> ExecInv /\ Kept(journal) /\ NotEarlier(journal)
  BY JournalKept, SameNotEarlier DEF OnceInv
<1>1. ASSUME NEW c \in PendingCommands,
             CASE cmd[c].mission # Current ->
                    /\ pc' = "ack" /\ work' = [Fetch(c) EXCEPT !.answer = "FAILED"]
                    /\ UNCHANGED journal
               [] cmd[c].mission = Current /\ cmd[c].type = "ARM" ->
                    ProcessArm(c) /\ UNCHANGED journal
               [] OTHER -> ProcessOther(c)
      PROVE  Ready(journal', pc', work')
  <2>1. c \in Commands /\ cmd[c].status # "NONE" /\ cmd[c].mission \in Missions
    BY DEF PendingCommands, OpenCommandStatus, ExecInv, CommandsOfTheHolder, TypeOK, Command
  <2>2. CASE journal' = journal /\ pc' \in {"ack", "publish", "phaseReport"}
    BY <2>2, AckReady DEF Elsewhere
  <2>3. CASE cmd[c].mission = Current /\ journal' = journal /\ pc' = "take" /\ work' = Fetch(c)
    <3> work'.cmd = c
      BY <2>1, <2>3, FetchTyped
    <3> QED
      BY <2>3 DEF OnceInv, Ready, Due, Held, Taken, Current
  <2>4. CASE /\ cmd[c].mission = Current /\ cmd[c].status # "PENDING"
             /\ Execute(cmd[c].type, Fetch(c))
    <3>1. Fetch(c).cmd = c
      BY <2>1, FetchTyped
    <3>2. \/ pc' = "ack" /\ journal' = journal
          \/ pc' = "act" /\ work' = Fetch(c) /\ Due(journal', pc', work') /\ Held(journal')
      BY <2>1, <2>4, <3>1, ExecuteReady DEF Current
    <3> QED
      BY <2>2, <2>4, <3>1, <3>2 DEF Ready, Taken
  <2>5. CASE cmd[c].mission # Current
    BY <1>1, <2>2, <2>5
  <2>6. CASE cmd[c].mission = Current /\ cmd[c].type = "ARM"
    <3> ProcessArm(c) /\ journal' = journal
      BY <1>1, <2>6
    <3> QED
      BY <2>2, <2>3, <2>6 DEF ProcessArm
  <2>7. CASE cmd[c].mission = Current /\ cmd[c].type # "ARM"
    <3> ProcessOther(c)
      BY <1>1, <2>7
    <3> QED
      BY <2>2, <2>3, <2>4, <2>7 DEF ProcessOther
  <2> QED
    BY <2>5, <2>6, <2>7
<1>2. CASE journal.phase # "EMPTY" /\ Continue(journal)
  BY <1>2, ContinueReady
<1>3. CASE journal' = journal /\ (At("missions") \/ Stop)
  BY <1>3, AckReady DEF At, Stop, Elsewhere
<1> QED
  BY <1>1, <1>2, <1>3 DEF PollCommands

LEMMA OfferReady ==
  ASSUME OnceInv, ListMissions
  PROVE  Ready(journal', pc', work')
<1>1. CASE UNCHANGED execVars
  BY <1>1 DEF execVars, OnceInv, Ready
<1>2. CASE journal' = journal /\ Stop
  BY <1>2, AckReady DEF Stop, Elsewhere
<1>3. ASSUME NEW m \in Missions, Authorized(m), At("claim"),
             journal' = [NoJournal EXCEPT !.phase = "CLAIM_PENDING", !.mission = m]
      PROVE  Ready(journal', pc', work')
  <2>1. mission[m].status \notin ClaimedStatus
    BY <1>3 DEF Authorized, ClaimedStatus, FlightStatus, UploadStatus, AirborneStatus, EndStatus
  <2>2. journal'.phase = "CLAIM_PENDING" /\ journal'.mission = m
    BY <1>3 DEF NoJournal
  <2> QED
    BY <1>3, <2>1, <2>2, UnclaimedUnsent DEF At, Ready, Due, Held, Taken
<1> QED
  BY <1>1, <1>2, <1>3 DEF ListMissions

LEMMA ActionReady ==
  ASSUME OnceInv, ActionReport
  PROVE  Ready(journal', pc', work')
<1>1. pc' \in Elsewhere
  BY DEF ActionReport, Answer, Elsewhere
<1>2. CASE journal' = journal
  BY <1>1, <1>2, AckReady
<1>3. CASE journal' = AfterAction
  <2>1. /\ Kept(journal) /\ journal.mission \in Missions /\ work.cmd \in Commands
        /\ cmd[work.cmd].status # "NONE" /\ cmd[work.cmd].mission = journal.mission
        /\ cmd[work.cmd].type \in {"PAUSE", "CONTINUE", "RTL", "ABORT"}
    BY JournalKept
    DEF ActionReport, OnceInv, Due, ExecInv, Fits, CommandAtHand, Engaged, TypeOK, Command,
        CommandType
  <2>2. mission[journal.mission].status \in ClaimedStatus
    BY <2>1 DEF OnceInv, ExecInv, CommandsOfTheHolder
  <2>3. CASE journal' = NoJournal
    BY <1>1, <2>3, GoneReady
  <2>4. CASE journal' # NoJournal
    <3> journal'.phase \in {"PAUSED", "EXECUTING"} /\ journal'.mission = journal.mission
      BY <1>3, <2>1, <2>4 DEF AfterAction, InPhase, Kept, Journal
    <3> QED
      BY <1>1, <2>2 DEF Ready, Due, Held, Taken, Elsewhere, BeforeUpload, BeforeStart
  <2> QED
    BY <2>3, <2>4
<1> QED
  BY <1>2, <1>3 DEF ActionReport

-------------------------------------------------------------------------------
(* The rows change as well: what is ready remains so in the next state.    *)

Onward == Due(journal', pc', work') /\ (Held(journal))' /\ (Taken(pc, work))'

LEMMA ReadyOnward ==
  ASSUME OnceInv, [Next]_vars, Left, Ready(journal', pc', work')
  PROVE  Onward
<1>1. TypeOK /\ Kept(journal')
  BY DEF OnceInv, ExecInv, Left, Fits, Kept
<1>2. (Held(journal))'
  <2> SUFFICES ASSUME journal'.phase \notin {"EMPTY", "CLAIM_PENDING"}
               PROVE  mission'[journal'.mission].status \in ClaimedStatus
    BY DEF Held
  <2> journal'.mission \in Missions /\ mission[journal'.mission].status \in ClaimedStatus
    BY <1>1 DEF Kept, Ready, Held
  <2> QED
    BY <1>1, ClaimedStays
<1>3. (Taken(pc, work))'
  <2> SUFFICES ASSUME pc' \in {"arm", "act"} PROVE cmd'[work'.cmd].status # "PENDING"
    BY DEF Taken
  <2> work'.cmd \in Commands /\ cmd[work'.cmd].status \notin {"NONE", "PENDING"}
    BY DEF Left, Fits, Handed, Ready, Taken
  <2> QED
    BY <1>1, CommandRowsStay
<1> QED
  BY <1>2, <1>3 DEF Onward, Ready

LEMMA ClaimOnward ==
  ASSUME OnceInv, Claim
  PROVE  Onward
<1>1. Kept(journal) /\ journal.mission \in Missions /\ journal.phase = "CLAIM_PENDING"
  BY JournalKept DEF Claim, OnceInv, ExecInv, Fits, Engaged, Due
<1>2. sent.uploads[journal.mission] = 0 /\ StartsSent(journal.mission) = {}
  BY <1>1 DEF OnceInv, Due, BeforeUpload, BeforeStart
<1>3. pc' \notin {"claim", "upload", "verify", "take", "arm", "act", "actionReport"}
  BY DEF Claim, At, Stop
<1>4. Due(journal', pc', work') /\ (Taken(pc, work))'
  <2>1. CASE journal' = InPhase("UPLOADING_PENDING_REPORT")
    <3> journal'.mission = journal.mission
      BY <1>1, <2>1, InPhaseKept DEF ActivePhase
    <3> QED
      BY <1>2, <1>3 DEF Due, Taken
  <2>2. CASE journal' = journal
    BY <1>2, <1>3, <2>2 DEF Due, Taken
  <2>3. CASE journal' = NoJournal
    BY <1>3, <2>3 DEF Due, Taken, NoJournal, BeforeUpload, BeforeStart
  <2> QED
    BY <2>1, <2>2, <2>3 DEF Claim
<1>5. (Held(journal))'
  <2>1. CASE journal' \in {journal, NoJournal}
    BY <1>1, <2>1 DEF Held, NoJournal
  <2>2. CASE journal' = InPhase("UPLOADING_PENDING_REPORT") /\ ClaimGranted(journal.mission)
    <3>1. journal'.mission = journal.mission
      BY <1>1, <2>2, InPhaseKept DEF ActivePhase
    <3>2. mission'[journal.mission].status = "UPLOADING"
      BY <1>1, <2>2
      DEF ClaimGranted, ClaimReplayed, ClaimAccepted, rows, OnceInv, ExecInv, TypeOK, Mission
    <3> QED
      BY <3>1, <3>2 DEF Held, ClaimedStatus, FlightStatus, UploadStatus
  <2> QED
    BY <2>1, <2>2 DEF Claim, Current
<1> QED
  BY <1>4, <1>5 DEF Onward

LEMMA TakeOnward ==
  ASSUME OnceInv, [Next]_vars, Left, TakeCommand
  PROVE  Onward
<1>1. /\ work.cmd \in Commands /\ cmd[work.cmd].status # "NONE"
      /\ journal.mission \in Missions /\ cmd[work.cmd].mission = journal.mission
  BY DEF TakeCommand, OnceInv, ExecInv, Fits, Engaged, CommandAtHand, Due
<1>2. CASE Stop /\ journal' = journal
  <2> pc' \in Elsewhere
    BY <1>2 DEF Stop, Elsewhere
  <2> QED
    BY <1>2, AckReady, ReadyOnward
<1>3. ASSUME AcknowledgeCommand(work.cmd, Self, "ACKNOWLEDGED") PROVE Onward
  <2>1. cmd[work.cmd].status = "PENDING" /\ cmd'[work.cmd].status = "ACKNOWLEDGED"
    BY <1>1, <1>3 DEF AcknowledgeCommand, Acknowledgeable, OnceInv, ExecInv, TypeOK, Command
  <2>2. mission' = mission
    BY <1>3 DEF AcknowledgeCommand
  <2>3. sent.commands[work.cmd] = 0
    BY <1>1, <2>1 DEF OnceInv, SentIsKnown, ExecInv, Sent
  <2>4. CASE journal' = journal /\ pc' \in Elsewhere
    BY <2>4, AckReady, ReadyOnward
  <2>5. CASE journal' = journal /\ At("arm") /\ cmd[work.cmd].type = "ARM"
    BY <1>1, <2>1, <2>2, <2>3, <2>5 DEF At, OnceInv, Onward, Due, Held, Taken
  <2>6. CASE Execute(cmd[work.cmd].type, work)
    <3>1. \/ pc' = "ack" /\ journal' = journal
          \/ pc' = "act" /\ work' = work /\ Due(journal', pc', work) /\ Held(journal')
      BY <1>1, <2>6, ExecuteReady
    <3> QED
      BY <2>1, <2>2, <2>4, <3>1 DEF Onward, Held, Taken, Elsewhere
  <2> QED
    BY <1>3, <2>4, <2>5, <2>6 DEF TakeCommand, Elsewhere, Stop
<1> QED
  BY <1>2, <1>3 DEF TakeCommand

(* A step that transmits nothing.                                          *)
LEMMA SilentStep ==
  ASSUME OnceInv, [Next]_vars, Left, sent' = sent, Onward
  PROVE  /\ (Due(journal, pc, work))' /\ (Held(journal))' /\ (Taken(pc, work))'
         /\ SentIsKnown' /\ TransmittedOnce'
<1>1. TypeOK
  BY DEF OnceInv, ExecInv
<1>2. \A c \in Commands : cmd[c].status # "NONE" =>
        /\ cmd'[c].status # "NONE" /\ cmd'[c].type = cmd[c].type
        /\ cmd'[c].mission = cmd[c].mission
        /\ cmd[c].status # "PENDING" => cmd'[c].status # "PENDING"
  BY <1>1, CommandRowsStay
<1>3. SentIsKnown'
  BY <1>1, <1>2, ClaimedStays DEF OnceInv, SentIsKnown
<1>4. \A c \in Commands : sent.commands[c] > 0 =>
        cmd'[c].type = cmd[c].type /\ cmd'[c].mission = cmd[c].mission
  BY <1>2 DEF OnceInv, SentIsKnown
<1>5. TransmittedOnce'
  <2>1. \A c \in Commands : sent.commands[c] \in 0 .. 2
    BY DEF OnceInv, ExecInv, Sent
  <2> QED
    BY <1>4, <2>1 DEF OnceInv, TransmittedOnce
<1>6. \A m : (StartsSent(m))' = StartsSent(m)
  BY <1>4 DEF StartsSent
<1>7. pc' \in {"take", "arm", "act", "actionReport"} =>
        /\ cmd'[work'.cmd].type = cmd[work'.cmd].type
        /\ cmd'[work'.cmd].mission = cmd[work'.cmd].mission
  BY <1>2 DEF Left, Fits, Handed
<1>8. (Due(journal, pc, work))'
  BY <1>6, <1>7 DEF Onward, Due
<1> QED
  BY <1>3, <1>5, <1>8 DEF Onward

-------------------------------------------------------------------------------
(* Steps that transmit: what they transmit is counted for the first time.  *)

Once ==
  /\ (Due(journal, pc, work))' /\ (Held(journal))' /\ (Taken(pc, work))'
  /\ SentIsKnown' /\ TransmittedOnce'

LEMMA UploadOnce ==
  ASSUME OnceInv, UploadMission
  PROVE  Once
<1>0. sent.uploads \in [Missions -> 0 .. 2]
  BY DEF OnceInv, ExecInv, Sent
<1>1. /\ Kept(journal) /\ journal.mission \in Missions
      /\ journal.phase = "UPLOAD_COMMAND_SENT" /\ sent.uploads[journal.mission] = 0
      /\ StartsSent(journal.mission) = {}
      /\ mission[journal.mission].status \in ClaimedStatus
  BY JournalKept DEF UploadMission, OnceInv, ExecInv, Fits, Engaged, Due, Held, BeforeStart
<1>2. /\ mission' = mission /\ cmd' = cmd /\ sent'.commands = sent.commands
      /\ \A m \in Missions :
           sent'.uploads[m] = IF m = journal.mission THEN 1 ELSE sent.uploads[m]
  <2>1. mission' = mission /\ cmd' = cmd
    BY DEF UploadMission, rows
  <2>2. sent' = [sent EXCEPT !.uploads[journal.mission] = Again(sent.uploads[journal.mission])]
    BY DEF UploadMission, Current
  <2>3. /\ sent'.commands = sent.commands
        /\ \A m \in Missions : sent'.uploads[m] =
             IF m = journal.mission THEN Again(sent.uploads[m]) ELSE sent.uploads[m]
    BY <2>2 DEF OnceInv, ExecInv, Sent
  <2> QED
    BY <1>0, <1>1, <2>1, <2>3 DEF Again
<1>3. pc' \notin {"claim", "upload", "verify", "take", "arm", "act", "actionReport"}
  BY DEF UploadMission, At, Finish, Stop
<1>4. /\ journal'.mission = journal.mission
      /\ journal'.phase \in {"UPLOAD_COMMAND_SENT", "UPLOADED_PENDING_REPORT"}
  BY <1>1, InPhaseKept DEF UploadMission, ActivePhase
<1>5. (StartsSent(journal.mission))' = {}
  BY <1>1, <1>2, <1>4 DEF StartsSent
<1>6. (Due(journal, pc, work))' /\ (Held(journal))' /\ (Taken(pc, work))'
  BY <1>1, <1>2, <1>3, <1>4, <1>5 DEF Due, Held, Taken, BeforeUpload
<1>7. SentIsKnown'
  BY <1>1, <1>2 DEF OnceInv, SentIsKnown
<1>8. TransmittedOnce'
  BY <1>2 DEF OnceInv, TransmittedOnce
<1> QED
  BY <1>6, <1>7, <1>8 DEF Once

(* What a transmission for the command at hand does to the counts.         *)
LEMMA TransmittedCounts ==
  ASSUME OnceInv, work.cmd \in Commands, NEW b \in BOOLEAN, Transmitted(b)
  PROVE  /\ sent'.uploads = sent.uploads
         /\ \A c \in Commands : sent'.commands[c] =
              IF c = work.cmd /\ cmd[c].type \notin Repeatable
              THEN Again(sent.commands[c]) ELSE sent.commands[c]
         /\ sent'.confirmed = IF b /\ cmd[work.cmd].type \in FlightChange
                              THEN sent.confirmed \cup {work.cmd} ELSE sent.confirmed
BY DEF Transmitted, OnceInv, ExecInv, Sent

LEMMA ArmOnce ==
  ASSUME OnceInv, ArmVehicle
  PROVE  Once
<1>1. /\ work.cmd \in Commands /\ cmd[work.cmd].type = "ARM"
      /\ sent.commands[work.cmd] = 0
      /\ cmd[work.cmd].status \notin {"NONE", "PENDING"}
  BY DEF ArmVehicle, OnceInv, ExecInv, Fits, CommandAtHand, Due, Taken
<1>2. /\ mission' = mission /\ cmd' = cmd /\ journal' = journal
      /\ sent'.uploads = sent.uploads
      /\ \A c \in Commands : c # work.cmd => sent'.commands[c] = sent.commands[c]
      /\ sent'.commands[work.cmd] \in {0, 1}
  <2>1. mission' = mission /\ cmd' = cmd /\ journal' = journal
    BY DEF ArmVehicle, rows
  <2>2. sent' = sent \/ Transmitted(TRUE) \/ Transmitted(FALSE)
    BY DEF ArmVehicle
  <2>3. Again(0) = 1
    BY DEF Again
  <2> QED
    BY <1>1, <2>1, <2>2, <2>3, TransmittedCounts
<1>3. pc' \in Elsewhere
  BY DEF ArmVehicle, Answer, Elsewhere
<1>4. \A m : (StartsSent(m))' = StartsSent(m)
  BY <1>1, <1>2 DEF StartsSent
<1>5. (Due(journal, pc, work))' /\ (Held(journal))' /\ (Taken(pc, work))'
  BY <1>2, <1>3, <1>4 DEF OnceInv, Due, Held, Taken, Elsewhere
<1>6. SentIsKnown'
  BY <1>1, <1>2 DEF OnceInv, SentIsKnown
<1>7. TransmittedOnce'
  BY <1>1, <1>2 DEF OnceInv, TransmittedOnce
<1> QED
  BY <1>5, <1>6, <1>7 DEF Once

LEMMA ActOnce ==
  ASSUME OnceInv, ActOnVehicle
  PROVE  Once
<1>1. /\ Kept(journal) /\ journal.mission \in Missions /\ work.cmd \in Commands
      /\ cmd[work.cmd].mission = journal.mission /\ cmd[work.cmd].type # "ARM"
      /\ cmd[work.cmd].status \notin {"NONE", "PENDING"}
  BY JournalKept
  DEF ActOnVehicle, OnceInv, ExecInv, Fits, Engaged, CommandAtHand, Due, Taken
<1>2. mission[journal.mission].status \in ClaimedStatus
  BY <1>1 DEF OnceInv, ExecInv, CommandsOfTheHolder
<1>3. /\ mission' = mission /\ cmd' = cmd /\ sent'.uploads = sent.uploads
      /\ \A c \in Commands : sent'.commands[c] =
           IF c = work.cmd /\ cmd[c].type \notin Repeatable
           THEN Again(sent.commands[c]) ELSE sent.commands[c]
  BY <1>1, TransmittedCounts DEF ActOnVehicle, rows
<1>4. /\ sent.commands[work.cmd] \in 0 .. 2
      /\ cmd[work.cmd].type = "START" =>
           sent.commands[work.cmd] > 0 \/ sent'.commands[work.cmd] = 1
  BY <1>1, <1>3 DEF OnceInv, ExecInv, Sent, Again, Repeatable
<1>5. /\ journal'.mission = journal.mission
      /\ journal' = journal \/ journal'.phase = "EXECUTING_PENDING_REPORT"
      /\ cmd[work.cmd].type # "START" => journal' = journal
  BY <1>1, InPhaseKept DEF ActOnVehicle, ActivePhase
<1>6. /\ pc' \in Elsewhere \cup {"actionReport"}
      /\ pc' = "actionReport" => work' = work
  BY DEF ActOnVehicle, Answer, At, Elsewhere
<1>7. SentIsKnown'
  BY <1>1, <1>3 DEF OnceInv, SentIsKnown
<1>8. (Held(journal))' /\ (Taken(pc, work))'
  BY <1>2, <1>3, <1>5, <1>6 DEF Held, Taken, Elsewhere
<1>9. CASE cmd[work.cmd].type = "START"
  <2>1. journal.phase = "START_COMMAND_SENT" /\ StartsSent(journal.mission) = {}
    BY <1>9 DEF ActOnVehicle, OnceInv, Due
  <2>2. \A c \in Commands :
          cmd[c].type = "START" /\ cmd[c].mission = journal.mission =>
            ~(sent.commands[c] > 0)
    BY <2>1 DEF StartsSent
  <2>3. sent'.commands[work.cmd] = 1
    BY <1>1, <1>4, <1>9, <2>2
  <2>4. journal'.phase \in {"START_COMMAND_SENT", "EXECUTING_PENDING_REPORT"}
    BY <1>5, <2>1
  <2>5. pc' # "actionReport"
    BY <1>9 DEF ActOnVehicle, Answer
  <2>6. (Due(journal, pc, work))'
    BY <1>6, <2>4, <2>5 DEF Due, Elsewhere, BeforeUpload, BeforeStart
  <2>7. TransmittedOnce'
    BY <1>1, <1>3, <2>2, <2>3 DEF OnceInv, TransmittedOnce
  <2> QED
    BY <1>7, <1>8, <2>6, <2>7 DEF Once
<1>10. CASE cmd[work.cmd].type # "START"
  <2>1. \A m : (StartsSent(m))' = StartsSent(m)
    BY <1>3, <1>10 DEF StartsSent
  <2>2. journal' = journal
    BY <1>5, <1>10
  <2>3. (Due(journal, pc, work))'
    BY <1>1, <1>3, <1>6, <2>1, <2>2 DEF OnceInv, Due, Elsewhere
  <2>4. TransmittedOnce'
    BY <1>1, <1>3, <1>10 DEF OnceInv, TransmittedOnce
  <2> QED
    BY <1>7, <1>8, <2>3, <2>4 DEF Once
<1> QED
  BY <1>9, <1>10

-------------------------------------------------------------------------------
LEMMA OnceStarts == Init /\ ExecInit => OnceInv
<1> SUFFICES ASSUME Init, ExecInit PROVE OnceInv
  OBVIOUS
<1>1. ExecInv
  BY ExecStarts
<1>2. /\ journal.phase = "EMPTY" /\ pc = "heartbeat"
      /\ \A m \in Missions : sent.uploads[m] = 0
      /\ \A c \in Commands : sent.commands[c] = 0
  BY DEF ExecInit, NoJournal
<1> QED
  BY <1>1, <1>2
  DEF OnceInv, Due, Held, Taken, SentIsKnown, TransmittedOnce, BeforeUpload, BeforeStart

LEMMA OnceStep == OnceInv /\ [ExecNext]_allVars => OnceInv'
<1> SUFFICES ASSUME OnceInv, [ExecNext]_allVars PROVE OnceInv'
  OBVIOUS
<1>1. ExecInv' /\ [Next]_vars /\ Left
  BY ExecStep, StepOffered, StepLeaves DEF OnceInv, allVars
<1> SUFFICES Once
  BY <1>1 DEF Once, OnceInv
<1>2. CASE UploadMission \/ ArmVehicle \/ ActOnVehicle
  BY <1>2, UploadOnce, ArmOnce, ActOnce
<1>3. ASSUME sent' = sent, Onward PROVE Once
  BY <1>1, <1>3, SilentStep DEF Once
<1>4. CASE Claim \/ TakeCommand
  <2> sent' = sent
    BY <1>4 DEF Claim, TakeCommand
  <2> QED
    BY <1>1, <1>3, <1>4, ClaimOnward, TakeOnward
<1>5. ASSUME sent' = sent, Ready(journal', pc', work') PROVE Once
  BY <1>1, <1>3, <1>5, ReadyOnward
<1>6. CASE \/ RunCycle \/ PhaseReport \/ FlushPendingStatus \/ FailActive \/ VerifyMission
           \/ PollMission \/ PublishArmConfirmation \/ FinishCommand
           \/ Interrupted \/ AnswerLost \/ DroneStep \/ PeopleStep
  <2> sent' = sent
    BY <1>6 DEF RunCycle, PhaseReport, FlushPendingStatus, FailActive, VerifyMission,
                PollMission, PublishArmConfirmation, FinishCommand, Interrupted, AnswerLost,
                DroneStep, PeopleStep, execVars
  <2> QED
    BY <1>5, <1>6, PlainReady
<1>7. CASE PollCommands \/ ListMissions \/ ActionReport
  <2> sent' = sent
    BY <1>7 DEF PollCommands, ListMissions, ActionReport, execVars
  <2> QED
    BY <1>5, <1>7, PollReady, OfferReady, ActionReady
<1>8. CASE UNCHANGED allVars
  <2> sent' = sent /\ Ready(journal', pc', work')
    BY <1>8 DEF allVars, execVars, OnceInv, Ready
  <2> QED
    BY <1>5
<1> QED
  BY <1>2, <1>4, <1>6, <1>7, <1>8 DEF ExecNext, ExecutorStep

(* An upload, an ARM and a START leave the gateway at most once, and no    *)
(* mission has two STARTs, whatever answers are lost and however often the *)
(* executor restarts: each is journalled or acknowledged before it is      *)
(* transmitted (_continue_active, _process_arm_command, _process_command). *)
THEOREM TransmitsOnce == ExecSpec => []TransmittedOnce
<1>1. OnceInv => TransmittedOnce
  BY DEF OnceInv
<1> QED
  BY <1>1, OnceStarts, OnceStep, PTL DEF ExecSpec

-------------------------------------------------------------------------------
(* What a step of the composition does to missions and commands, and at    *)
(* which await.                                                            *)

SameMission(m) ==
  mission'[m].status = mission[m].status /\ mission'[m].claimedBy = mission[m].claimedBy

(* Planning, authorizations, and whatever else comes before a claim.       *)
Unclaimed ==
  /\ cmd' = cmd
  /\ \A m \in Missions :
       \/ SameMission(m)
       \/ /\ mission[m].status \notin ClaimedStatus /\ mission'[m].status \notin ClaimedStatus
          /\ mission'[m].claimedBy = mission[m].claimedBy

Taking == pc = "claim" /\ \E a \in Authorizations : ClaimAccepted(journal.mission, Self, a)

(* The status that is reported at the await at hand.                       *)
Said ==
  CASE pc = "phaseReport"             -> PhaseStatus
    [] pc \in {"flush", "flushPolled"} -> journal.pending
    [] pc = "failReport"              -> "FAILED"
    [] pc = "actionReport"            -> ActionStatus

ReportCall == {"phaseReport", "flush", "flushPolled", "failReport", "actionReport"}

Telling ==
  /\ pc \in ReportCall
  /\ Said \in MissionStatus
  /\ \E kept \in BOOLEAN : ReportApplied(journal.mission, Self, Said, kept)

Asking == \E m \in Missions, k \in CommandType, c \in Commands : Asked(m, k, c)

Answering ==
  \/ pc = "take" /\ AcknowledgeCommand(work.cmd, Self, "ACKNOWLEDGED")
  \/ pc = "ack" /\ AcknowledgeCommand(work.cmd, Self, work.answer)

RowMove == Unclaimed \/ Taking \/ Telling \/ Asking \/ Answering

LEMMA SameRows == UNCHANGED <<mission, cmd>> => RowMove
BY DEF RowMove, Unclaimed, SameMission

LEMMA GroundStatus ==
  {"NONE", "AUTHORIZED"} \cup PlanningStatus \subseteq MissionStatus \ ClaimedStatus
BY DEF MissionStatus, PlanningStatus, ClaimedStatus, FlightStatus, UploadStatus,
       AirborneStatus, EndStatus

LEMMA InvalidateMoves ==
  ASSUME ExecInv, NEW m \in Missions, NEW a, NEW s,
         mission[m].status = "AUTHORIZED", Invalidate(m, a, s)
  PROVE  RowMove
<1>1. /\ cmd' = cmd
      /\ mission' = [mission EXCEPT ![m].status = "READY_FOR_AUTHORIZATION"]
      /\ mission \in [Missions -> Mission]
  BY DEF Invalidate, ExecInv, TypeOK
<1>2. "READY_FOR_AUTHORIZATION" \in PlanningStatus
  BY DEF PlanningStatus
<1>3. \A k \in Missions :
        /\ mission'[k].status =
             IF k = m THEN "READY_FOR_AUTHORIZATION" ELSE mission[k].status
        /\ mission'[k].claimedBy = mission[k].claimedBy
  BY <1>1 DEF Mission
<1> QED
  BY <1>1, <1>2, <1>3, GroundStatus DEF RowMove, Unclaimed, SameMission

LEMMA ReportMoves ==
  ASSUME ExecInv, pc \in ReportCall, NEW kept \in BOOLEAN,
         ReportAccepted(Said, kept) \/ ReportRefused(Said, kept)
  PROVE  RowMove
<1>1. Said \in MissionStatus
  BY ReportedStatuses DEF Said, ReportCall
<1>2. CASE ReportApplied(journal.mission, Self, Said, kept)
  BY <1>1, <1>2 DEF RowMove, Telling
<1>3. CASE ReportRecorded(journal.mission, Self, Said) \/ UNCHANGED rows
  BY <1>3, SameRows DEF ReportRecorded, rows
<1> QED
  BY <1>2, <1>3 DEF ReportAccepted, ReportRefused, Current

LEMMA ClaimMoves ==
  ASSUME ExecInv, pc = "claim", ClaimGranted(journal.mission) \/ ClaimRefused(journal.mission)
  PROVE  RowMove
<1>1. CASE \E a \in Authorizations : ClaimAccepted(journal.mission, Self, a)
  BY <1>1 DEF RowMove, Taking
<1>2. CASE UNCHANGED rows
  BY <1>2, SameRows DEF rows
<1>3. ASSUME NEW a \in Authorizations,
             ClaimExpired(journal.mission, Self, a) \/ ClaimUnfit(journal.mission, Self, a)
      PROVE  RowMove
  <2> journal.mission \in Missions
    BY DEF ExecInv, Fits, Engaged
  <2> QED
    BY <1>3, InvalidateMoves DEF ClaimExpired, ClaimUnfit, Claimable
<1> QED
  BY <1>1, <1>2, <1>3 DEF ClaimGranted, ClaimReplayed, ClaimRefused

LEMMA PeopleMoves ==
  ASSUME ExecInv, PeopleStep
  PROVE  RowMove
<1>1. CASE OrderStep \/ ClockStep
  BY <1>1, SameRows
  DEF OrderStep, SubmitOrder, CancelOrder, ApproveOrder, RejectOrder, MoveOrder, ClockStep,
      TtlElapses, HealthGoesStale
<1>2. CASE CommandStep
  BY <1>2, BodyAssumption
  DEF CommandStep, RequestSafetyAction, RequestStart, RequestArm, Asked, RowMove, Asking
<1>3. CASE PlanningStep \/ ExportStep
  <2>1. PICK n \in Missions :
          Planned(n) \/ \E v \in Vehicles, a \in Authorizations : AuthorizeFlight(n, v, a)
    BY <1>3 DEF PlanningStep, ExportStep, Planned
  <2>0. mission[n] \in Mission /\ mission \in [Missions -> Mission]
    BY DEF ExecInv, TypeOK
  <2>2. /\ mission[n].status \notin ClaimedStatus /\ mission'[n].status \notin ClaimedStatus
        /\ mission'[n].claimedBy = mission[n].claimedBy /\ cmd' = cmd
    <3>1. CASE Planned(n)
      BY <2>0, <2>1, <3>1, GroundStatus
      DEF Planned, PrepareMission, ExportMission, MarkUnderReview, MarkReviewed, Mission,
          PlanningStatus
    <3>2. ASSUME NEW v \in Vehicles, NEW a \in Authorizations, AuthorizeFlight(n, v, a)
          PROVE  /\ mission[n].status \notin ClaimedStatus
                 /\ mission'[n].status \notin ClaimedStatus
                 /\ mission'[n].claimedBy = mission[n].claimedBy /\ cmd' = cmd
      BY <2>0, <3>2, GroundStatus DEF AuthorizeFlight, Mission, PlanningStatus
    <3> QED
      BY <2>1, <3>1, <3>2
  <2>3. \A m \in Missions : m # n => mission'[m] = mission[m]
    BY <2>1
    DEF Planned, PrepareMission, ExportMission, MarkUnderReview, MarkReviewed, AuthorizeFlight,
        ExecInv, TypeOK
  <2> QED
    BY <2>2, <2>3 DEF RowMove, Unclaimed, SameMission
<1> QED
  BY <1>1, <1>2, <1>3 DEF PeopleStep

LEMMA RowMoves ==
  ASSUME ExecInv, [ExecNext]_allVars
  PROVE  RowMove
<1>1. CASE \/ PollCommands \/ UploadMission \/ VerifyMission \/ PollMission \/ ArmVehicle
           \/ ActOnVehicle \/ Interrupted \/ DroneStep \/ UNCHANGED allVars
  BY <1>1, SameRows
  DEF PollCommands, UploadMission, VerifyMission, PollMission, ArmVehicle, ActOnVehicle,
      Interrupted, DroneStep, allVars, vars, rows
<1>2. ASSUME NEW p, NEW after, BackendBeat(p, after)
      PROVE  RowMove
  BY <1>2, SameRows DEF BackendBeat, Heartbeat
<1>3. CASE ListMissions
  <2>1. ASSUME NEW m \in Missions, NEW a \in Authorizations, ExpireListed(m, a)
        PROVE  RowMove
    BY <2>1, InvalidateMoves DEF ExpireListed
  <2> QED
    BY <1>3, <2>1, SameRows DEF ListMissions, rows
<1>4. CASE Claim
  BY <1>4, ClaimMoves DEF Claim, Current
<1>5. CASE PhaseReport \/ FlushPendingStatus \/ FailActive \/ ActionReport
  BY <1>5, ReportMoves
  DEF PhaseReport, FlushPendingStatus, FailActive, ActionReport, Said, ReportCall
<1>6. CASE TakeCommand \/ FinishCommand
  BY <1>6, SameRows DEF TakeCommand, FinishCommand, RowMove, Answering, rows
<1>7. CASE AnswerLost
  <2>1. CASE \/ pc = "take" /\ AcknowledgeCommand(work.cmd, Self, "ACKNOWLEDGED")
             \/ pc = "ack" /\ AcknowledgeCommand(work.cmd, Self, work.answer)
    BY <2>1 DEF RowMove, Answering
  <2>2. CASE \/ pc = "phaseReport" /\ ReportAccepted(PhaseStatus, TRUE)
             \/ pc \in {"flush", "flushPolled"} /\ ReportAccepted(journal.pending, TRUE)
             \/ pc = "failReport" /\ ReportAccepted("FAILED", FALSE)
             \/ pc = "actionReport" /\ ReportAccepted(ActionStatus, FALSE)
    BY <2>2, ReportMoves DEF Said, ReportCall
  <2>3. CASE pc = "claim" /\ (ClaimGranted(Current) \/ ClaimRefused(Current))
    BY <2>3, ClaimMoves DEF Current
  <2> QED
    BY <1>2, <1>7, <2>1, <2>2, <2>3 DEF AnswerLost
<1>8. CASE RunCycle \/ PublishArmConfirmation
  BY <1>2, <1>8 DEF RunCycle, PublishArmConfirmation
<1>9. CASE PeopleStep
  BY <1>9, PeopleMoves
<1> QED
  BY <1>1, <1>3, <1>4, <1>5, <1>6, <1>7, <1>8, <1>9 DEF ExecNext, ExecutorStep

LEMMA MissionMoves ==
  ASSUME ExecInv, RowMove, NEW m \in Missions
  PROVE  \/ SameMission(m)
         \/ /\ mission[m].status \notin ClaimedStatus /\ mission'[m].status \notin ClaimedStatus
            /\ mission'[m].claimedBy = mission[m].claimedBy
         \/ /\ pc = "claim" /\ m = journal.mission /\ cmd' = cmd
            /\ mission[m].status = "AUTHORIZED" /\ mission'[m].status = "UPLOADING"
            /\ mission'[m].claimedBy = Self
         \/ /\ pc \in ReportCall /\ m = journal.mission /\ cmd' = cmd
            /\ mission'[m].status = Said /\ Said \in GatewayTransitions[mission[m].status]
            /\ mission'[m].claimedBy = mission[m].claimedBy
<1>0. mission \in [Missions -> Mission]
  BY DEF ExecInv, TypeOK
<1>1. CASE Unclaimed
  BY <1>1 DEF Unclaimed
<1>2. CASE Taking
  BY <1>0, <1>2 DEF Taking, ClaimAccepted, Claimable, SameMission, Mission
<1>3. CASE Telling
  BY <1>0, <1>3 DEF Telling, ReportApplied, SameMission, Mission
<1>4. CASE Asking
  BY <1>4 DEF Asking, Asked, RequestCommand, RequestAbort, SameMission
<1>5. CASE Answering
  BY <1>5 DEF Answering, AcknowledgeCommand, SameMission
<1> QED
  BY <1>1, <1>2, <1>3, <1>4, <1>5 DEF RowMove

LEMMA CommandMoves ==
  ASSUME ExecInv, RowMove, NEW c \in Commands
  PROVE  \/ cmd'[c] = cmd[c]
         \/ /\ cmd[c].status = "NONE" /\ mission' = mission
            /\ \E m \in Missions, k \in CommandType :
                 cmd'[c] = Requested(m, k) /\ mission[m].status \in AllowedStates[k]
         \/ /\ cmd[c].status = "PENDING" /\ cmd'[c] = [cmd[c] EXCEPT !.status = "FAILED"]
            /\ mission' = mission
         \/ /\ c = work.cmd /\ cmd[c].status \in OpenCommandStatus /\ mission' = mission
            /\ \/ pc = "take" /\ cmd'[c] = [cmd[c] EXCEPT !.status = "ACKNOWLEDGED", !.gateway = Self]
               \/ pc = "ack" /\ cmd'[c] = [cmd[c] EXCEPT !.status = work.answer, !.gateway = Self]
<1>0. cmd \in [Commands -> Command]
  BY DEF ExecInv, TypeOK
<1>1. CASE Unclaimed \/ Taking \/ Telling
  BY <1>1 DEF Unclaimed, Taking, Telling, ClaimAccepted, ReportApplied
<1>2. ASSUME NEW m \in Missions, NEW k \in CommandType, NEW d \in Commands, Asked(m, k, d)
      PROVE  \/ cmd'[c] = cmd[c]
             \/ /\ cmd[c].status = "NONE" /\ mission' = mission
                /\ cmd'[c] = Requested(m, k) /\ mission[m].status \in AllowedStates[k]
             \/ /\ cmd[c].status = "PENDING" /\ cmd'[c] = [cmd[c] EXCEPT !.status = "FAILED"]
                /\ mission' = mission
  <2>1. CASE RequestCommand(m, k, d)
    BY <1>0, <2>1 DEF RequestCommand
  <2>2. CASE k = "ABORT" /\ RequestAbort(m, d)
    BY <1>0, <2>2 DEF RequestAbort
  <2> QED
    BY <1>2, <2>1, <2>2 DEF Asked
<1>3. CASE Answering
  <2>1. ASSUME NEW s, AcknowledgeCommand(work.cmd, Self, s)
        PROVE  \/ cmd'[c] = cmd[c]
               \/ /\ c = work.cmd /\ cmd[c].status \in OpenCommandStatus /\ mission' = mission
                  /\ cmd'[c] = [cmd[c] EXCEPT !.status = s, !.gateway = Self]
    BY <1>0, <2>1 DEF AcknowledgeCommand, Acknowledgeable
  <2> QED
    BY <1>3, <2>1 DEF Answering
<1> QED
  BY <1>1, <1>2, <1>3 DEF RowMove, Asking

-------------------------------------------------------------------------------
(* What the journal knows of the missions and the commands.                *)

(* The phases of the journal while the backend shows a mission in flight.  *)
PhasesOf(s) ==
  CASE s = "UPLOADING" ->
         {"CLAIM_PENDING", "UPLOADING_PENDING_REPORT", "UPLOADING", "UPLOAD_COMMAND_SENT",
          "UPLOAD_RECOVERY_BLOCKED", "RECOVERED_UPLOAD_PENDING_REPORT",
          "UPLOADED_PENDING_REPORT"}
    [] s = "UPLOADED" ->
         {"UPLOADED_PENDING_REPORT", "RECOVERED_UPLOAD_PENDING_REPORT", "VERIFYING",
          "VERIFIED_PENDING_REPORT"}
    [] s = "VERIFIED" ->
         {"VERIFIED_PENDING_REPORT", "WAITING_OPERATOR_ARM", "START_COMMAND_SENT",
          "EXECUTING_PENDING_REPORT"}
    [] OTHER -> {"EXECUTING_PENDING_REPORT", "EXECUTING", "PAUSED"}

(* A mission in flight is the journalled one, in a phase of its status.    *)
Agreed(j, ms) ==
  \A m \in Missions : ms[m].status \in FlightStatus =>
    j.mission = m /\ j.phase \in PhasesOf(ms[m].status)

(* Until it is started, only a VERIFIED mission has an open ARM or START.  *)
BeforeTakeOff == BeforeStart \cup {"START_COMMAND_SENT"}
Standing(j, ms, cm) ==
  \A c \in Commands :
    /\ cm[c].status \in OpenCommandStatus /\ cm[c].type \in {"ARM", "START"}
    /\ cm[c].mission = j.mission /\ j.phase \in BeforeTakeOff
    => ms[j.mission].status = "VERIFIED"

(* What holds while the executor has something in hand.                    *)
InHand(j, p, w, cm) ==
  /\ p = "failReport" => j.phase \in {"CLAIM_PENDING", "UPLOADING", "UPLOAD_COMMAND_SENT"}
  /\ p = "arm" \/ (p = "take" /\ cm[w.cmd].type = "ARM") =>
       j.phase \in {"VERIFIED_PENDING_REPORT", "WAITING_OPERATOR_ARM"}
  /\ p \in {"arm", "act", "actionReport"} =>
       cm[w.cmd].status = "ACKNOWLEDGED" /\ cm[w.cmd].gateway = Self
  /\ p \in {"act", "actionReport"} /\ cm[w.cmd].type = "CONTINUE" => j.phase = "PAUSED"
  /\ p = "missions" => j.phase = "EMPTY"

(* The gateway of this deployment is the only one there ever was.          *)
Own(ms, cm) ==
  /\ \A m \in Missions : ms[m].claimedBy \in {NoGateway, Self}
  /\ \A c \in Commands : cm[c].status = "ACKNOWLEDGED" => cm[c].gateway # NoGateway
  /\ \A c \in Commands : sent.commands[c] > 0 => cm[c].gateway = Self

BookInv ==
  /\ OnceInv /\ OneOpenCommand /\ Passed
  /\ Own(mission, cmd)
  /\ Agreed(journal, mission)
  /\ Standing(journal, mission, cmd)
  /\ InHand(journal, pc, work, cmd)

(* Which status a report moves a mission from.                             *)
LEMMA Predecessors ==
  ASSUME NEW t \in MissionStatus, NEW s \in GatewayTransitions[t]
  PROVE  /\ s # "UPLOADING"
         /\ s = "UPLOADED" => t = "UPLOADING"
         /\ s = "VERIFIED" => t = "UPLOADED"
         /\ s = "EXECUTING" => t \in {"VERIFIED", "PAUSED"}
         /\ s = "COMPLETED" => t = "RETURNING"
         /\ s \in AirborneStatus \ {"EXECUTING"} => t \in AirborneStatus
         /\ t = "VERIFIED" => s \in {"EXECUTING", "ABORTED", "FAILED"}
BY DEF GatewayTransitions, MissionStatus, ClaimedStatus, FlightStatus, UploadStatus,
       AirborneStatus, EndStatus, PlanningStatus

LEMMA BookCommand ==
  ASSUME ExecInv, pc \in {"act", "actionReport"}
  PROVE  /\ work.cmd \in Commands
         /\ cmd[work.cmd].type \in {"START", "PAUSE", "CONTINUE", "RTL", "ABORT"}
         /\ pc = "actionReport" => cmd[work.cmd].type # "START"
BY DEF ExecInv, Fits, CommandAtHand, TypeOK, Command, CommandType

LEMMA AgreedRows ==
  ASSUME BookInv, RowMove, mission' \in [Missions -> Mission]
  PROVE  Agreed(journal, mission')
<1> ExecInv /\ Due(journal, pc, work)
  BY DEF BookInv, OnceInv
<1> SUFFICES ASSUME NEW m \in Missions, mission'[m].status \in FlightStatus
             PROVE  journal.mission = m /\ journal.phase \in PhasesOf(mission'[m].status)
  BY DEF Agreed
<1>0. mission[m].status \in MissionStatus
  BY DEF ExecInv, TypeOK, Mission
<1>1. CASE SameMission(m)
  BY <1>1 DEF SameMission, BookInv, Agreed
<1>2. CASE mission'[m].status \notin ClaimedStatus
  BY <1>2 DEF ClaimedStatus
<1>3. CASE pc = "claim" /\ m = journal.mission /\ mission'[m].status = "UPLOADING"
  BY <1>3 DEF Due, PhasesOf
<1>4. CASE /\ pc \in ReportCall /\ m = journal.mission /\ mission'[m].status = Said
           /\ Said \in GatewayTransitions[mission[m].status]
  <2> DEFINE t == mission[m].status
  <2>1. t \in FlightStatus /\ journal.phase \in PhasesOf(t)
    BY <1>0, <1>4, TransitionsOfFlights DEF BookInv, Agreed
  <2>2. CASE Said \in AirborneStatus \ {"EXECUTING"}
    <3>1. t \in AirborneStatus
      BY <1>0, <1>4, <2>2, Predecessors
    <3> QED
      BY <1>4, <2>1, <2>2, <3>1 DEF PhasesOf, AirborneStatus
  <2>3. CASE pc = "phaseReport"
    BY <1>0, <1>4, <2>3, Predecessors
    DEF Said, ExecInv, Fits, ReportPhase, PhaseStatus, PhasesOf
  <2>4. CASE pc \in {"flush", "flushPolled"}
    <3>1. Said \in ProgressStatus
      BY <2>4 DEF Said, ExecInv, Fits, Journal
    <3>2. Said \in AirborneStatus \ {"EXECUTING"}
      BY <1>4, <3>1 DEF ProgressStatus, ProgressStatuses, FlightStatus, UploadStatus, AirborneStatus
    <3> QED
      BY <2>2, <3>2
  <2>5. CASE pc = "failReport"
    BY <1>4, <2>5 DEF Said, FlightStatus, UploadStatus, AirborneStatus
  <2>6. CASE pc = "actionReport"
    <3>1. CASE cmd[work.cmd].type = "CONTINUE"
      <4>1. journal.phase = "PAUSED"
        BY <2>6, <3>1 DEF BookInv, InHand
      <4>2. t \in AirborneStatus
        BY <2>1, <4>1 DEF PhasesOf, FlightStatus, UploadStatus
      <4>3. Said \in ProgressStatus \cup {"EXECUTING"}
        BY <2>6, <3>1 DEF Said, ActionStatus, ExecInv, Fits, Journal
      <4>4. Said \in AirborneStatus
        BY <1>4, <4>3 DEF ProgressStatus, ProgressStatuses, FlightStatus, UploadStatus, AirborneStatus
      <4> QED
        BY <1>4, <2>1, <4>2, <4>4 DEF PhasesOf, AirborneStatus
    <3>2. CASE cmd[work.cmd].type \in {"PAUSE", "RTL"}
      BY <2>2, <2>6, <3>2 DEF Said, ActionStatus, AirborneStatus
    <3>3. CASE cmd[work.cmd].type = "ABORT"
      BY <1>4, <2>6, <3>3 DEF Said, ActionStatus, FlightStatus, UploadStatus, AirborneStatus
    <3> QED
      BY <2>6, <3>1, <3>2, <3>3, BookCommand
  <2> QED
    BY <1>4, <2>3, <2>4, <2>5, <2>6 DEF ReportCall
<1> QED
  BY <1>1, <1>2, <1>3, <1>4, MissionMoves

LEMMA StandingRows ==
  ASSUME BookInv, RowMove
  PROVE  Standing(journal, mission', cmd')
<1> ExecInv /\ Due(journal, pc, work)
  BY DEF BookInv, OnceInv
<1> SUFFICES ASSUME NEW c \in Commands, cmd'[c].status \in OpenCommandStatus,
                    cmd'[c].type \in {"ARM", "START"}, cmd'[c].mission = journal.mission,
                    journal.phase \in BeforeTakeOff
             PROVE  mission'[journal.mission].status = "VERIFIED"
  BY DEF Standing
<1>0. cmd[c] \in Command
  BY DEF ExecInv, TypeOK
<1>1. CASE cmd'[c] = cmd[c]
  <2> DEFINE m == journal.mission
  <2>1. m \in Missions /\ mission[m].status = "VERIFIED" /\ mission[m].status \in MissionStatus
    BY <1>0, <1>1
    DEF BookInv, Standing, ExecInv, CommandsOfTheHolder, OpenCommandStatus, TypeOK, Command,
        Mission
  <2>2. mission[m].status \in FlightStatus /\ mission[m].status \in ClaimedStatus
    BY <2>1 DEF FlightStatus, UploadStatus, ClaimedStatus
  <2>3. journal.phase \in PhasesOf("VERIFIED")
    BY <2>1, <2>2 DEF BookInv, Agreed
  <2>4. ASSUME pc \in ReportCall, Said \in GatewayTransitions[mission[m].status]
        PROVE  FALSE
    <3>1. Said \in {"EXECUTING", "ABORTED", "FAILED"}
      BY <2>1, <2>4, Predecessors
    <3>2. CASE pc = "phaseReport"
      BY <3>1, <3>2
      DEF Said, PhaseStatus, ExecInv, Fits, ReportPhase, BeforeTakeOff, BeforeStart, BeforeUpload
    <3>3. CASE pc \in {"flush", "flushPolled"}
      BY <3>1, <3>3 DEF Said, ExecInv, Fits, Journal, ProgressStatus, ProgressStatuses
    <3>4. CASE pc = "failReport"
      BY <2>3, <3>4 DEF BookInv, InHand, PhasesOf
    <3>5. CASE pc = "actionReport"
      <4>1. /\ work.cmd \in Commands /\ cmd[work.cmd].type \notin {"ARM", "START"}
            /\ cmd[work.cmd].status \in OpenCommandStatus /\ cmd[work.cmd].mission = m
        BY <3>5, BookCommand DEF BookInv, InHand, Due, OpenCommandStatus
      <4>2. c = work.cmd
        BY <1>1, <2>1, <4>1 DEF BookInv, OneOpenCommand, OpenCommands
      <4> QED
        BY <1>1, <4>1, <4>2
    <3> QED
      BY <2>4, <3>2, <3>3, <3>4, <3>5 DEF ReportCall
  <2> QED
    BY <2>1, <2>2, <2>4, MissionMoves DEF SameMission
<1>2. ASSUME NEW m \in Missions, NEW k \in CommandType, mission' = mission,
             cmd'[c] = Requested(m, k), mission[m].status \in AllowedStates[k]
      PROVE  mission'[journal.mission].status = "VERIFIED"
  BY <1>2 DEF Requested, AllowedStates
<1>3. CASE cmd'[c] = [cmd[c] EXCEPT !.status = "FAILED"]
  BY <1>0, <1>3 DEF Command, OpenCommandStatus
<1>4. CASE /\ cmd[c].status \in OpenCommandStatus /\ mission' = mission
           /\ cmd'[c] = [cmd[c] EXCEPT !.status = "ACKNOWLEDGED", !.gateway = Self]
  BY <1>0, <1>4 DEF BookInv, Standing, Command
<1>5. CASE pc = "ack" /\ cmd'[c] = [cmd[c] EXCEPT !.status = work.answer, !.gateway = Self]
  BY <1>0, <1>5 DEF Command, OpenCommandStatus, ExecInv, Fits, Work
<1> QED
  BY <1>1, <1>2, <1>3, <1>4, <1>5, CommandMoves

LEMMA InHandRows ==
  ASSUME BookInv, RowMove
  PROVE  InHand(journal, pc, work, cmd')
<1> ExecInv /\ InHand(journal, pc, work, cmd)
  BY DEF BookInv, OnceInv
<1>1. ASSUME pc \in {"take", "arm", "act", "actionReport"}
      PROVE  work.cmd \in Commands /\ cmd[work.cmd].status # "NONE" /\ cmd[work.cmd] \in Command
  BY <1>1 DEF ExecInv, Fits, CommandAtHand, TypeOK
<1>2. ASSUME pc \in {"arm", "act", "actionReport"}
      PROVE  cmd'[work.cmd] = cmd[work.cmd]
  <2> cmd[work.cmd].status = "ACKNOWLEDGED"
    BY <1>2 DEF InHand
  <2> QED
    BY <1>1, <1>2, CommandMoves
<1>3. ASSUME pc = "take" PROVE cmd'[work.cmd].type = cmd[work.cmd].type
  BY <1>1, <1>3, CommandMoves DEF Command
<1> QED
  BY <1>2, <1>3 DEF InHand

LEMMA OwnRows ==
  ASSUME BookInv, RowMove
  PROVE  Own(mission', cmd')
<1> ExecInv /\ Own(mission, cmd) /\ SentIsKnown
  BY DEF BookInv, OnceInv
<1>1. ASSUME NEW m \in Missions PROVE mission'[m].claimedBy \in {NoGateway, Self}
  BY MissionMoves DEF Own, SameMission
<1>2. Self # NoGateway
  BY DroneAssumption, NullAssumption
<1>3. ASSUME NEW c \in Commands
      PROVE  /\ cmd'[c].status = "ACKNOWLEDGED" => cmd'[c].gateway # NoGateway
             /\ sent.commands[c] > 0 => cmd'[c].gateway = Self
  <2>0. cmd[c] \in Command
    BY DEF ExecInv, TypeOK
  <2>1. CASE cmd'[c] = cmd[c]
    BY <2>1 DEF Own
  <2>2. ASSUME NEW m \in Missions, NEW k \in CommandType, cmd[c].status = "NONE",
               cmd'[c] = Requested(m, k)
        PROVE  /\ cmd'[c].status = "ACKNOWLEDGED" => cmd'[c].gateway # NoGateway
               /\ sent.commands[c] > 0 => cmd'[c].gateway = Self
    BY <2>2 DEF Requested, SentIsKnown
  <2>3. CASE cmd[c].status = "PENDING" /\ cmd'[c] = [cmd[c] EXCEPT !.status = "FAILED"]
    BY <2>0, <2>3 DEF SentIsKnown, Command
  <2>4. CASE \E s : cmd'[c] = [cmd[c] EXCEPT !.status = s, !.gateway = Self]
    BY <1>2, <2>0, <2>4 DEF Command
  <2> QED
    BY <2>1, <2>2, <2>3, <2>4, CommandMoves
<1> QED
  BY <1>1, <1>3 DEF Own

-------------------------------------------------------------------------------
(* The journal moves on, the rows being where the step leaves them.        *)

RowsAgree(j) == Agreed(j, mission') /\ Standing(j, mission', cmd')

Booked == RowsAgree(journal') /\ InHand(journal', pc', work', cmd')

(* Awaits for which nothing but the journal counts.                        *)
Restful ==
  {"heartbeat", "commands", "claim", "phaseReport", "flush", "flushPolled", "upload", "verify",
   "poll", "publish", "ack"}

LEMMA RestfulInHand ==
  ASSUME NEW j, NEW p \in Restful, NEW w, NEW cm
  PROVE  InHand(j, p, w, cm)
BY DEF InHand, Restful

LEMMA MoveAgrees ==
  ASSUME NEW j, NEW k, RowsAgree(j), k.mission = j.mission,
         \A s \in FlightStatus : s = mission'[j.mission].status /\ j.phase \in PhasesOf(s) =>
           k.phase \in PhasesOf(s),
         k.phase \in BeforeTakeOff => j.phase \in BeforeTakeOff
  PROVE  RowsAgree(k)
BY DEF RowsAgree, Agreed, Standing

LEMMA GoneAgrees ==
  ASSUME RowsAgree(journal), mission'[journal.mission].status \notin FlightStatus
  PROVE  RowsAgree(NoJournal)
BY DEF RowsAgree, Agreed, Standing, NoJournal, BeforeTakeOff, BeforeStart, BeforeUpload

LEMMA SameBooked ==
  ASSUME RowsAgree(journal), journal' = journal, pc' \in Restful
  PROVE  Booked
BY RestfulInHand DEF Booked

LEMMA FinishRestful == Stop \/ Finish => pc' \in Restful
BY DEF Stop, Finish, At, Restful

LEMMA ContinueBooked ==
  ASSUME NEW j, Kept(j), RowsAgree(j), Continue(j)
  PROVE  Booked
<1>1. ASSUME journal' = j, pc' \in Restful PROVE Booked
  BY <1>1, RestfulInHand DEF Booked
<1>2. CASE j.phase = "UPLOADING"
  <2>1. CASE journal' = j /\ Finish
    BY <1>1, <2>1, FinishRestful
  <2>2. CASE journal' = j /\ At("failReport")
    BY <1>2, <2>2 DEF Booked, InHand, At
  <2>3. CASE journal' = [j EXCEPT !.phase = "UPLOAD_COMMAND_SENT"] /\ At("upload")
    <3>1. journal'.mission = j.mission /\ journal'.phase = "UPLOAD_COMMAND_SENT"
      BY <2>3 DEF Kept, Journal
    <3>2. \A s \in FlightStatus : j.phase \in PhasesOf(s) => journal'.phase \in PhasesOf(s)
      BY <1>2, <3>1 DEF PhasesOf
    <3>3. j.phase \in BeforeTakeOff
      BY <1>2 DEF BeforeTakeOff, BeforeStart, BeforeUpload
    <3>4. RowsAgree(journal')
      BY <3>1, <3>2, <3>3, MoveAgrees
    <3> QED
      BY <2>3, <3>4, RestfulInHand DEF Booked, At, Restful
  <2> QED
    BY <1>2, <2>1, <2>2, <2>3 DEF Continue
<1>3. CASE j.phase # "UPLOADING"
  <2> journal' = j /\ (Finish \/ At("phaseReport") \/ At("verify") \/ At("flush") \/ At("poll"))
    BY <1>3 DEF Continue
  <2> pc' \in Restful
    BY FinishRestful DEF At, Restful
  <2> QED
    BY <1>1
<1> QED
  BY <1>2, <1>3

LEMMA ExecuteBooked ==
  ASSUME BookInv, RowsAgree(journal), NEW w, NEW c \in Commands, w.cmd = c,
         journal.mission \in Missions,
         cmd'[c].status = "ACKNOWLEDGED", cmd'[c].gateway = Self,
         cmd'[c].type = cmd[c].type, cmd[c].type # "ARM",
         Execute(cmd[c].type, w)
  PROVE  Booked
<1>1. CASE ~Executable(cmd[c].type)
  BY <1>1, SameBooked DEF Execute, Restful
<1>2. CASE Executable(cmd[c].type) /\ cmd[c].type # "START"
  <2> journal' = journal /\ pc' = "act" /\ work' = w
    BY <1>2 DEF Execute
  <2> cmd[c].type = "CONTINUE" => journal.phase = "PAUSED"
    BY <1>2 DEF Executable
  <2> QED
    BY DEF Booked, InHand
<1>3. CASE Executable(cmd[c].type) /\ cmd[c].type = "START"
  <2>1. /\ journal.phase = "WAITING_OPERATOR_ARM" /\ journal' = InPhase("START_COMMAND_SENT")
        /\ pc' = "act" /\ work' = w
    BY <1>3 DEF Execute, Executable
  <2>2. journal'.mission = journal.mission /\ journal'.phase = "START_COMMAND_SENT"
    BY <2>1, JournalKept, InPhaseKept DEF BookInv, OnceInv, ActivePhase
  <2>3. \A s \in FlightStatus : journal.phase \in PhasesOf(s) => journal'.phase \in PhasesOf(s)
    BY <2>1, <2>2 DEF PhasesOf
  <2>4. journal.phase \in BeforeTakeOff
    BY <2>1 DEF BeforeTakeOff, BeforeStart
  <2>5. RowsAgree(journal')
    BY <2>2, <2>3, <2>4, MoveAgrees
  <2> QED
    BY <1>3, <2>1, <2>5 DEF Booked, InHand
<1> QED
  BY <1>1, <1>2, <1>3

(* Open and no longer pending: acknowledged, by this gateway.              *)
LEMMA OpenIsTaken ==
  ASSUME BookInv, NEW c \in Commands, cmd[c].status \in OpenCommandStatus,
         cmd[c].status # "PENDING"
  PROVE  cmd[c].status = "ACKNOWLEDGED" /\ cmd[c].gateway = Self
<1>1. cmd[c].status = "ACKNOWLEDGED" /\ cmd[c].gateway # NoGateway
  BY DEF OpenCommandStatus, BookInv, Own
<1>2. /\ cmd[c].mission \in Missions
      /\ cmd[c].gateway \in {NoGateway, mission[cmd[c].mission].claimedBy}
      /\ mission[cmd[c].mission].claimedBy # NoGateway
  BY <1>1 DEF BookInv, OnceInv, ExecInv, CommandsOfTheHolder, TypeOK, Command
<1> QED
  BY <1>1, <1>2 DEF BookInv, Own

LEMMA PollBooked ==
  ASSUME BookInv, RowsAgree(journal), PollCommands
  PROVE  Booked
<1> ExecInv /\ Kept(journal) /\ cmd' = cmd
  BY JournalKept DEF BookInv, OnceInv, PollCommands, rows
<1>1. ASSUME NEW c \in PendingCommands,
             CASE cmd[c].mission # Current ->
                    /\ pc' = "ack" /\ work' = [Fetch(c) EXCEPT !.answer = "FAILED"]
                    /\ UNCHANGED journal
               [] cmd[c].mission = Current /\ cmd[c].type = "ARM" ->
                    ProcessArm(c) /\ UNCHANGED journal
               [] OTHER -> ProcessOther(c)
      PROVE  Booked
  <2>1. /\ c \in Commands /\ cmd[c].status \in OpenCommandStatus /\ cmd[c].mission \in Missions
        /\ Fetch(c).cmd = c
    <3>1. c \in Commands /\ cmd[c].status \in OpenCommandStatus
      BY DEF PendingCommands
    <3>2. cmd[c].mission \in Missions
      BY <3>1 DEF OpenCommandStatus, ExecInv, CommandsOfTheHolder, TypeOK, Command
    <3> QED
      BY <3>1, <3>2, FetchTyped
  <2>2. CASE journal' = journal /\ pc' \in {"ack", "publish", "phaseReport"}
    BY <2>2, SameBooked DEF Restful
  <2>3. CASE cmd[c].type = "ARM" /\ ArmReady /\ journal' = journal /\ pc' = "take"
             /\ work' = Fetch(c)
    BY <2>3 DEF ArmReady, Booked, InHand
  <2>4. CASE cmd[c].type # "ARM" /\ journal' = journal /\ pc' = "take" /\ work' = Fetch(c)
    BY <2>1, <2>4 DEF Booked, InHand
  <2>5. CASE /\ cmd[c].mission = Current /\ cmd[c].status # "PENDING" /\ cmd[c].type # "ARM"
             /\ Execute(cmd[c].type, Fetch(c))
    BY <2>1, <2>5, OpenIsTaken, ExecuteBooked DEF Current
  <2>6. CASE cmd[c].mission # Current
    BY <1>1, <2>2, <2>6
  <2>7. CASE cmd[c].mission = Current /\ cmd[c].type = "ARM"
    <3> ProcessArm(c) /\ journal' = journal
      BY <1>1, <2>7
    <3> QED
      BY <2>2, <2>3, <2>7 DEF ProcessArm
  <2>8. CASE cmd[c].mission = Current /\ cmd[c].type # "ARM"
    <3> ProcessOther(c)
      BY <1>1, <2>8
    <3> QED
      BY <2>2, <2>4, <2>5, <2>8 DEF ProcessOther
  <2> QED
    BY <2>6, <2>7, <2>8
<1>2. CASE journal.phase # "EMPTY" /\ Continue(journal)
  BY <1>2, ContinueBooked
<1>3. CASE journal' = journal /\ Stop
  BY <1>3, SameBooked, FinishRestful
<1>4. CASE journal' = journal /\ journal.phase = "EMPTY" /\ At("missions")
  BY <1>4 DEF Booked, InHand, At
<1> QED
  BY <1>1, <1>2, <1>3, <1>4 DEF PollCommands

LEMMA OfferBooked ==
  ASSUME BookInv, RowsAgree(journal), InHand(journal, pc, work, cmd'), ListMissions
  PROVE  Booked
<1>1. CASE UNCHANGED execVars
  BY <1>1 DEF execVars, Booked
<1>2. CASE journal' = journal /\ Stop
  BY <1>2, SameBooked, FinishRestful
<1>3. ASSUME NEW m \in Missions, Authorized(m), At("claim"), UNCHANGED rows,
             journal' = [NoJournal EXCEPT !.phase = "CLAIM_PENDING", !.mission = m]
      PROVE  Booked
  <2>1. journal'.mission = m /\ mission' = mission /\ cmd' = cmd
    BY <1>3 DEF NoJournal, rows
  <2>2. journal.phase = "EMPTY"
    BY DEF ListMissions, InHand, execVars
  <2>3. \A k \in Missions : mission[k].status \notin FlightStatus
    BY <2>1, <2>2 DEF RowsAgree, Agreed, PhasesOf
  <2>4. mission[m].status \notin ClaimedStatus
    BY <1>3, GroundStatus DEF Authorized
  <2>5. \A c \in Commands : cmd[c].status \in OpenCommandStatus => cmd[c].mission # m
    BY <2>4 DEF OpenCommandStatus, BookInv, OnceInv, ExecInv, CommandsOfTheHolder
  <2>6. RowsAgree(journal')
    BY <2>1, <2>3, <2>5 DEF RowsAgree, Agreed, Standing
  <2> QED
    BY <1>3, <2>6, RestfulInHand DEF Booked, At, Restful
<1> QED
  BY <1>1, <1>2, <1>3 DEF ListMissions

LEMMA ClaimBooked ==
  ASSUME BookInv, RowsAgree(journal), Claim
  PROVE  Booked
<1>1. /\ Kept(journal) /\ journal.mission \in Missions /\ journal.phase = "CLAIM_PENDING"
      /\ mission \in [Missions -> Mission]
  BY JournalKept DEF Claim, BookInv, OnceInv, ExecInv, Fits, Engaged, Due, TypeOK
<1>2. CASE journal' = InPhase("UPLOADING_PENDING_REPORT") /\ At("phaseReport")
  <2>1. journal'.mission = journal.mission /\ journal'.phase = "UPLOADING_PENDING_REPORT"
    BY <1>1, <1>2, InPhaseKept DEF ActivePhase
  <2>2. \A s \in FlightStatus : journal.phase \in PhasesOf(s) => journal'.phase \in PhasesOf(s)
    BY <1>1, <2>1 DEF PhasesOf
  <2>3. RowsAgree(journal')
    BY <1>1, <2>1, <2>2, MoveAgrees DEF BeforeTakeOff, BeforeStart, BeforeUpload
  <2> QED
    BY <1>2, <2>3, RestfulInHand DEF Booked, At, Restful
<1>3. CASE At("failReport") /\ journal' = journal
  BY <1>1, <1>3 DEF Booked, InHand, At
<1>4. CASE ClaimRefused(journal.mission) /\ journal' = NoJournal /\ Stop
  <2> DEFINE m == journal.mission
  <2>1. mission[m].status \in FlightStatus =>
          mission[m].status = "UPLOADING" /\ mission[m].claimedBy = Self
    <3> SUFFICES ASSUME mission[m].status \in FlightStatus
                 PROVE  mission[m].status = "UPLOADING" /\ mission[m].claimedBy = Self
      OBVIOUS
    <3>1. mission[m].status = "UPLOADING"
      BY <1>1 DEF BookInv, Agreed, PhasesOf
    <3>2. mission[m].claimedBy # NoGateway
      BY <1>1 DEF BookInv, OnceInv, ExecInv, CommandsOfTheHolder, ClaimedStatus
    <3> QED
      BY <1>1, <3>1, <3>2 DEF BookInv, Own
  <2>2. mission'[m].status \notin FlightStatus
    <3>1. CASE UNCHANGED rows
      BY <1>4, <2>1, <3>1
      DEF ClaimRefused, ClaimExpired, ClaimUnfit, Claimable, Authorized, rows, FlightStatus,
          UploadStatus, AirborneStatus
    <3>2. CASE mission' = [mission EXCEPT ![m].status = "READY_FOR_AUTHORIZATION"]
      BY <1>1, <3>2 DEF Mission, FlightStatus, UploadStatus, AirborneStatus
    <3> QED
      BY <1>4, <3>1, <3>2 DEF ClaimRefused, ClaimExpired, ClaimUnfit, Invalidate
  <2>3. RowsAgree(journal')
    BY <1>4, <2>2, GoneAgrees
  <2> QED
    BY <1>4, <2>3, FinishRestful, RestfulInHand DEF Booked
<1> QED
  BY <1>2, <1>3, <1>4 DEF Claim, Current

(* What an accepted report leaves the mission in.                          *)
LEMMA AcceptedStatus ==
  ASSUME ExecInv, journal.mission \in Missions, NEW s \in MissionStatus, Passed'
  PROVE  /\ ReportAccepted(s, TRUE) =>
              mission'[journal.mission].status \in ClaimedStatus \ Earlier(s)
         /\ ReportAccepted(s, FALSE) => mission'[journal.mission].status = s
<1> DEFINE m == journal.mission
<1>1. mission \in [Missions -> Mission] /\ reported \in [Missions -> SUBSET KeptStatuses]
  BY DEF ExecInv, TypeOK
<1>2. ASSUME ReportAccepted(s, TRUE) PROVE s \in reported'[m]
  BY <1>1, <1>2
  DEF ReportAccepted, ReportApplied, ReportRecorded, Record, Current, rows
<1>3. ASSUME ReportAccepted(s, FALSE) PROVE mission'[m].status = s
  BY <1>1, <1>3 DEF ReportAccepted, ReportApplied, Current, rows, Mission
<1> QED
  BY <1>2, <1>3 DEF Passed

LEMMA PhaseReportBooked ==
  ASSUME BookInv, Passed', RowsAgree(journal), PhaseReport
  PROVE  Booked
<1>1. CASE journal' = journal /\ Stop
  BY <1>1, SameBooked, FinishRestful
<1>2. CASE ReportAccepted(PhaseStatus, TRUE) /\ Continue(InPhase(PhaseAfterReport))
  <2> DEFINE m == journal.mission
             j == InPhase(PhaseAfterReport)
  <2>1. /\ ExecInv /\ Kept(journal) /\ m \in Missions /\ journal.phase \in ReportPhase
        /\ PhaseStatus \in MissionStatus
    BY JournalKept, ReportedStatuses DEF BookInv, OnceInv, PhaseReport, ExecInv, Fits, Engaged
  <2>2. PhaseAfterReport \in ActivePhase
    BY <2>1 DEF ReportPhase, PhaseAfterReport, ActivePhase
  <2>3. Kept(j) /\ j.mission = m /\ j.phase = PhaseAfterReport
    BY <2>1, <2>2, InPhaseKept
  <2>4. mission'[m].status \notin Earlier(PhaseStatus)
    BY <1>2, <2>1, AcceptedStatus
  <2>5. ASSUME NEW s \in FlightStatus, s = mission'[m].status, journal.phase \in PhasesOf(s)
        PROVE  j.phase \in PhasesOf(s)
    BY <2>1, <2>3, <2>4, <2>5
    DEF ReportPhase, PhaseStatus, PhaseAfterReport, PhasesOf, Earlier, FlightStatus,
        UploadStatus, AirborneStatus
  <2>6. j.phase \in BeforeTakeOff => journal.phase \in BeforeTakeOff
    BY <2>1, <2>3
    DEF ReportPhase, PhaseAfterReport, BeforeTakeOff, BeforeStart, BeforeUpload
  <2>7. RowsAgree(j)
    <3> HIDE DEF j
    <3> QED
      BY <2>3, <2>5, <2>6, MoveAgrees
  <2> QED
    BY <1>2, <2>3, <2>7, ContinueBooked
<1> QED
  BY <1>1, <1>2 DEF PhaseReport

LEMMA FlushBooked ==
  ASSUME BookInv, Passed', RowsAgree(journal), FlushPendingStatus \/ FailActive
  PROVE  Booked
<1> DEFINE m == journal.mission
<1>1. /\ ExecInv /\ Kept(journal) /\ m \in Missions
      /\ FlushPendingStatus => journal.pending \in MissionStatus
      /\ "FAILED" \in MissionStatus
  BY JournalKept, ReportedStatuses
  DEF BookInv, OnceInv, FlushPendingStatus, FailActive, ExecInv, Fits, Engaged
<1>2. pc' \in Restful
  BY FinishRestful DEF FlushPendingStatus, FailActive, At, Restful
<1>3. CASE journal' = journal
  BY <1>2, <1>3, SameBooked
<1>4. CASE journal' = NoJournal /\ mission'[m].status \notin FlightStatus
  BY <1>2, <1>4, GoneAgrees, RestfulInHand DEF Booked
<1>5. CASE FlushPendingStatus /\ ReportAccepted(journal.pending, TRUE) /\ journal' = Flushed
  <2>1. CASE journal.pending = "COMPLETED"
    <3> mission'[m].status \notin FlightStatus
      BY <1>1, <1>5, <2>1, AcceptedStatus DEF Earlier
    <3> QED
      BY <1>4, <1>5, <2>1 DEF Flushed
  <2>2. CASE journal.pending # "COMPLETED"
    <3>1. journal'.mission = m /\ journal'.phase = journal.phase
      BY <1>1, <1>5, <2>2 DEF Flushed, Kept, Journal
    <3>2. RowsAgree(journal')
      BY <3>1, MoveAgrees
    <3> QED
      BY <1>2, <3>2, RestfulInHand DEF Booked
  <2> QED
    BY <2>1, <2>2
<1>6. CASE FailActive /\ ReportAccepted("FAILED", FALSE) /\ journal' = NoJournal
  <2> mission'[m].status \notin FlightStatus
    BY <1>1, <1>6, AcceptedStatus DEF FlightStatus, UploadStatus, AirborneStatus
  <2> QED
    BY <1>4, <1>6
<1> QED
  BY <1>3, <1>5, <1>6 DEF FlushPendingStatus, FailActive

LEMMA OperationBooked ==
  ASSUME BookInv, RowsAgree(journal), UploadMission \/ VerifyMission \/ PollMission
  PROVE  Booked
<1>1. /\ Kept(journal) /\ journal.mission \in Missions
      /\ pc = "upload" => journal.phase = "UPLOAD_COMMAND_SENT"
      /\ pc = "verify" => journal.phase \in {"UPLOAD_COMMAND_SENT", "VERIFYING"}
  BY JournalKept
  DEF BookInv, OnceInv, Due, UploadMission, VerifyMission, PollMission, ExecInv, Fits, Engaged
<1>2. CASE journal' = journal /\ pc' \in Restful
  BY <1>2, SameBooked
<1>3. CASE UploadMission /\ journal' = journal /\ At("failReport")
  BY <1>1, <1>3 DEF UploadMission, Booked, InHand, At
<1>4. ASSUME NEW q \in ActivePhase, journal' = InPhase(q), pc' \in Restful,
             \A s \in FlightStatus : journal.phase \in PhasesOf(s) => q \in PhasesOf(s),
             journal.phase \in BeforeTakeOff
      PROVE  Booked
  <2>1. journal'.mission = journal.mission /\ journal'.phase = q
    BY <1>1, <1>4, InPhaseKept
  <2>2. RowsAgree(journal')
    BY <1>4, <2>1, MoveAgrees
  <2> QED
    BY <1>4, <2>2, RestfulInHand DEF Booked
<1>5. CASE UploadMission /\ journal' = InPhase("UPLOADED_PENDING_REPORT") /\ At("phaseReport")
  BY <1>1, <1>4, <1>5
  DEF UploadMission, ActivePhase, At, Restful, PhasesOf, BeforeTakeOff, BeforeStart
<1>6. CASE VerifyMission
  <2>1. pc' \in Restful /\ pc = "verify"
    BY <1>6, FinishRestful DEF VerifyMission, At, Restful
  <2>2. CASE journal.phase = "VERIFYING" /\ journal' = InPhase("VERIFIED_PENDING_REPORT")
    BY <1>4, <2>1, <2>2 DEF ActivePhase, PhasesOf, BeforeTakeOff, BeforeStart
  <2>3. ASSUME NEW q \in {"RECOVERED_UPLOAD_PENDING_REPORT", "UPLOAD_RECOVERY_BLOCKED"},
               journal.phase = "UPLOAD_COMMAND_SENT", journal' = InPhase(q)
        PROVE  Booked
    BY <1>4, <2>1, <2>3 DEF ActivePhase, PhasesOf, BeforeTakeOff, BeforeStart
  <2> QED
    BY <1>1, <1>2, <1>6, <2>1, <2>2, <2>3 DEF VerifyMission
<1>7. CASE PollMission
  <2>1. pc' \in Restful
    BY <1>7, FinishRestful DEF PollMission, At, Restful
  <2>2. journal'.mission = journal.mission /\ journal'.phase = journal.phase
    BY <1>1, <1>7 DEF PollMission, Kept, Journal
  <2>3. RowsAgree(journal')
    BY <2>2, MoveAgrees
  <2> QED
    BY <2>1, <2>3, RestfulInHand DEF Booked
<1>8. CASE UploadMission /\ journal' = journal /\ Finish
  BY <1>2, <1>8, FinishRestful
<1> QED
  BY <1>3, <1>5, <1>6, <1>7, <1>8 DEF UploadMission

LEMMA TakeBooked ==
  ASSUME BookInv, RowsAgree(journal), InHand(journal, pc, work, cmd'), TakeCommand
  PROVE  Booked
<1>1. /\ work.cmd \in Commands /\ journal.mission \in Missions /\ cmd \in [Commands -> Command]
  BY DEF TakeCommand, BookInv, OnceInv, ExecInv, Fits, Engaged, TypeOK
<1>2. CASE journal' = journal /\ pc' \in Restful
  BY <1>2, SameBooked
<1>3. CASE AcknowledgeCommand(work.cmd, Self, "ACKNOWLEDGED")
  <2>1. /\ cmd'[work.cmd].status = "ACKNOWLEDGED" /\ cmd'[work.cmd].gateway = Self
        /\ cmd'[work.cmd].type = cmd[work.cmd].type
    BY <1>1, <1>3 DEF AcknowledgeCommand, Command
  <2>2. CASE cmd[work.cmd].type # "ARM" /\ Execute(cmd[work.cmd].type, work)
    BY <1>1, <2>1, <2>2, ExecuteBooked
  <2>3. CASE cmd[work.cmd].type = "ARM" /\ journal' = journal /\ At("arm")
    BY <2>1, <2>3 DEF TakeCommand, InHand, Booked, At
  <2>4. CASE journal' = journal /\ (pc' = "publish" \/ Stop)
    BY <1>2, <2>4, FinishRestful DEF Restful
  <2> QED
    BY <1>3, <2>2, <2>3, <2>4 DEF TakeCommand
<1> QED
  BY <1>2, <1>3, FinishRestful DEF TakeCommand

LEMMA ActBooked ==
  ASSUME BookInv, RowsAgree(journal), InHand(journal, pc, work, cmd'), ActOnVehicle
  PROVE  Booked
<1>1. /\ Kept(journal) /\ journal.mission \in Missions
      /\ cmd[work.cmd].type = "START" => journal.phase = "START_COMMAND_SENT"
  BY JournalKept DEF ActOnVehicle, BookInv, OnceInv, ExecInv, Fits, Engaged, Due
<1>2. CASE journal' = journal /\ Answer("FAILED")
  BY <1>2, SameBooked DEF Answer, Restful
<1>3. CASE journal' = journal /\ At("actionReport")
  BY <1>3 DEF ActOnVehicle, InHand, Booked, At
<1>4. CASE /\ cmd[work.cmd].type = "START" /\ journal' = InPhase("EXECUTING_PENDING_REPORT")
           /\ pc' \in {"phaseReport", "ack"}
  <2>1. journal'.mission = journal.mission /\ journal'.phase = "EXECUTING_PENDING_REPORT"
    BY <1>1, <1>4, InPhaseKept DEF ActivePhase
  <2>2. \A s \in FlightStatus : journal.phase \in PhasesOf(s) => journal'.phase \in PhasesOf(s)
    BY <1>1, <1>4, <2>1 DEF PhasesOf
  <2>3. RowsAgree(journal')
    BY <1>1, <1>4, <2>1, <2>2, MoveAgrees DEF BeforeTakeOff
  <2> QED
    BY <1>4, <2>3, RestfulInHand DEF Booked, Restful
<1> QED
  BY <1>2, <1>3, <1>4 DEF ActOnVehicle, Answer

LEMMA ActionBooked ==
  ASSUME BookInv, Passed', RowsAgree(journal), ActionReport
  PROVE  Booked
<1> DEFINE m == journal.mission
<1>1. /\ ExecInv /\ Kept(journal) /\ m \in Missions /\ pc' \in Restful
      /\ ActionStatus \in MissionStatus
      /\ cmd[work.cmd].type \in {"PAUSE", "CONTINUE", "RTL", "ABORT"}
      /\ cmd[work.cmd].type = "CONTINUE" => journal.last \in ProgressStatus \cup {"NONE"}
  BY JournalKept, ReportedStatuses, BookCommand
  DEF BookInv, OnceInv, ActionReport, ExecInv, Fits, Engaged, Answer, Restful, Journal
<1>2. CASE journal' = journal
  BY <1>1, <1>2, SameBooked
<1>3. CASE ReportAccepted(ActionStatus, FALSE) /\ journal' = AfterAction
  <2>1. mission'[m].status = ActionStatus
    BY <1>1, <1>3, AcceptedStatus
  <2>2. CASE cmd[work.cmd].type = "ABORT"
    <3>1. mission'[m].status \notin FlightStatus
      BY <2>1, <2>2 DEF ActionStatus, FlightStatus, UploadStatus, AirborneStatus
    <3>2. journal' = NoJournal
      BY <1>3, <2>2 DEF AfterAction
    <3> QED
      BY <1>1, <3>1, <3>2, GoneAgrees, RestfulInHand DEF Booked
  <2>3. CASE cmd[work.cmd].type # "ABORT"
    <3>1. journal'.phase \in {"PAUSED", "EXECUTING"} /\ journal'.mission = m
      BY <1>1, <1>3, <2>3 DEF AfterAction, InPhase, Kept, Journal
    <3>2. mission'[m].status \notin UploadStatus
      BY <1>1, <2>1, <2>3 DEF ActionStatus, ProgressStatus, ProgressStatuses, UploadStatus
    <3>3. \A s \in FlightStatus : s = mission'[m].status => journal'.phase \in PhasesOf(s)
      BY <3>1, <3>2 DEF PhasesOf, UploadStatus
    <3>4. RowsAgree(journal')
      <4> journal'.phase \notin BeforeTakeOff
        BY <3>1 DEF BeforeTakeOff, BeforeStart, BeforeUpload
      <4> QED
        BY <3>1, <3>3, MoveAgrees
    <3> QED
      BY <1>1, <3>4, RestfulInHand DEF Booked
  <2> QED
    BY <2>2, <2>3
<1> QED
  BY <1>2, <1>3 DEF ActionReport

LEMMA OtherBooked ==
  ASSUME BookInv, RowsAgree(journal), InHand(journal, pc, work, cmd'),
         \/ RunCycle \/ ArmVehicle \/ PublishArmConfirmation \/ FinishCommand
         \/ Interrupted \/ AnswerLost \/ DroneStep \/ PeopleStep \/ UNCHANGED allVars
  PROVE  Booked
<1>1. CASE journal' = journal /\ pc' \in Restful
  BY <1>1, SameBooked
<1>2. CASE UNCHANGED <<journal, pc, work>>
  BY <1>2 DEF Booked
<1> QED
  BY <1>1, <1>2, FinishRestful
  DEF RunCycle, ArmVehicle, PublishArmConfirmation, FinishCommand, Interrupted, AnswerLost,
      DroneStep, PeopleStep, allVars, execVars, At, Stop, Answer, Restful

(* Whatever is newly counted was sent for a command of this gateway.       *)
LEMMA OwnSent ==
  ASSUME BookInv, RowMove, [ExecNext]_allVars
  PROVE  (Own(mission, cmd))'
<1>1. Own(mission', cmd')
  BY OwnRows
<1> SUFFICES ASSUME NEW c \in Commands, sent'.commands[c] > 0 PROVE cmd'[c].gateway = Self
  BY <1>1 DEF Own
<1>2. CASE sent'.commands = sent.commands
  BY <1>1, <1>2 DEF Own
<1>3. CASE ArmVehicle \/ ActOnVehicle
  <2>1. work.cmd \in Commands /\ cmd[work.cmd].gateway = Self /\ cmd' = cmd
    BY <1>3 DEF ArmVehicle, ActOnVehicle, BookInv, OnceInv, ExecInv, Fits, InHand, rows
  <2>2. c = work.cmd \/ sent'.commands[c] = sent.commands[c]
    BY <1>3, <2>1, TransmittedCounts DEF ArmVehicle, ActOnVehicle, BookInv
  <2> QED
    BY <1>1, <2>1, <2>2 DEF Own
<1>4. CASE UploadMission
  <2> sent'.commands = sent.commands
    BY <1>4 DEF UploadMission, BookInv, OnceInv, ExecInv, Sent
  <2> QED
    BY <1>2
<1>5. CASE sent' = sent
  BY <1>2, <1>5
<1> QED
  BY <1>3, <1>4, <1>5
  DEF ExecNext, ExecutorStep, RunCycle, PollCommands, ListMissions, Claim, PhaseReport,
      FlushPendingStatus, FailActive, VerifyMission, PollMission, TakeCommand, ActionReport,
      PublishArmConfirmation, FinishCommand, Interrupted, AnswerLost, DroneStep, PeopleStep,
      allVars, execVars

LEMMA BookStarts == Init /\ ExecInit => BookInv
<1> SUFFICES ASSUME Init, ExecInit PROVE BookInv
  OBVIOUS
<1>1. OnceInv /\ OneOpenCommand /\ Passed
  BY OnceStarts, OneOpenInit, PassedInit
<1>2. Own(mission, cmd)
  BY DEF Init, ExecInit, Own
<1>3. Agreed(journal, mission) /\ Standing(journal, mission, cmd)
  BY DEF Init, Agreed, Standing, FlightStatus, UploadStatus, AirborneStatus, OpenCommandStatus
<1>4. InHand(journal, pc, work, cmd)
  BY RestfulInHand DEF ExecInit, Restful
<1> QED
  BY <1>1, <1>2, <1>3, <1>4 DEF BookInv

LEMMA BookStep == BookInv /\ [ExecNext]_allVars => BookInv'
<1> SUFFICES ASSUME BookInv, [ExecNext]_allVars PROVE BookInv'
  OBVIOUS
<1>1. ExecInv /\ OnceInv' /\ [Next]_vars
  BY OnceStep, StepOffered DEF BookInv, OnceInv, allVars
<1>2. OneOpenCommand' /\ Passed'
  BY <1>1, OneOpenStep, PassedStep DEF BookInv, ExecInv
<1>3. RowMove
  BY <1>1, RowMoves
<1>4. RowsAgree(journal) /\ InHand(journal, pc, work, cmd')
  <2> mission' \in [Missions -> Mission]
    BY <1>1 DEF OnceInv, ExecInv, TypeOK
  <2> QED
    BY <1>3, AgreedRows, StandingRows, InHandRows DEF RowsAgree
<1>5. Booked
  BY <1>2, <1>4, PollBooked, OfferBooked, ClaimBooked, PhaseReportBooked, FlushBooked,
     OperationBooked, TakeBooked, ActBooked, ActionBooked, OtherBooked
  DEF ExecNext, ExecutorStep
<1>6. (Own(mission, cmd))'
  BY <1>3, OwnSent
<1> QED
  BY <1>1, <1>2, <1>5, <1>6 DEF BookInv, Booked, RowsAgree

LEMMA BookInductive == ExecSpec => []BookInv
<1> QED
  BY BookStarts, BookStep, PTL DEF ExecSpec

(* A mission the backend believes to be under way is in the journal of its *)
(* gateway, whatever was lost between the two and however often the        *)
(* gateway died (MissionJournal, run_cycle, _fail_active).                 *)
THEOREM NothingForgotten == ExecSpec => []NoForgottenFlight
<1>1. BookInv => NoForgottenFlight
  BY DEF BookInv, Agreed, NoForgottenFlight
<1> QED
  BY <1>1, BookInductive, PTL

(* A command that is transmitted is, at that moment, acknowledged by this  *)
(* gateway and open, and an ARM or a START finds its mission VERIFIED: no  *)
(* ABORT, report or administrator comes between the last look at the       *)
(* command and its transmission (_process_arm_command, _process_command).  *)
THEOREM TransmissionsAreCurrent == ExecSpec => []TransmissionIsCurrent
<1>1. BookInv => TransmissionIsCurrent
  <2> SUFFICES ASSUME BookInv, pc \in {"arm", "act"}
               PROVE  /\ cmd[work.cmd].status = "ACKNOWLEDGED"
                      /\ cmd[work.cmd].gateway = Self
                      /\ cmd[work.cmd].type \in {"ARM", "START"} =>
                           mission[cmd[work.cmd].mission].status = "VERIFIED"
    BY DEF TransmissionIsCurrent
  <2>1. cmd[work.cmd].status = "ACKNOWLEDGED" /\ cmd[work.cmd].gateway = Self
    BY DEF BookInv, InHand
  <2>2. work.cmd \in Commands /\ cmd[work.cmd].mission = journal.mission
    BY DEF BookInv, OnceInv, ExecInv, Fits, Due
  <2>3. ASSUME cmd[work.cmd].type \in {"ARM", "START"}
        PROVE  journal.phase \in BeforeTakeOff
    <3>1. CASE pc = "arm"
      BY <3>1 DEF BookInv, InHand, BeforeTakeOff, BeforeStart
    <3>2. CASE pc = "act"
      <4> cmd[work.cmd].type = "START"
        BY <2>2, <2>3, <3>2 DEF BookInv, OnceInv, ExecInv, CommandAtHand
      <4> QED
        BY <3>2 DEF BookInv, OnceInv, Due, BeforeTakeOff
    <3> QED
      BY <3>1, <3>2
  <2> QED
    BY <2>1, <2>2, <2>3 DEF BookInv, Standing, OpenCommandStatus
<1> QED
  BY <1>1, BookInductive, PTL

-------------------------------------------------------------------------------
(* What the vehicle has done, and what the journal and the rows say of it. *)

(* Phases of a mission that has taken off, that may have, and whose plan   *)
(* is in the memory of the vehicle.                                        *)
Started == {"EXECUTING_PENDING_REPORT", "EXECUTING", "PAUSED"}
InFlight == Started \cup {"START_COMMAND_SENT"}
Loaded ==
  InFlight \cup
  {"WAITING_OPERATOR_ARM", "VERIFIED_PENDING_REPORT", "RECOVERED_UPLOAD_PENDING_REPORT"}

(* It takes off on a START, and a mission that is flown to its end is not  *)
(* in the air.                                                             *)
Flown ==
  /\ Airborne => drone.plan \in drone.flown
  /\ \A m \in drone.flown : StartsSent(m) # {}
  /\ \A m \in Missions : drone.progress[m] > 0 => m \in drone.flown
  /\ \A m \in Missions : drone.progress[m] = 4 => ~(Airborne /\ drone.plan = m)

(* The journal knows what is in the air and what is in the memory.         *)
OnBoard(j) ==
  /\ Airborne => j.phase \in InFlight /\ j.mission = drone.plan
  /\ j.phase \in Loaded => drone.plan = j.mission
  /\ j.phase \in Started => j.mission \in drone.flown

(* The flight of m got to the progress s, or was sent home.                *)
Reached(s, m) ==
  s \in ProgressStatus /\ m \in Missions =>
    \/ ProgressIndex(s) <= drone.progress[m]
    \/ s = "RETURNING" /\ CommandedHome(m)

Told(j) == Reached(j.pending, j.mission) /\ Reached(j.last, j.mission)
Shown == \A m \in Missions : Reached(mission[m].status, m)

(* What the vehicle has confirmed before it is reported.                   *)
Acted(p, w) ==
  p = "actionReport" =>
    /\ cmd[w.cmd].type = "ABORT" => ~Airborne
    /\ cmd[w.cmd].type = "RTL" => w.cmd \in sent.confirmed

Confirmed == \A c \in sent.confirmed : cmd[c].status # "NONE"

FlightInv ==
  /\ BookInv /\ OnePermissionPerFlight
  /\ Flown /\ OnBoard(journal)
  /\ Told(journal) /\ Shown
  /\ Acted(pc, work) /\ Confirmed

LEMMA IndexOf == \A i \in 1 .. 4 : ProgressIndex(ProgressStatuses[i]) = i
BY DEF ProgressIndex, ProgressStatuses

LEMMA IndexValues ==
  /\ ProgressIndex("DESTINATION_REACHED") = 1 /\ ProgressIndex("DELIVERY_CONFIRMED") = 2
  /\ ProgressIndex("RETURNING") = 3 /\ ProgressIndex("COMPLETED") = 4
BY IndexOf DEF ProgressStatuses

(* The steps that touch the vehicle or transmit something.                 *)
Silent == UNCHANGED <<drone, sent>>

LEMMA SilentOrNot ==
  ASSUME [ExecNext]_allVars
  PROVE  \/ Silent
         \/ DroneStep \/ UploadMission \/ ArmVehicle \/ ActOnVehicle
BY DEF ExecNext, ExecutorStep, RunCycle, PollCommands, ListMissions, Claim, PhaseReport,
       FlushPendingStatus, FailActive, VerifyMission, PollMission, TakeCommand, ActionReport,
       PublishArmConfirmation, FinishCommand, Interrupted, AnswerLost, PeopleStep, allVars,
       execVars, Silent

(* What is counted or confirmed stays so, and stays what it was.           *)
LEMMA SentStays ==
  ASSUME BookInv, [ExecNext]_allVars
  PROVE  /\ \A c \in Commands : sent.commands[c] > 0 => sent'.commands[c] > 0
         /\ sent.confirmed \subseteq sent'.confirmed
<1>1. OnceInv /\ sent \in Sent
  BY DEF BookInv, OnceInv, ExecInv
<1>2. CASE Silent \/ DroneStep
  BY <1>2 DEF Silent, DroneStep
<1>3. CASE UploadMission
  <2> sent'.commands = sent.commands /\ sent'.confirmed = sent.confirmed
    BY <1>1, <1>3 DEF UploadMission, Sent
  <2> QED
    OBVIOUS
<1>4. CASE ArmVehicle \/ ActOnVehicle
  <2>1. work.cmd \in Commands
    BY <1>1, <1>4 DEF ArmVehicle, ActOnVehicle, OnceInv, ExecInv, Fits
  <2>2. sent' = sent \/ Transmitted(TRUE) \/ Transmitted(FALSE)
    BY <1>4 DEF ArmVehicle, ActOnVehicle
  <2>3. \A n \in 0 .. 2 : n > 0 => Again(n) > 0
    BY DEF Again
  <2> QED
    BY <1>1, <2>1, <2>2, <2>3, TransmittedCounts DEF Sent
<1> QED
  BY <1>2, <1>3, <1>4, SilentOrNot

LEMMA StartsStay ==
  ASSUME BookInv, [ExecNext]_allVars, NEW m, StartsSent(m) # {}
  PROVE  (StartsSent(m))' # {}
<1>1. PICK c \in StartsSent(m) : TRUE
  OBVIOUS
<1>2. /\ c \in Commands /\ cmd[c].type = "START" /\ cmd[c].mission = m
      /\ sent.commands[c] > 0 /\ cmd[c].status # "NONE"
  BY DEF StartsSent, BookInv, OnceInv, SentIsKnown
<1>3. cmd'[c].type = "START" /\ cmd'[c].mission = m
  BY <1>2, StepOffered, CommandRowsStay DEF BookInv, OnceInv, ExecInv, allVars
<1>4. c \in (StartsSent(m))'
  BY <1>2, <1>3, SentStays DEF StartsSent
<1> QED
  BY <1>4

(* A confirmed command stays the same row.                                 *)
LEMMA ConfirmedStays ==
  ASSUME FlightInv, [ExecNext]_allVars, NEW c \in sent.confirmed
  PROVE  /\ c \in Commands /\ c \in sent'.confirmed
         /\ cmd'[c].status # "NONE" /\ cmd'[c].type = cmd[c].type
         /\ cmd'[c].mission = cmd[c].mission
<1>1. BookInv /\ ExecInv /\ c \in Commands /\ cmd[c].status # "NONE"
  BY DEF FlightInv, Confirmed, BookInv, OnceInv, ExecInv, Sent
<1> QED
  BY <1>1, StepOffered, CommandRowsStay, SentStays DEF ExecInv, allVars

LEMMA HomeStays ==
  ASSUME FlightInv, [ExecNext]_allVars, NEW m, CommandedHome(m)
  PROVE  (CommandedHome(m))'
BY ConfirmedStays DEF CommandedHome

LEMMA ConfirmedStep ==
  ASSUME FlightInv, [ExecNext]_allVars
  PROVE  Confirmed'
<1> SUFFICES ASSUME NEW c \in sent'.confirmed PROVE cmd'[c].status # "NONE"
  BY DEF Confirmed
<1>0. BookInv /\ OnceInv /\ sent \in Sent
  BY DEF FlightInv, BookInv, OnceInv, ExecInv
<1>1. CASE c \in sent.confirmed
  BY <1>1, ConfirmedStays
<1>2. CASE c \notin sent.confirmed
  <2>1. CASE Silent \/ DroneStep
    BY <1>2, <2>1 DEF Silent, DroneStep
  <2>2. CASE UploadMission
    BY <1>0, <1>2, <2>2 DEF UploadMission, Sent
  <2>3. CASE ArmVehicle \/ ActOnVehicle
    <3>1. work.cmd \in Commands /\ cmd' = cmd /\ cmd[work.cmd].status # "NONE"
      BY <1>0, <2>3 DEF ArmVehicle, ActOnVehicle, OnceInv, ExecInv, Fits, CommandAtHand, rows
    <3>2. sent' = sent \/ Transmitted(TRUE) \/ Transmitted(FALSE)
      BY <2>3 DEF ArmVehicle, ActOnVehicle
    <3>3. ASSUME NEW b \in BOOLEAN, Transmitted(b)
          PROVE  sent'.confirmed \subseteq sent.confirmed \cup {work.cmd}
      BY <1>0, <3>1, <3>3, TransmittedCounts
    <3>4. c = work.cmd
      BY <1>2, <3>2, <3>3
    <3> QED
      BY <3>1, <3>4
  <2> QED
    BY <2>1, <2>2, <2>3, SilentOrNot
<1> QED
  BY <1>1, <1>2

-------------------------------------------------------------------------------
(* What a step does to the vehicle.                                        *)

Staying ==
  /\ drone'.plan = drone.plan /\ drone'.flown = drone.flown
  /\ drone'.progress = drone.progress
  /\ Airborne' => Airborne

Loading ==
  /\ UploadMission /\ journal.phase = "UPLOAD_COMMAND_SENT"
  /\ ~Airborne /\ ~Airborne'
  /\ drone'.flown = drone.flown /\ drone'.progress = drone.progress

TakingOff ==
  /\ ActOnVehicle /\ cmd[work.cmd].type = "START"
  /\ journal.phase = "START_COMMAND_SENT" /\ StartsSent(journal.mission) = {}
  /\ ~Airborne /\ drone.plan = journal.mission
  /\ drone'.plan = drone.plan /\ drone'.progress = drone.progress
  /\ drone'.flown = drone.flown \cup {journal.mission}

Advancing ==
  /\ UNCHANGED <<journal, pc, work, sent, mission, cmd>>
  /\ Airborne /\ drone.plan \in Missions
  /\ drone'.plan = drone.plan /\ drone'.flown = drone.flown
  /\ \E n \in 1 .. 4 :
       /\ n > drone.progress[drone.plan]
       /\ drone'.progress = [drone.progress EXCEPT ![drone.plan] = n]
       /\ n = 4 => ~Airborne'

VehicleMove == Staying \/ Loading \/ TakingOff \/ Advancing

LEMMA StepAdvances ==
  ASSUME FlightInv, DroneStep
  PROVE  Staying \/ Advancing
<1> DEFINE p == drone.progress[drone.plan]
<1>0. /\ drone \in Vehicle /\ UNCHANGED <<journal, pc, work, sent, mission, cmd>>
      /\ Airborne => drone.plan \in Missions
  BY DEF FlightInv, BookInv, OnceInv, ExecInv, Flown, Vehicle, DroneStep, rows
<1>1. CASE \/ drone' = [drone EXCEPT !.armed = ~drone.armed]
           \/ drone' = [drone EXCEPT !.mode = "ground"]
           \/ drone' = [drone EXCEPT !.mode = "landed", !.armed = FALSE]
  BY <1>0, <1>1 DEF Staying, Airborne, Vehicle
<1>2. CASE drone.mode = "auto" /\ p < 3 /\ drone' = [drone EXCEPT !.progress[drone.plan] = p + 1]
  <2>1. Airborne /\ drone.plan \in Missions /\ p \in 0 .. 4
    BY <1>0, <1>2 DEF Airborne, Vehicle
  <2>2. p + 1 \in 1 .. 4 /\ p + 1 # 4 /\ p + 1 > p
    BY <1>2, <2>1
  <2>3. /\ drone'.plan = drone.plan /\ drone'.flown = drone.flown
        /\ drone'.progress = [drone.progress EXCEPT ![drone.plan] = p + 1]
    BY <1>0, <1>2 DEF Vehicle
  <2> HIDE DEF p
  <2> QED
    BY <1>0, <2>1, <2>2, <2>3 DEF Advancing, p
<1>3. CASE /\ drone.mode = "auto" /\ p = 3
           /\ drone' = [drone EXCEPT !.progress[drone.plan] = 4, !.mode = "landed",
                                     !.armed = FALSE]
  <2>1. Airborne /\ drone.plan \in Missions
    BY <1>0, <1>3 DEF Airborne
  <2>2. /\ drone'.plan = drone.plan /\ drone'.flown = drone.flown /\ drone'.mode = "landed"
        /\ drone'.progress = [drone.progress EXCEPT ![drone.plan] = 4]
    BY <1>0, <1>3 DEF Vehicle
  <2>3. 4 \in 1 .. 4 /\ 4 > p
    BY <1>3
  <2>4. ~Airborne'
    BY <2>2 DEF Airborne
  <2> QED
    BY <1>0, <2>1, <2>2, <2>3, <2>4 DEF Advancing
<1> QED
  BY <1>1, <1>2, <1>3 DEF DroneStep

LEMMA ActMoves ==
  ASSUME FlightInv, ActOnVehicle
  PROVE  TakingOff \/ (Staying /\ journal' = journal)
<1> DEFINE k == cmd[work.cmd].type
<1>0. drone \in Vehicle /\ k \in {"START", "PAUSE", "CONTINUE", "RTL", "ABORT"}
  BY BookCommand DEF FlightInv, BookInv, OnceInv, ExecInv, ActOnVehicle
<1>1. CASE drone' = drone /\ journal' = journal
  BY <1>1 DEF Staying, Airborne
<1>2. CASE k = "START" /\ Effect("START")
  <2>1. journal.phase = "START_COMMAND_SENT" /\ StartsSent(journal.mission) = {}
    BY <1>2 DEF FlightInv, BookInv, OnceInv, ActOnVehicle, Due
  <2>2. /\ drone.mode = "ground" /\ drone.plan = journal.mission
        /\ drone' = [drone EXCEPT !.mode = "auto", !.flown = @ \cup {journal.mission}]
    BY <1>2 DEF Effect, Current
  <2>3. /\ drone'.plan = drone.plan /\ drone'.progress = drone.progress
        /\ drone'.flown = drone.flown \cup {journal.mission}
    BY <1>0, <2>2 DEF Vehicle
  <2> QED
    BY <1>2, <2>1, <2>2, <2>3 DEF TakingOff, Airborne
<1>3. CASE k \in {"PAUSE", "CONTINUE", "RTL", "ABORT"} /\ Effect(k) /\ journal' = journal
  BY <1>0, <1>3 DEF Effect, Staying, Airborne, Vehicle
<1> QED
  BY <1>0, <1>1, <1>2, <1>3 DEF ActOnVehicle

LEMMA VehicleMoves ==
  ASSUME FlightInv, [ExecNext]_allVars
  PROVE  VehicleMove
<1>0. /\ BookInv /\ OnceInv /\ ExecInv /\ drone \in Vehicle
      /\ Due(journal, pc, work) /\ OnBoard(journal)
  BY DEF FlightInv, BookInv, OnceInv, ExecInv
<1>1. CASE Silent
  BY <1>1 DEF Silent, Staying, VehicleMove, Airborne
<1>2. CASE DroneStep
  BY <1>2, StepAdvances DEF VehicleMove
<1>3. CASE UploadMission
  <2>1. journal.phase = "UPLOAD_COMMAND_SENT" /\ ~Airborne
    BY <1>0, <1>3 DEF UploadMission, Due, OnBoard, InFlight, Started
  <2>2. /\ drone'.mode = drone.mode /\ drone'.flown = drone.flown
        /\ drone'.progress = drone.progress
    BY <1>0, <1>3 DEF UploadMission, Vehicle
  <2> QED
    BY <1>3, <2>1, <2>2 DEF Loading, VehicleMove, Airborne
<1>4. CASE ArmVehicle
  BY <1>0, <1>4 DEF ArmVehicle, Staying, VehicleMove, Airborne, Vehicle
<1>5. CASE ActOnVehicle
  BY <1>5, ActMoves DEF VehicleMove
<1> QED
  BY <1>1, <1>2, <1>3, <1>4, <1>5, SilentOrNot

LEMMA ProgressGrows ==
  ASSUME ExecInv, VehicleMove, NEW m \in Missions
  PROVE  drone'.progress[m] >= drone.progress[m]
<1>1. drone.progress \in [Missions -> 0 .. 4]
  BY DEF ExecInv, Vehicle
<1>2. CASE drone'.progress = drone.progress
  BY <1>1, <1>2
<1>3. CASE Advancing
  BY <1>1, <1>3 DEF Advancing
<1> QED
  BY <1>2, <1>3 DEF VehicleMove, Staying, Loading, TakingOff

(* What was reached stays reached.                                         *)
LEMMA ReachedStays ==
  ASSUME FlightInv, [ExecNext]_allVars, NEW s \in ProgressStatus, NEW m \in Missions,
         Reached(s, m)
  PROVE  \/ ProgressIndex(s) <= drone'.progress[m]
         \/ s = "RETURNING" /\ (CommandedHome(m))'
<1>1. ExecInv /\ ExecInv'
  BY ExecStep DEF FlightInv, BookInv, OnceInv
<1>2. drone.progress[m] \in 0 .. 4 /\ drone'.progress[m] \in 0 .. 4
  BY <1>1 DEF ExecInv, Vehicle
<1>3. drone'.progress[m] >= drone.progress[m]
  BY <1>1, VehicleMoves, ProgressGrows
<1>4. ProgressIndex(s) \in 1 .. 4
  BY Indices
<1> QED
  BY <1>2, <1>3, <1>4, HomeStays DEF Reached

LEMMA FlownStep ==
  ASSUME FlightInv, [ExecNext]_allVars
  PROVE  Flown'
<1>0. /\ BookInv /\ drone \in Vehicle /\ Flown /\ VehicleMove
      /\ \A m \in drone.flown : (StartsSent(m))' # {}
  <2> BookInv /\ Flown
    BY DEF FlightInv
  <2> QED
    BY VehicleMoves, StartsStay DEF BookInv, OnceInv, ExecInv, Flown
<1>1. CASE Staying \/ Loading
  BY <1>0, <1>1 DEF Staying, Loading, Flown
<1>2. CASE TakingOff
  <2> PICK m : m = journal.mission
    OBVIOUS
  <2>1. m \in Missions /\ work.cmd \in Commands /\ cmd[work.cmd].mission = m
    BY <1>0, <1>2 DEF TakingOff, ActOnVehicle, BookInv, OnceInv, ExecInv, Fits, Engaged, Due
  <2>2. m \notin drone.flown /\ drone.progress[m] = 0
    BY <1>0, <1>2, <2>1 DEF TakingOff, Flown, Vehicle
  <2>3. sent'.commands[work.cmd] > 0 /\ cmd' = cmd
    <3>1. PICK b \in BOOLEAN : Transmitted(b)
      BY <1>2 DEF TakingOff, ActOnVehicle
    <3>2. cmd[work.cmd].type \notin Repeatable /\ sent.commands[work.cmd] \in 0 .. 2
      BY <1>0, <1>2, <2>1 DEF TakingOff, Repeatable, BookInv, OnceInv, ExecInv, Sent
    <3>3. sent'.commands[work.cmd] = Again(sent.commands[work.cmd])
      BY <1>0, <2>1, <3>1, <3>2, TransmittedCounts DEF BookInv
    <3> QED
      <4> cmd' = cmd
        BY <1>2 DEF TakingOff, ActOnVehicle, rows
      <4> QED
        BY <3>2, <3>3 DEF Again
  <2>4. (StartsSent(m))' # {}
    <3> work.cmd \in (StartsSent(m))'
      BY <1>2, <2>1, <2>3 DEF StartsSent, TakingOff
    <3> QED
      OBVIOUS
  <2> QED
    BY <1>0, <1>2, <2>1, <2>2, <2>4 DEF TakingOff, Flown, Vehicle
<1>3. CASE Advancing
  <2>1. PICK n \in 1 .. 4 :
          /\ n > drone.progress[drone.plan] /\ (n = 4 => ~Airborne')
          /\ drone'.progress = [drone.progress EXCEPT ![drone.plan] = n]
    BY <1>3 DEF Advancing
  <2>2. /\ Airborne /\ drone.plan \in Missions /\ drone.plan \in drone.flown
        /\ drone'.plan = drone.plan /\ drone'.flown = drone.flown
    BY <1>0, <1>3 DEF Advancing, Flown
  <2>3. \A m \in Missions :
          drone'.progress[m] = IF m = drone.plan THEN n ELSE drone.progress[m]
    BY <1>0, <2>1 DEF Vehicle
  <2> QED
    BY <1>0, <2>1, <2>2, <2>3 DEF Flown
<1> QED
  BY <1>0, <1>1, <1>2, <1>3 DEF VehicleMove

-------------------------------------------------------------------------------
(* What the journal says of the vehicle stays true.                        *)

Recorded == (OnBoard(journal))' /\ (Told(journal))'

(* k is what may be journalled after j without a look at the vehicle, or   *)
(* once the plan was read back.                                            *)
PhaseFollows(j, k) ==
  /\ k.mission = j.mission
  /\ j.phase \in InFlight => k.phase \in InFlight
  /\ k.phase \in Loaded => j.phase \in Loaded \/ drone.plan = j.mission
  /\ k.phase \in Started => j.phase \in Started

SameTale(j, k) == k.pending = j.pending /\ k.last = j.last

LEMMA SamePhase == PhaseFollows(journal, journal) /\ SameTale(journal, journal)
BY DEF PhaseFollows, SameTale

LEMMA ToldOnward ==
  ASSUME FlightInv, [ExecNext]_allVars, journal'.mission = journal.mission,
         journal'.pending \in {journal.pending, "NONE"},
         journal'.last \in {journal.last, journal.pending}
  PROVE  (Told(journal))'
<1>1. "NONE" \notin ProgressStatus
  BY DEF ProgressStatus, ProgressStatuses
<1>2. ASSUME NEW s \in {journal.pending, journal.last}, s \in ProgressStatus,
             journal.mission \in Missions
      PROVE  \/ ProgressIndex(s) <= drone'.progress[journal.mission]
             \/ s = "RETURNING" /\ (\E c \in sent'.confirmed :
                  cmd'[c].mission = journal.mission /\ cmd'[c].type = "RTL")
  <2> PICK r, m : r = s /\ m = journal.mission
    OBVIOUS
  <2>1. Reached(r, m)
    BY DEF FlightInv, Told
  <2> QED
    BY <1>2, <2>1, ReachedStays DEF CommandedHome
<1>3. \A s : s \in {journal'.pending, journal'.last} /\ s \in ProgressStatus =>
               s \in {journal.pending, journal.last}
  BY <1>1
<1> QED
  BY <1>2, <1>3 DEF Told, Reached, CommandedHome

LEMMA FollowRecorded ==
  ASSUME FlightInv, [ExecNext]_allVars, Staying \/ Advancing,
         PhaseFollows(journal, journal'), SameTale(journal, journal')
  PROVE  Recorded
<1>1. /\ drone'.plan = drone.plan /\ drone'.flown = drone.flown
      /\ Airborne' => Airborne
  BY DEF Staying, Advancing
<1>2. (OnBoard(journal))'
  BY <1>1 DEF FlightInv, OnBoard, PhaseFollows
<1>3. (Told(journal))'
  BY ToldOnward DEF PhaseFollows, SameTale
<1> QED
  BY <1>2, <1>3 DEF Recorded

LEMMA GroundedRecorded ==
  ASSUME Staying, ~Airborne, journal'.phase \notin Loaded,
         journal'.pending = "NONE", journal'.last = "NONE"
  PROVE  Recorded
<1>1. "NONE" \notin ProgressStatus
  BY DEF ProgressStatus, ProgressStatuses
<1>2. (OnBoard(journal))'
  BY DEF Staying, OnBoard, Loaded, InFlight
<1>3. (Told(journal))'
  BY <1>1 DEF Told, Reached
<1> QED
  BY <1>2, <1>3 DEF Recorded

LEMMA GoneRecorded ==
  ASSUME Staying, ~Airborne, journal' = NoJournal
  PROVE  Recorded
<1> journal'.phase \notin Loaded /\ journal'.pending = "NONE" /\ journal'.last = "NONE"
  BY DEF NoJournal, Loaded, InFlight, Started
<1> QED
  BY GroundedRecorded

LEMMA SilentStays == Silent => Staying
BY DEF Silent, Staying, Airborne

LEMMA InPhaseFollows ==
  ASSUME Kept(journal), journal.mission \in Missions, NEW q \in ActivePhase,
         journal.phase \in InFlight => q \in InFlight,
         q \in Loaded => journal.phase \in Loaded \/ drone.plan = journal.mission,
         q \in Started => journal.phase \in Started
  PROVE  PhaseFollows(journal, InPhase(q)) /\ SameTale(journal, InPhase(q))
<1>1. InPhase(q).mission = journal.mission /\ InPhase(q).phase = q
  BY InPhaseKept
<1>2. InPhase(q).pending = journal.pending /\ InPhase(q).last = journal.last
  BY DEF InPhase, Kept, Journal
<1> QED
  BY <1>1, <1>2 DEF PhaseFollows, SameTale

LEMMA ContinueFollows ==
  ASSUME NEW j, Kept(j), Continue(j)
  PROVE  PhaseFollows(j, journal') /\ SameTale(j, journal')
<1>1. CASE journal' = j
  BY <1>1 DEF PhaseFollows, SameTale
<1>2. CASE j.phase = "UPLOADING" /\ journal' = [j EXCEPT !.phase = "UPLOAD_COMMAND_SENT"]
  <2>1. /\ journal'.mission = j.mission /\ journal'.phase = "UPLOAD_COMMAND_SENT"
        /\ journal'.pending = j.pending /\ journal'.last = j.last
    BY <1>2 DEF Kept, Journal
  <2> QED
    BY <1>2, <2>1 DEF PhaseFollows, SameTale, Loaded, InFlight, Started
<1>3. CASE j.phase = "UPLOADING"
  BY <1>1, <1>2, <1>3 DEF Continue
<1>4. CASE j.phase # "UPLOADING"
  BY <1>1, <1>4 DEF Continue
<1> QED
  BY <1>3, <1>4

LEMMA ExecuteFollows ==
  ASSUME Kept(journal), journal.mission \in Missions, NEW k, NEW w, Execute(k, w)
  PROVE  PhaseFollows(journal, journal') /\ SameTale(journal, journal')
<1>1. CASE journal' = journal
  BY <1>1, SamePhase
<1>2. CASE journal.phase = "WAITING_OPERATOR_ARM" /\ journal' = InPhase("START_COMMAND_SENT")
  BY <1>2, InPhaseFollows DEF ActivePhase, Loaded, InFlight, Started
<1> QED
  BY <1>1, <1>2 DEF Execute, Executable

LEMMA FollowsOn ==
  ASSUME NEW i, NEW j, NEW k, PhaseFollows(i, j), PhaseFollows(j, k),
         SameTale(i, j), SameTale(j, k)
  PROVE  PhaseFollows(i, k) /\ SameTale(i, k)
BY DEF PhaseFollows, SameTale

-------------------------------------------------------------------------------
(* The journal and the vehicle, step by step.                              *)

(* The steps that leave the journal as it is.                              *)
LEMMA QuietRecorded ==
  ASSUME FlightInv, [ExecNext]_allVars, journal' = journal,
         Silent \/ DroneStep \/ ArmVehicle
  PROVE  Recorded
<1>1. Staying \/ Advancing
  <2>1. CASE Silent
    BY <2>1, SilentStays
  <2>2. CASE DroneStep
    BY <2>2, StepAdvances
  <2>3. CASE ArmVehicle
    BY <2>3 DEF FlightInv, BookInv, OnceInv, ExecInv, ArmVehicle, Staying, Airborne, Vehicle
  <2> QED
    BY <2>1, <2>2, <2>3
<1> QED
  BY <1>1, SamePhase, FollowRecorded

LEMMA PollRecorded ==
  ASSUME FlightInv, [ExecNext]_allVars, PollCommands
  PROVE  Recorded
<1>1. Staying /\ Kept(journal)
  BY SilentStays, JournalKept DEF PollCommands, Silent, FlightInv, BookInv, OnceInv
<1>2. CASE journal' = journal
  BY <1>1, <1>2, SamePhase, FollowRecorded
<1>3. CASE Continue(journal)
  BY <1>1, <1>3, ContinueFollows, FollowRecorded
<1>4. ASSUME NEW c \in PendingCommands, cmd[c].mission = journal.mission,
             Execute(cmd[c].type, Fetch(c))
      PROVE  Recorded
  <2> journal.mission \in Missions
    BY <1>4 DEF PendingCommands, OpenCommandStatus, FlightInv, BookInv, OnceInv, ExecInv,
                CommandsOfTheHolder, TypeOK, Command
  <2> QED
    BY <1>1, <1>4, ExecuteFollows, FollowRecorded
<1>5. ASSUME NEW c \in PendingCommands, cmd[c].mission = journal.mission, ProcessOther(c)
      PROVE  Recorded
  BY <1>2, <1>4, <1>5 DEF ProcessOther
<1> QED
  BY <1>2, <1>3, <1>5 DEF PollCommands, Current

LEMMA OfferRecorded ==
  ASSUME FlightInv, [ExecNext]_allVars, ListMissions \/ Claim
  PROVE  Recorded
<1>1. Staying
  BY SilentStays DEF ListMissions, Claim, execVars, Silent
<1>2. CASE journal' = journal
  BY <1>1, <1>2, SamePhase, FollowRecorded
<1>3. CASE ListMissions /\ journal' # journal
  <2>1. pc = "missions" /\ journal' # journal
    BY <1>3 DEF ListMissions
  <2>2. journal.phase = "EMPTY"
    BY <2>1 DEF FlightInv, BookInv, InHand
  <2>3. ~Airborne
    BY <2>2 DEF FlightInv, OnBoard, InFlight, Started
  <2>4. PICK m \in Missions :
          journal' = [NoJournal EXCEPT !.phase = "CLAIM_PENDING", !.mission = m]
    BY <1>3 DEF ListMissions, execVars
  <2>5. /\ journal'.phase \notin Loaded
        /\ journal'.pending = "NONE" /\ journal'.last = "NONE"
    BY <2>4 DEF NoJournal, Loaded, InFlight, Started
  <2> QED
    BY <1>1, <2>3, <2>5, GroundedRecorded
<1>4. CASE Claim
  <2>1. /\ Kept(journal) /\ journal.mission \in Missions /\ journal.phase = "CLAIM_PENDING"
    BY <1>4, JournalKept DEF Claim, FlightInv, BookInv, OnceInv, ExecInv, Fits, Engaged, Due
  <2>2. ~Airborne
    BY <2>1 DEF FlightInv, OnBoard, InFlight, Started
  <2>3. CASE journal' = NoJournal
    BY <1>1, <2>2, <2>3, GoneRecorded
  <2>4. CASE journal' = InPhase("UPLOADING_PENDING_REPORT")
    <3> PhaseFollows(journal, journal') /\ SameTale(journal, journal')
      BY <2>1, <2>4, InPhaseFollows DEF ActivePhase, Loaded, InFlight, Started
    <3> QED
      BY <1>1, FollowRecorded
  <2> QED
    BY <1>2, <1>4, <2>3, <2>4 DEF Claim
<1> QED
  BY <1>2, <1>3, <1>4

LEMMA PhaseReportRecorded ==
  ASSUME FlightInv, [ExecNext]_allVars, PhaseReport
  PROVE  Recorded
<1>1. Staying
  BY SilentStays DEF PhaseReport, Silent
<1>2. CASE journal' = journal
  BY <1>1, <1>2, SamePhase, FollowRecorded
<1>3. CASE Continue(InPhase(PhaseAfterReport))
  <2> DEFINE j == InPhase(PhaseAfterReport)
  <2>1. /\ Kept(journal) /\ journal.mission \in Missions /\ journal.phase \in ReportPhase
    BY JournalKept DEF PhaseReport, FlightInv, BookInv, OnceInv, ExecInv, Fits, Engaged
  <2>2. PhaseAfterReport \in ActivePhase
    BY <2>1 DEF ReportPhase, PhaseAfterReport, ActivePhase
  <2>3. /\ journal.phase \in InFlight => PhaseAfterReport \in InFlight
        /\ PhaseAfterReport \in Loaded => journal.phase \in Loaded
        /\ PhaseAfterReport \in Started => journal.phase \in Started
    BY <2>1 DEF ReportPhase, PhaseAfterReport, Loaded, InFlight, Started
  <2>4. Kept(j) /\ PhaseFollows(journal, j) /\ SameTale(journal, j)
    BY <2>1, <2>2, <2>3, InPhaseKept, InPhaseFollows
  <2>5. PhaseFollows(j, journal') /\ SameTale(j, journal')
    BY <1>3, <2>4, ContinueFollows
  <2> HIDE DEF j
  <2> QED
    BY <1>1, <2>4, <2>5, FollowsOn, FollowRecorded
<1> QED
  BY <1>2, <1>3 DEF PhaseReport

(* The last of the progress is reported when the vehicle has landed.       *)
LEMMA FlushRecorded ==
  ASSUME FlightInv, [ExecNext]_allVars, FlushPendingStatus \/ FailActive
  PROVE  Recorded
<1>1. Staying
  BY SilentStays DEF FlushPendingStatus, FailActive, Silent
<1>0. /\ Kept(journal) /\ journal.mission \in Missions /\ drone \in Vehicle
      /\ FlushPendingStatus => journal.pending \in ProgressStatus
  BY JournalKept
  DEF FlushPendingStatus, FailActive, FlightInv, BookInv, OnceInv, ExecInv, Fits, Engaged, Journal
<1>2. CASE journal' = journal
  BY <1>1, <1>2, SamePhase, FollowRecorded
<1>3. CASE FailActive /\ journal' = NoJournal
  <2> ~Airborne
    BY <1>3 DEF FailActive, FlightInv, BookInv, InHand, OnBoard, InFlight, Started
  <2> QED
    BY <1>1, <1>3, GoneRecorded
<1>4. CASE journal' = Flushed /\ journal.pending = "COMPLETED"
  <2>1. ProgressIndex(journal.pending) <= drone.progress[journal.mission]
    BY <1>0, <1>4 DEF FlightInv, Told, Reached, ProgressStatus, ProgressStatuses
  <2>2. drone.progress[journal.mission] \in 0 .. 4
    BY <1>0 DEF Vehicle
  <2>3. drone.progress[journal.mission] = 4
    BY <1>4, <2>1, <2>2, IndexValues
  <2>4. ~Airborne
    BY <1>0, <2>3 DEF FlightInv, Flown, OnBoard
  <2> QED
    BY <1>1, <1>4, <2>4, GoneRecorded DEF Flushed
<1>5. CASE journal' = Flushed /\ journal.pending # "COMPLETED"
  <2>1. /\ journal'.mission = journal.mission /\ journal'.phase = journal.phase
        /\ journal'.pending = "NONE" /\ journal'.last = journal.pending
    BY <1>0, <1>5 DEF Flushed, Kept, Journal
  <2>2. (Told(journal))'
    BY <2>1, ToldOnward
  <2>3. (OnBoard(journal))'
    BY <1>1, <2>1 DEF FlightInv, OnBoard, Staying
  <2> QED
    BY <2>2, <2>3 DEF Recorded
<1> QED
  BY <1>2, <1>3, <1>4, <1>5 DEF FlushPendingStatus, FailActive

LEMMA TakeRecorded ==
  ASSUME FlightInv, [ExecNext]_allVars, TakeCommand \/ VerifyMission
  PROVE  Recorded
<1>1. /\ Staying /\ Kept(journal) /\ journal.mission \in Missions
      /\ pc = "verify" => journal.phase \in {"UPLOAD_COMMAND_SENT", "VERIFYING"}
  BY SilentStays, JournalKept
  DEF TakeCommand, VerifyMission, Silent, FlightInv, BookInv, OnceInv, ExecInv, Fits, Engaged, Due
<1>2. CASE journal' = journal
  BY <1>1, <1>2, SamePhase, FollowRecorded
<1>3. CASE Execute(cmd[work.cmd].type, work)
  BY <1>1, <1>3, ExecuteFollows, FollowRecorded
<1>4. CASE VerifyMission
  <2>1. ASSUME NEW q \in ActivePhase, journal' = InPhase(q), q \notin InFlight,
               q \in Loaded => drone.plan = journal.mission
        PROVE  Recorded
    <3>1. journal.phase \notin InFlight /\ q \notin Started
      BY <1>1, <1>4, <2>1 DEF VerifyMission, InFlight, Started
    <3> QED
      BY <1>1, <2>1, <3>1, InPhaseFollows, FollowRecorded
  <2>2. {"VERIFIED_PENDING_REPORT", "RECOVERED_UPLOAD_PENDING_REPORT",
         "UPLOAD_RECOVERY_BLOCKED"} \subseteq ActivePhase \ InFlight
        /\ "UPLOAD_RECOVERY_BLOCKED" \notin Loaded
    BY DEF ActivePhase, Loaded, InFlight, Started
  <2>3. CASE /\ drone.plan = journal.mission
             /\ \E q \in {"VERIFIED_PENDING_REPORT", "RECOVERED_UPLOAD_PENDING_REPORT"} :
                  journal' = InPhase(q)
    BY <2>1, <2>2, <2>3
  <2>4. CASE journal' = InPhase("UPLOAD_RECOVERY_BLOCKED")
    BY <2>1, <2>2, <2>4
  <2> QED
    BY <1>2, <1>4, <2>3, <2>4 DEF VerifyMission, Current
<1> QED
  BY <1>2, <1>3, <1>4 DEF TakeCommand

(* What the adapter suggests, the vehicle has reached.                     *)
LEMMA SuggestionRecorded ==
  ASSUME FlightInv, [ExecNext]_allVars, PollMission
  PROVE  Recorded
<1>1. Staying
  BY SilentStays DEF PollMission, Silent
<1>0. /\ Kept(journal) /\ journal.mission \in Missions
      /\ drone.progress[journal.mission] \in 0 .. 4 /\ ProgressIndex(journal.last) \in 0 .. 4
  BY JournalKept, Indices
  DEF PollMission, FlightInv, BookInv, OnceInv, ExecInv, Fits, Engaged, Vehicle, Journal,
      ProgressIndex
<1>2. CASE journal' = journal
  BY <1>1, <1>2, SamePhase, FollowRecorded
<1>3. CASE /\ ProgressIndex(journal.last) < drone.progress[journal.mission]
           /\ journal' = [journal EXCEPT
                            !.pending = ProgressStatuses[ProgressIndex(journal.last) + 1]]
  <2> PICK i \in 0 .. 4 : i = ProgressIndex(journal.last)
    BY <1>0
  <2>1. i + 1 \in 1 .. 4 /\ i + 1 <= drone.progress[journal.mission]
    BY <1>0, <1>3
  <2>2. ProgressIndex(ProgressStatuses[i + 1]) = i + 1
    BY <2>1, IndexOf
  <2>3. /\ journal'.mission = journal.mission /\ journal'.phase = journal.phase
        /\ journal'.pending = ProgressStatuses[i + 1] /\ journal'.last = journal.last
    BY <1>0, <1>3 DEF Kept, Journal
  <2>4. (OnBoard(journal))'
    BY <1>1, <2>3 DEF FlightInv, OnBoard, Staying
  <2>5. drone'.progress = drone.progress
    BY <1>1 DEF Staying
  <2>6. (Reached(journal.pending, journal.mission))'
    BY <2>1, <2>2, <2>3, <2>5 DEF Reached
  <2>7. (Reached(journal.last, journal.mission))'
    <3> PICK s, m : s = journal.last /\ m = journal.mission
      OBVIOUS
    <3>1. Reached(s, m)
      BY DEF FlightInv, Told
    <3>2. (Reached(s, m))'
      <4>1. CASE s \in ProgressStatus /\ m \in Missions
        BY <3>1, <4>1, ReachedStays DEF Reached
      <4> QED
        BY <4>1 DEF Reached
    <3> QED
      BY <2>3, <3>2 DEF Reached
  <2> QED
    BY <2>4, <2>6, <2>7 DEF Recorded, Told
<1> QED
  BY <1>2, <1>3 DEF PollMission, Current

LEMMA UploadRecorded ==
  ASSUME FlightInv, [ExecNext]_allVars, UploadMission
  PROVE  Recorded
<1>1. /\ Kept(journal) /\ journal.mission \in Missions /\ journal.phase = "UPLOAD_COMMAND_SENT"
      /\ ~Airborne'
  <2>1. Kept(journal) /\ journal.mission \in Missions /\ journal.phase = "UPLOAD_COMMAND_SENT"
    BY JournalKept DEF UploadMission, FlightInv, BookInv, OnceInv, ExecInv, Fits, Engaged, Due
  <2>2. ~Airborne
    BY <2>1 DEF FlightInv, OnBoard, InFlight, Started
  <2>3. drone'.mode = drone.mode
    BY DEF UploadMission, FlightInv, BookInv, OnceInv, ExecInv, Vehicle
  <2> QED
    BY <2>1, <2>2, <2>3 DEF Airborne
<1>2. /\ journal'.mission = journal.mission
      /\ journal'.phase \in {"UPLOAD_COMMAND_SENT", "UPLOADED_PENDING_REPORT"}
      /\ journal'.pending = journal.pending /\ journal'.last = journal.last
  <2>1. CASE journal' = journal
    BY <1>1, <2>1
  <2>2. CASE journal' = InPhase("UPLOADED_PENDING_REPORT")
    BY <1>1, <2>2 DEF InPhase, Kept, Journal
  <2> QED
    BY <2>1, <2>2 DEF UploadMission
<1>3. (OnBoard(journal))'
  BY <1>1, <1>2 DEF OnBoard, Loaded, InFlight, Started
<1> QED
  BY <1>2, <1>3, ToldOnward DEF Recorded

LEMMA ActRecorded ==
  ASSUME FlightInv, [ExecNext]_allVars, ActOnVehicle
  PROVE  Recorded
<1>1. CASE Staying /\ journal' = journal
  BY <1>1, SamePhase, FollowRecorded
<1>2. CASE TakingOff
  <2>1. Kept(journal) /\ journal.mission \in Missions
    BY <1>2, JournalKept
    DEF TakingOff, ActOnVehicle, FlightInv, BookInv, OnceInv, ExecInv, Fits, Engaged
  <2>2. /\ journal'.mission = journal.mission
        /\ journal'.phase \in {"START_COMMAND_SENT", "EXECUTING_PENDING_REPORT"}
        /\ journal'.pending = journal.pending /\ journal'.last = journal.last
    <3>1. CASE journal' = journal
      BY <1>2, <3>1 DEF TakingOff
    <3>2. CASE journal' = InPhase("EXECUTING_PENDING_REPORT")
      BY <2>1, <3>2 DEF InPhase, Kept, Journal
    <3> QED
      BY <3>1, <3>2 DEF ActOnVehicle
  <2>3. (OnBoard(journal))'
    BY <1>2, <2>2 DEF TakingOff, OnBoard, InFlight, Started
  <2> QED
    BY <2>2, <2>3, ToldOnward DEF Recorded
<1> QED
  BY <1>1, <1>2, ActMoves

(* A report on a command finds the mission in flight.                      *)
LEMMA ActionRecorded ==
  ASSUME FlightInv, [ExecNext]_allVars, ActionReport
  PROVE  Recorded
<1> DEFINE k == cmd[work.cmd].type
<1>1. Staying
  BY SilentStays DEF ActionReport, Silent
<1>0. /\ BookInv /\ ExecInv /\ ExecInv' /\ BookInv' /\ pc = "actionReport"
      /\ Kept(journal) /\ journal.mission \in Missions /\ work.cmd \in Commands
      /\ ActionStatus \in MissionStatus /\ k \in {"PAUSE", "CONTINUE", "RTL", "ABORT"}
      /\ cmd[work.cmd].mission = journal.mission
  BY ExecStep, BookStep, JournalKept, ReportedStatuses, BookCommand
  DEF FlightInv, BookInv, OnceInv, ActionReport, ExecInv, Fits, Engaged, Due
<1>2. CASE journal' = journal
  BY <1>1, <1>2, SamePhase, FollowRecorded
<1>3. CASE ReportAccepted(ActionStatus, FALSE) /\ journal' = AfterAction
  <2>1. CASE k = "ABORT"
    <3> ~Airborne /\ journal' = NoJournal
      BY <1>0, <1>3, <2>1 DEF FlightInv, Acted, AfterAction
    <3> QED
      BY <1>1, GoneRecorded
  <2>2. journal.phase \in Started \/ k = "ABORT"
    <3>1. mission'[journal.mission].status = ActionStatus
      BY <1>0, <1>3, AcceptedStatus DEF BookInv
    <3>2. CASE k \in {"PAUSE", "RTL"}
      <4>1. ActionStatus \in AirborneStatus /\ ActionStatus \in FlightStatus
        BY <3>2 DEF ActionStatus, AirborneStatus, FlightStatus
      <4>2. Agreed(journal, mission')
        BY <1>0, RowMoves, AgreedRows DEF ExecInv, TypeOK
      <4>3. journal.phase \in PhasesOf(ActionStatus)
        BY <1>0, <3>1, <4>1, <4>2 DEF Agreed
      <4> QED
        BY <4>1, <4>3 DEF PhasesOf, AirborneStatus, Started
    <3>3. CASE k = "CONTINUE"
      BY <1>0, <3>3 DEF BookInv, InHand, Started
    <3> QED
      BY <1>0, <3>2, <3>3
  <2>3. CASE k # "ABORT"
    <3>1. /\ journal'.mission = journal.mission /\ journal'.phase \in {"PAUSED", "EXECUTING"}
          /\ journal'.pending = journal.pending
          /\ journal'.last = IF k = "RTL" THEN "RETURNING" ELSE journal.last
      BY <1>0, <1>3, <2>3 DEF AfterAction, InPhase, Kept, Journal
    <3>2. PhaseFollows(journal, journal')
      BY <2>2, <2>3, <3>1 DEF PhaseFollows, Loaded, InFlight, Started
    <3>3. CASE k # "RTL"
      BY <1>1, <3>1, <3>2, <3>3, FollowRecorded DEF SameTale
    <3>4. CASE k = "RTL"
      <4>1. (OnBoard(journal))'
        BY <1>1, <3>2 DEF FlightInv, OnBoard, PhaseFollows, Staying
      <4>2. work.cmd \in sent.confirmed
        BY <1>0, <3>4 DEF FlightInv, Acted
      <4>3. (CommandedHome(journal.mission))'
        BY <1>0, <3>1, <3>4, <4>2, ConfirmedStays DEF CommandedHome
      <4>4. (Reached(journal.last, journal.mission))'
        BY <3>1, <3>4, <4>3 DEF Reached
      <4>5. (Reached(journal.pending, journal.mission))'
        <5> PICK s, m : s = journal.pending /\ m = journal.mission
          OBVIOUS
        <5>1. Reached(s, m)
          BY DEF FlightInv, Told
        <5>2. (Reached(s, m))'
          <6>1. CASE s \in ProgressStatus /\ m \in Missions
            BY <5>1, <6>1, ReachedStays DEF Reached
          <6> QED
            BY <6>1 DEF Reached
        <5> QED
          BY <3>1, <5>2 DEF Reached
      <4> QED
        BY <4>1, <4>4, <4>5 DEF Recorded, Told
    <3> QED
      BY <3>3, <3>4
  <2> QED
    BY <2>1, <2>3
<1> QED
  BY <1>2, <1>3 DEF ActionReport

LEMMA RecordedStep ==
  ASSUME FlightInv, [ExecNext]_allVars
  PROVE  Recorded
<1>1. CASE \/ RunCycle \/ PublishArmConfirmation \/ FinishCommand \/ Interrupted \/ AnswerLost
           \/ PeopleStep \/ UNCHANGED allVars
  <2> journal' = journal /\ Silent
    BY <1>1 DEF RunCycle, PublishArmConfirmation, FinishCommand, Interrupted, AnswerLost,
                PeopleStep, allVars, execVars, Silent
  <2> QED
    BY QuietRecorded
<1>2. CASE DroneStep \/ ArmVehicle
  <2> journal' = journal
    BY <1>2 DEF DroneStep, ArmVehicle
  <2> QED
    BY <1>2, QuietRecorded
<1> QED
  BY <1>1, <1>2, PollRecorded, OfferRecorded, PhaseReportRecorded, FlushRecorded, TakeRecorded,
     SuggestionRecorded, UploadRecorded, ActRecorded, ActionRecorded
  DEF ExecNext, ExecutorStep

LEMMA ActedStep ==
  ASSUME FlightInv, [ExecNext]_allVars
  PROVE  (Acted(pc, work))'
<1> SUFFICES ASSUME pc' = "actionReport"
             PROVE  /\ cmd'[work'.cmd].type = "ABORT" => ~Airborne'
                    /\ cmd'[work'.cmd].type = "RTL" => work'.cmd \in sent'.confirmed
  BY DEF Acted
<1>0. BookInv /\ ExecInv /\ drone \in Vehicle /\ VehicleMove
  BY VehicleMoves DEF FlightInv, BookInv, OnceInv, ExecInv
<1>1. CASE ActOnVehicle
  <2>1. /\ Effect(cmd[work.cmd].type) /\ Transmitted(TRUE) /\ work' = work /\ cmd' = cmd
        /\ work.cmd \in Commands
    BY <1>0, <1>1 DEF ActOnVehicle, Answer, At, rows, ExecInv, Fits
  <2>2. ASSUME cmd[work.cmd].type = "ABORT" PROVE ~Airborne'
    BY <1>0, <2>1, <2>2 DEF Effect, Airborne, Vehicle
  <2>3. ASSUME cmd[work.cmd].type = "RTL" PROVE work.cmd \in sent'.confirmed
    BY <1>0, <2>1, <2>3, TransmittedCounts DEF FlightChange, BookInv
  <2> QED
    BY <2>1, <2>2, <2>3
<1>2. CASE UNCHANGED <<pc, work>> /\ (Staying \/ Advancing)
  <2>1. pc = "actionReport" /\ work.cmd \in Commands /\ cmd[work.cmd].status # "NONE"
    BY <1>0, <1>2 DEF ExecInv, Fits, CommandAtHand
  <2>2. cmd'[work.cmd].type = cmd[work.cmd].type
    BY <1>0, <2>1, StepOffered, CommandRowsStay DEF ExecInv, allVars
  <2>3. Airborne' => Airborne
    BY <1>2 DEF Staying, Advancing
  <2> QED
    BY <1>0, <1>2, <2>1, <2>2, <2>3, SentStays DEF FlightInv, Acted
<1>3. CASE DroneStep
  BY <1>2, <1>3, StepAdvances DEF DroneStep
<1>4. CASE ListMissions \/ PeopleStep \/ UNCHANGED allVars
  <2> Silent /\ UNCHANGED <<pc, work>>
    BY <1>4 DEF ListMissions, At, Stop, PeopleStep, allVars, execVars, Silent
  <2> QED
    BY <1>2, SilentStays
<1>5. pc' # "actionReport" \/ ActOnVehicle \/ DroneStep \/ ListMissions \/ PeopleStep
      \/ UNCHANGED allVars
  <2>1. ASSUME NEW j, Continue(j) PROVE pc' # "actionReport"
    BY <2>1 DEF Continue, Finish, At, Stop
  <2>2. ASSUME NEW k, NEW w, Execute(k, w) PROVE pc' # "actionReport"
    BY <2>2 DEF Execute
  <2>3. ASSUME PollCommands PROVE pc' # "actionReport"
    BY <2>1, <2>2, <2>3 DEF PollCommands, ProcessArm, ProcessOther, At, Stop
  <2> QED
    BY <2>1, <2>2, <2>3
    DEF ExecNext, ExecutorStep, RunCycle, Claim, PhaseReport, FlushPendingStatus, FailActive,
        UploadMission, VerifyMission, PollMission, TakeCommand, ArmVehicle, ActionReport,
        PublishArmConfirmation, FinishCommand, Interrupted, AnswerLost, At, Stop, Finish, Answer
<1> QED
  BY <1>1, <1>3, <1>4, <1>5

(* Whatever is reported was reached, or the vehicle was sent home.         *)
LEMMA SaidWasReached ==
  ASSUME FlightInv, pc \in ReportCall
  PROVE  Reached(Said, journal.mission)
<1>1. CASE pc = "phaseReport"
  BY <1>1
  DEF FlightInv, BookInv, OnceInv, ExecInv, Fits, ReportPhase, Said, PhaseStatus, Reached,
      ProgressStatus, ProgressStatuses
<1>2. CASE pc \in {"flush", "flushPolled"}
  BY <1>2 DEF Said, FlightInv, Told
<1>3. CASE pc = "failReport"
  BY <1>3 DEF Said, Reached, ProgressStatus, ProgressStatuses
<1>4. CASE pc = "actionReport"
  <2> DEFINE k == cmd[work.cmd].type
  <2>1. /\ k \in {"PAUSE", "CONTINUE", "RTL", "ABORT"}
        /\ cmd[work.cmd].mission = journal.mission
    BY <1>4, BookCommand DEF FlightInv, BookInv, OnceInv, ExecInv, Due
  <2>2. CASE k \in {"PAUSE", "ABORT"}
    BY <1>4, <2>2 DEF Said, ActionStatus, Reached, ProgressStatus, ProgressStatuses
  <2>3. CASE k = "CONTINUE"
    <3>1. Said = IF journal.last = "NONE" THEN "EXECUTING" ELSE journal.last
      BY <1>4, <2>3 DEF Said, ActionStatus
    <3>2. Reached("EXECUTING", journal.mission)
      BY DEF Reached, ProgressStatus, ProgressStatuses
    <3> QED
      BY <3>1, <3>2 DEF FlightInv, Told
  <2>4. CASE k = "RTL"
    <3>1. Said = "RETURNING" /\ work.cmd \in sent.confirmed
      BY <1>4, <2>4 DEF Said, ActionStatus, FlightInv, Acted
    <3> QED
      BY <2>1, <2>4, <3>1 DEF Reached, CommandedHome
  <2> QED
    BY <2>1, <2>2, <2>3, <2>4
<1> QED
  BY <1>1, <1>2, <1>3, <1>4 DEF ReportCall

LEMMA ShownStep ==
  ASSUME FlightInv, [ExecNext]_allVars
  PROVE  Shown'
<1> SUFFICES ASSUME NEW m \in Missions PROVE (Reached(mission[m].status, m))'
  BY DEF Shown
<1>0. ExecInv /\ RowMove
  BY RowMoves DEF FlightInv, BookInv, OnceInv
<1>1. ASSUME NEW s, s = mission'[m].status, Reached(s, m)
      PROVE  (Reached(mission[m].status, m))'
  <2>1. CASE s \in ProgressStatus
    BY <1>1, <2>1, ReachedStays DEF Reached
  <2>2. CASE s \notin ProgressStatus
    BY <1>1, <2>2 DEF Reached
  <2> QED
    BY <2>1, <2>2
<1>2. ASSUME mission'[m].status \notin ProgressStatus
      PROVE  (Reached(mission[m].status, m))'
  BY <1>2 DEF Reached
<1>3. Reached(mission[m].status, m)
  BY DEF FlightInv, Shown
<1>4. ProgressStatus \subseteq ClaimedStatus /\ "UPLOADING" \notin ProgressStatus
  BY DEF ProgressStatus, ProgressStatuses, ClaimedStatus, FlightStatus, AirborneStatus, EndStatus
<1>5. CASE SameMission(m)
  BY <1>1, <1>3, <1>5 DEF SameMission
<1>6. CASE mission'[m].status \notin ClaimedStatus \/ mission'[m].status = "UPLOADING"
  BY <1>2, <1>4, <1>6
<1>7. CASE pc \in ReportCall /\ m = journal.mission /\ mission'[m].status = Said
  <2> PICK s, n : s = Said /\ n = journal.mission
    OBVIOUS
  <2> Reached(s, n)
    BY <1>7, SaidWasReached
  <2> QED
    BY <1>1, <1>7
<1> QED
  BY <1>0, <1>5, <1>6, <1>7, MissionMoves

-------------------------------------------------------------------------------
LEMMA FlightStarts == Init /\ ExecInit => FlightInv
<1> SUFFICES ASSUME Init, ExecInit PROVE FlightInv
  OBVIOUS
<1>1. BookInv /\ OnePermissionPerFlight
  BY BookStarts, PermissionInit
<1>2. /\ journal = NoJournal /\ pc = "heartbeat" /\ sent.confirmed = {}
      /\ drone.mode = "ground" /\ drone.flown = {} /\ \A m \in Missions : drone.progress[m] = 0
      /\ \A m \in Missions : mission[m].status = "NONE"
  BY DEF Init, ExecInit
<1>3. "NONE" \notin ProgressStatus /\ "EMPTY" \notin Loaded
  BY DEF ProgressStatus, ProgressStatuses, Loaded, InFlight, Started
<1>4. Flown /\ OnBoard(journal)
  BY <1>2, <1>3 DEF Flown, OnBoard, Airborne, NoJournal, Loaded, InFlight
<1>5. Told(journal) /\ Shown /\ Acted(pc, work) /\ Confirmed
  BY <1>2, <1>3 DEF Told, Shown, Reached, Acted, Confirmed, NoJournal
<1> QED
  BY <1>1, <1>4, <1>5 DEF FlightInv

LEMMA FlightStep == FlightInv /\ [ExecNext]_allVars => FlightInv'
<1> SUFFICES ASSUME FlightInv, [ExecNext]_allVars PROVE FlightInv'
  OBVIOUS
<1>1. BookInv'
  BY BookStep DEF FlightInv
<1>2. OnePermissionPerFlight'
  BY StepOffered, PermissionStep DEF FlightInv, BookInv, OnceInv, ExecInv, allVars
<1> QED
  BY <1>1, <1>2, FlownStep, RecordedStep, ShownStep, ActedStep, ConfirmedStep
  DEF FlightInv, Recorded

LEMMA FlightInductive == ExecSpec => []FlightInv
<1> QED
  BY FlightStarts, FlightStep, PTL DEF ExecSpec

(* Every status the backend shows of a mission is borne out by what the    *)
(* vehicle has in its memory, has taken off for and has reached, or by an  *)
(* RTL it was sent, for any number of missions and whatever is lost        *)
(* (_continue_executing, _flush_pending_status, _process_command).         *)
THEOREM StatusesAreEvidence == ExecSpec => []StatusIsEvidence
<1>1. ASSUME FlightInv PROVE StatusIsEvidence
  <2> SUFFICES ASSUME NEW m \in Missions, NEW s, s = mission[m].status
               PROVE  /\ s \in {"VERIFIED"} \cup AirborneStatus => drone.plan = m
                      /\ s \in {"COMPLETED"} \cup AirborneStatus => m \in drone.flown
                      /\ s = "DESTINATION_REACHED" => drone.progress[m] >= 1
                      /\ s = "DELIVERY_CONFIRMED" => drone.progress[m] >= 2
                      /\ s = "RETURNING" => drone.progress[m] >= 3 \/ CommandedHome(m)
                      /\ s = "COMPLETED" => drone.progress[m] = 4
    BY DEF StatusIsEvidence
  <2>1. Reached(s, m) /\ drone.progress[m] \in 0 .. 4
    BY <1>1 DEF FlightInv, Shown, BookInv, OnceInv, ExecInv, Vehicle
  <2>2. ASSUME s \in {"VERIFIED"} \cup AirborneStatus
        PROVE  /\ journal.mission = m /\ journal.phase \in Loaded
               /\ s # "VERIFIED" => journal.phase \in Started
    <3>1. s \in FlightStatus
      BY <2>2 DEF FlightStatus, UploadStatus
    <3>2. journal.mission = m /\ journal.phase \in PhasesOf(s)
      BY <1>1, <3>1 DEF FlightInv, BookInv, Agreed
    <3> QED
      BY <2>2, <3>2 DEF PhasesOf, AirborneStatus, Loaded, InFlight, Started
  <2>3. s \in {"VERIFIED"} \cup AirborneStatus => drone.plan = m
    BY <1>1, <2>2 DEF FlightInv, OnBoard
  <2>4. s \in AirborneStatus => m \in drone.flown
    BY <1>1, <2>2 DEF FlightInv, OnBoard, AirborneStatus
  <2>5. s \in ProgressStatus =>
          ProgressIndex(s) <= drone.progress[m] \/ (s = "RETURNING" /\ CommandedHome(m))
    BY <2>1 DEF Reached
  <2>6. {"DESTINATION_REACHED", "DELIVERY_CONFIRMED", "RETURNING", "COMPLETED"}
          \subseteq ProgressStatus
    BY DEF ProgressStatus, ProgressStatuses
  <2>7. s = "COMPLETED" => drone.progress[m] = 4
    BY <2>1, <2>5, <2>6, IndexValues
  <2>8. s = "COMPLETED" => m \in drone.flown
    BY <1>1, <2>7 DEF FlightInv, Flown
  <2> QED
    BY <2>1, <2>3, <2>4, <2>5, <2>6, <2>7, <2>8, IndexValues
<1> QED
  BY <1>1, FlightInductive, PTL

(* The vehicle only flies a mission with a consumed permission, claimed by *)
(* this gateway and started by one START of an administrator, transmitted  *)
(* once, through every failure and restart (claim_mission, _process_command). *)
THEOREM FlightsAreCommanded == ExecSpec => []FlightIsCommanded
<1>1. ASSUME FlightInv PROVE FlightIsCommanded
  <2> SUFFICES ASSUME Airborne
               PROVE  /\ drone.plan \in Missions
                      /\ mission[drone.plan].claimedBy = Self
                      /\ WithStatus(drone.plan, "CONSUMED") # {}
                      /\ \E c \in Commands :
                           /\ cmd[c].mission = drone.plan /\ cmd[c].type = "START"
                           /\ cmd[c].gateway = Self /\ sent.commands[c] = 1
    BY DEF FlightIsCommanded
  <2>0. BookInv /\ OnceInv /\ ExecInv
    BY <1>1 DEF FlightInv, BookInv, OnceInv
  <2>1. drone.plan \in Missions /\ StartsSent(drone.plan) # {}
    BY <1>1, <2>0 DEF FlightInv, Flown, ExecInv, Vehicle
  <2>2. PICK c \in Commands : /\ cmd[c].type = "START" /\ cmd[c].mission = drone.plan
                              /\ sent.commands[c] > 0
    BY <2>1 DEF StartsSent
  <2>3. sent.commands[c] = 1
    BY <2>0, <2>2 DEF OnceInv, TransmittedOnce, ExecInv, Sent
  <2>4. cmd[c].status # "NONE" /\ cmd[c].gateway = Self
    BY <2>0, <2>2 DEF OnceInv, SentIsKnown, BookInv, Own
  <2>5. /\ mission[drone.plan].status \in ClaimedStatus
        /\ mission[drone.plan].claimedBy # NoGateway
    BY <2>0, <2>1, <2>2, <2>4 DEF ExecInv, CommandsOfTheHolder
  <2>6. mission[drone.plan].claimedBy = Self
    BY <2>0, <2>1, <2>5 DEF BookInv, Own
  <2>7. WithStatus(drone.plan, "CONSUMED") # {}
    BY <1>1, <2>1, <2>5 DEF FlightInv, OnePermissionPerFlight
  <2> QED
    BY <2>1, <2>2, <2>3, <2>4, <2>6, <2>7
<1> QED
  BY <1>1, FlightInductive, PTL
==============================================================================
