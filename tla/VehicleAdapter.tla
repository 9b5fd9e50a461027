------------------------------ MODULE VehicleAdapter ------------------------------
(***************************************************************************)
(* The gateway's adapter to a real autopilot                               *)
(* (drone_gateway/app/mavlink/pymavlink_gateway.py): the mission transfer, *)
(* its readback, the ARM transaction and the mission start, on a link that *)
(* loses and delays messages.                                              *)
(*                                                                         *)
(* The executor awaits one operation at a time; an operation is a sequence *)
(* of steps, each of them one message received or one wait that timed out. *)
(* A deadline may pass at any moment, so a step timeout and the deadline   *)
(* of the operation differ only in what follows.  An operation refused by  *)
(* its first checks (local gates, preflight, heartbeat age) changes        *)
(* nothing and is left out.                                                *)
(***************************************************************************)
EXTENDS MavlinkLink

CONSTANTS
  MaxSendAttempts,   \* _ARM_MAX_SEND_ATTEMPTS
  Retries            \* mission_protocol_retries

ASSUME AdapterAssumption == MaxSendAttempts \in Nat \ {0} /\ Retries \in Nat

VARIABLES
  op,         \* the operation in progress
  armed,      \* _armed (None counts as FALSE: it is compared with True only)
  uploaded,   \* _uploaded: acknowledged in this session
  verified,   \* _verified: read back in this session
  mission,    \* the mission the executor has claimed
  due,        \* missions it has still to claim
  stage       \* what the executor has made of the results so far

adapterVars == <<op, armed, uploaded, verified>>
callerVars == <<mission, due, stage>>
vars == <<linkVars, adapterVars, callerVars>>

Idle == [name |-> "idle"]

(* served: sent_sequences; last: last_sequence, -1 for None; seen:         *)
(* armed_heartbeat_seen; newer: a heartbeat came after the first one.      *)
(* since and told are history, for the properties: the vehicle was armed   *)
(* at some moment of the transaction, an armed heartbeat has come in it.   *)
Operation ==
  {Idle}
  \cup [name : {"upload"}, served : SUBSET Nat, last : Int, tries : 0 .. Retries]
  \cup [name : {"verify", "start"}, next : Int, tries : 0 .. Retries]
  \cup [name : {"command"}]
  \cup [name : {"arm"}, step : {"ack", "heartbeat"}, attempt : 0 .. MaxSendAttempts - 1,
        seen : BOOLEAN, newer : BOOLEAN, since : BOOLEAN, told : BOOLEAN]

Stage == {"claimed", "sent", "uploaded", "verified", "armed", "started", "executing"}

TypeOK ==
  /\ LinkTypeOK
  /\ op \in Operation
  /\ armed \in BOOLEAN
  /\ uploaded \subseteq Missions /\ verified \subseteq uploaded
  /\ mission \in Missions /\ due \subseteq Missions
  /\ stage \in Stage

Init ==
  /\ LinkInit
  /\ op = Idle /\ armed = FALSE
  /\ uploaded = {} /\ verified = {}
  /\ mission \in Missions /\ due = Missions \ {mission}
  /\ stage = "claimed"

Plan == PlanOf[mission]

Send(m) == up' \in Sent(up, m)

Received == Head(down)
Receive(name) == op.name = name /\ down # << >> /\ down' = Tail(down)

(* _ingest_message, as far as it concerns these operations.                *)
Ingest(m) == armed' = IF m.type = "HEARTBEAT" THEN m.armed ELSE armed

Return(s) == op' = Idle /\ stage' = s
Fail == op' = Idle /\ UNCHANGED stage

(* What the last heartbeat that has arrived says, or armed if none has.    *)
LastArmed(queue) ==
  \E i \in 0 .. Len(queue) :
    /\ \A j \in i + 1 .. Len(queue) : queue[j].type # "HEARTBEAT"
    /\ IF i = 0 THEN armed ELSE queue[i].type = "HEARTBEAT" /\ queue[i].armed

(* _drain_messages, with which read_health begins every cycle of the       *)
(* executor.  The pause between two cycles is taken to be longer than the  *)
(* delay of what the autopilot sent, so all of it has arrived, and no more *)
(* of it than the fifty messages of a drain.  ARM empties the queue itself *)
(* or does not begin.                                                      *)
DrainMessages == down' = << >> /\ armed' = LastArmed(down)

-------------------------------------------------------------------------------
(* upload_mission. *)

SendCount == Send([type |-> "COUNT", count |-> Len(Plan)])
SendItem(seq) == Send([type |-> "ITEM", seq |-> seq, item |-> ItemAt(Plan, seq)])

(* The executor journals the transfer as sent before it calls.             *)
BeginUpload ==
  /\ op = Idle /\ stage = "claimed" /\ mission \notin uploaded
  /\ op' = [name |-> "upload", served |-> {}, last |-> -1, tries |-> 0]
  /\ stage' = "sent"
  /\ DrainMessages
  /\ SendCount
  /\ UNCHANGED <<pilot, uploaded, verified, mission, due>>

(* Mutant: any accepting acknowledgement completes the transfer.           *)
AnyAckCompletes(served) == TRUE

AckCompletes(served) == served = Numbers(Plan)

(* recv_match discards what is not of the types waited for.                *)
UploadReceive ==
  /\ Receive("upload")
  /\ \/ /\ Received.type \notin {"MISSION_REQUEST", "MISSION_ACK"}
        /\ UNCHANGED <<up, op, uploaded, verified, stage>>
     \/ /\ Received.type = "MISSION_REQUEST"
        /\ \/ /\ Received.seq \in Numbers(Plan)
              /\ op' = [op EXCEPT !.served = @ \cup {Received.seq},
                                  !.last = Received.seq, !.tries = 0]
              /\ SendItem(Received.seq)
              /\ UNCHANGED stage
           \/ Received.seq \notin Numbers(Plan) /\ Fail /\ UNCHANGED up
        /\ UNCHANGED <<uploaded, verified>>
     \/ /\ Received.type = "MISSION_ACK"
        /\ IF Received.accepted /\ AckCompletes(op.served)
           THEN /\ Return("uploaded")
                /\ uploaded' = uploaded \cup {mission}
                /\ verified' = verified \ {mission}
           ELSE Fail /\ UNCHANGED <<uploaded, verified>>
        /\ UNCHANGED up
  /\ UNCHANGED <<pilot, armed, mission, due>>

(* Mutant: one retry too many.                                             *)
TriesLeftAndOne == op.tries <= Retries

TriesLeft == op.tries < Retries

UploadTimeout ==
  /\ op.name = "upload"
  /\ IF TriesLeft
     THEN /\ op' = [op EXCEPT !.tries = @ + 1]
          /\ IF op.last = -1 THEN SendCount ELSE SendItem(op.last)
          /\ UNCHANGED stage
     ELSE Fail /\ UNCHANGED up
  /\ UNCHANGED <<down, pilot, armed, uploaded, verified, mission, due>>

-------------------------------------------------------------------------------
(* verify_mission, and the readback with which start_mission begins.       *)

(* next is the item to be read, -1 while the count is.                     *)
Request(next) ==
  IF next = -1 THEN Send([type |-> "REQUEST_LIST"])
  ELSE Send([type |-> "REQUEST", seq |-> next])

Readback(name) ==
  /\ op' = [name |-> name, next |-> -1, tries |-> 0]
  /\ Request(-1)

(* An uncertain transfer is recovered by a readback in a later cycle, and  *)
(* then verified; a mission read back in this session is not read again.   *)
BeginVerify ==
  /\ op = Idle /\ stage \in {"sent", "uploaded"}
  /\ IF mission \in verified
     THEN Return(IF stage = "sent" THEN "uploaded" ELSE "verified") /\ UNCHANGED up
     ELSE Readback("verify") /\ UNCHANGED stage
  /\ IF stage = "sent" THEN DrainMessages ELSE UNCHANGED <<down, armed>>
  /\ UNCHANGED <<pilot, uploaded, verified, mission, due>>

(* START_COMMAND_SENT is journalled before the call.                       *)
BeginStart ==
  /\ op = Idle /\ stage \in {"verified", "armed"}
  /\ DrainMessages /\ armed'
  /\ stage' = "started"
  /\ Readback("start")
  /\ UNCHANGED <<pilot, uploaded, verified, mission, due>>

(* Mutant: the last item is not read.                                      *)
LastNumberButOne == Len(Plan) - 2

LastNumber == Len(Plan) - 1

(* The types waited for, and the sequence number.                          *)
Answers(m, next) ==
  IF next = -1 THEN m.type = "MISSION_COUNT"
  ELSE m.type = "MISSION_ITEM" /\ m.seq = next

AsExpected(m, next) ==
  IF next = -1 THEN m.count = Len(Plan) ELSE m.item = ItemAt(Plan, next)

(* The readback is complete: start_mission discards what has arrived and   *)
(* sends its command.                                                      *)
CompleteReadback ==
  IF op.name = "verify"
  THEN /\ Return(IF stage = "sent" THEN "uploaded" ELSE "verified")
       /\ uploaded' = uploaded \cup {mission} /\ verified' = verified \cup {mission}
       /\ down' = Tail(down) /\ UNCHANGED up
  ELSE /\ op' = [name |-> "command"]
       /\ down' = << >>
       /\ Send([type |-> "START", mission |-> mission])
       /\ UNCHANGED <<uploaded, verified, stage>>

ReadbackReceive ==
  /\ op.name \in {"verify", "start"} /\ down # << >>
  /\ \/ /\ ~Answers(Received, op.next)
        /\ down' = Tail(down)
        /\ UNCHANGED <<up, op, uploaded, verified, stage>>
     \/ /\ Answers(Received, op.next)
        /\ \/ /\ ~AsExpected(Received, op.next)
              /\ Fail
              /\ down' = Tail(down) /\ UNCHANGED <<up, uploaded, verified>>
           \/ /\ AsExpected(Received, op.next) /\ op.next < LastNumber
              /\ op' = [op EXCEPT !.next = @ + 1, !.tries = 0]
              /\ Request(op.next + 1)
              /\ down' = Tail(down) /\ UNCHANGED <<uploaded, verified, stage>>
           \/ /\ AsExpected(Received, op.next) /\ op.next = LastNumber
              /\ CompleteReadback
  /\ UNCHANGED <<pilot, armed, mission, due>>

(* Mutant: the attempts at one message are not counted.                    *)
OneMoreTryUncounted == UNCHANGED op

OneMoreTry == op' = [op EXCEPT !.tries = @ + 1]

ReadbackTimeout ==
  /\ op.name \in {"verify", "start"}
  /\ IF TriesLeft
     THEN OneMoreTry /\ Request(op.next) /\ UNCHANGED stage
     ELSE Fail /\ UNCHANGED up
  /\ UNCHANGED <<down, pilot, armed, uploaded, verified, mission, due>>

(* _command_and_wait, from its transmission on.                            *)
CommandReceive ==
  /\ Receive("command")
  /\ LET final == /\ Received.type = "COMMAND_ACK" /\ Received.command = "START"
                  /\ Received.result # "IN_PROGRESS"
     IN  \/ ~final /\ UNCHANGED <<op, stage>>
         \/ final /\ Received.result = "ACCEPTED" /\ Return("executing")
         \/ final /\ Received.result # "ACCEPTED" /\ Fail
  /\ UNCHANGED <<up, pilot, armed, uploaded, verified, mission, due>>

-------------------------------------------------------------------------------
(* arm_vehicle. *)

SendArm == Send([type |-> "ARM"])

ArmOp(attempt) ==
  [name |-> "arm", step |-> "ack", attempt |-> attempt, seen |-> FALSE,
   newer |-> FALSE, since |-> pilot.armed, told |-> FALSE]

(* Mutant: what has arrived before is left in the queue.                   *)
QueueLeft == down' = down /\ UNCHANGED armed

(* _prepare_arm_transaction empties the queue once more.                   *)
QueueEmptied == DrainMessages

(* A vehicle found armed is not commanded.                                 *)
BeginArm ==
  /\ op = Idle /\ stage \in {"verified", "armed"}
  /\ QueueEmptied
  /\ IF armed'
     THEN Return("armed") /\ UNCHANGED up
     ELSE op' = ArmOp(0) /\ stage' = "verified" /\ SendArm
  /\ UNCHANGED <<pilot, uploaded, verified, mission, due>>

(* The heartbeats of the transaction, whatever it waits for.               *)
ArmReceiveHeartbeat ==
  /\ Receive("arm") /\ Received.type = "HEARTBEAT"
  /\ Ingest(Received)
  /\ IF op.step = "heartbeat" /\ Received.armed
     THEN Return("armed")
     ELSE /\ op' = [op EXCEPT !.newer = TRUE, !.seen = @ \/ (op.step = "ack" /\ Received.armed),
                              !.told = @ \/ Received.armed]
          /\ UNCHANGED stage
  /\ UNCHANGED <<up, pilot, uploaded, verified, mission, due>>

(* _receive_strict_arm_ack: any final result for ARM, whichever of the     *)
(* transmissions it answers.                                               *)
ArmReceiveAck ==
  /\ Receive("arm") /\ Received.type # "HEARTBEAT"
  /\ LET final == /\ op.step = "ack"
                  /\ Received.type = "COMMAND_ACK" /\ Received.command = "ARM"
                  /\ Received.result # "IN_PROGRESS"
     IN  \/ ~final /\ UNCHANGED <<op, stage>>
         \/ final /\ Received.result # "ACCEPTED" /\ Fail
         \/ /\ final /\ Received.result = "ACCEPTED"
            /\ IF op.newer /\ armed THEN Return("armed")
               ELSE op' = [op EXCEPT !.step = "heartbeat"] /\ UNCHANGED stage
  /\ UNCHANGED <<up, pilot, armed, uploaded, verified, mission, due>>

(* Mutant: the command is repeated whatever the heartbeats say.            *)
MayRepeatBlindly == op.attempt + 1 < MaxSendAttempts

MayRepeat == ~op.seen /\ op.attempt + 1 < MaxSendAttempts

ArmTimeout ==
  /\ op.name = "arm" /\ op.step = "ack"
  /\ IF MayRepeat
     THEN op' = [op EXCEPT !.attempt = @ + 1] /\ SendArm /\ UNCHANGED stage
     ELSE Fail /\ UNCHANGED up
  /\ UNCHANGED <<down, pilot, armed, uploaded, verified, mission, due>>

-------------------------------------------------------------------------------
(* Between the operations. *)

(* read_health and poll_mission in a cycle without an operation.           *)
Drain ==
  /\ op = Idle /\ down # << >>
  /\ DrainMessages
  /\ UNCHANGED <<up, pilot, op, uploaded, verified, callerVars>>

(* connect: nothing of the old connection is received any more, and a      *)
(* heartbeat is awaited.                                                   *)
Reconnect ==
  /\ op = Idle
  /\ down' = << >> /\ armed' = pilot.armed
  /\ UNCHANGED <<up, pilot, op, uploaded, verified, callerVars>>

(* The gateway dies and starts again with its journal and no session.      *)
Restart ==
  /\ down' = << >> /\ armed' = pilot.armed
  /\ op' = Idle /\ uploaded' = {} /\ verified' = {}
  /\ stage' = IF stage = "armed" THEN "verified" ELSE stage
  /\ UNCHANGED <<up, pilot, mission, due>>

(* The mission has ended, or failed before its start.  The next is claimed *)
(* in a later cycle: as with DrainMessages, what was sent for this one has *)
(* arrived by then.  A transfer may still be open in the autopilot, which  *)
(* goes on asking for its items.                                           *)
NextMission ==
  /\ op = Idle /\ stage # "started" /\ ~Flying /\ up = << >>
  /\ \E m \in due : mission' = m /\ due' = due \ {m}
  /\ stage' = "claimed"
  /\ UNCHANGED <<linkVars, adapterVars>>

(* Another ground station stores its own plan, but not while the gateway   *)
(* is talking to the vehicle.                                              *)
ForeignWrite ==
  /\ op = Idle /\ up = << >> /\ ~Flying /\ pilot.awaits = -1
  /\ \E plan \in ForeignPlans : pilot' = [pilot EXCEPT !.stored = plan]
  /\ UNCHANGED <<up, down, adapterVars, callerVars>>

Pilots ==
  /\ PilotStep
  /\ op' = IF op.name = "arm" THEN [op EXCEPT !.since = @ \/ pilot'.armed] ELSE op
  /\ UNCHANGED <<armed, uploaded, verified, callerVars>>

(* The deadline of the whole operation; a readback has none.               *)
Deadline ==
  /\ op.name \in {"upload", "command", "arm"}
  /\ Fail
  /\ UNCHANGED <<linkVars, armed, uploaded, verified, mission, due>>

Timeout == UploadTimeout \/ ReadbackTimeout \/ ArmTimeout \/ Deadline

Begin == BeginUpload \/ BeginVerify \/ BeginArm \/ BeginStart

ReceiveStep ==
  \/ UploadReceive \/ ReadbackReceive \/ CommandReceive
  \/ ArmReceiveHeartbeat \/ ArmReceiveAck

Next ==
  \/ Begin \/ ReceiveStep \/ Timeout
  \/ Drain \/ Reconnect \/ Restart \/ NextMission
  \/ Pilots \/ ForeignWrite

Spec == Init /\ [][Next]_vars

(* Clocks go on. *)
FairSpec == Spec /\ WF_vars(ReadbackTimeout) /\ WF_vars(Deadline)

-------------------------------------------------------------------------------
(* ARM is not transmitted again once a heartbeat of the transaction has    *)
(* shown the vehicle armed, however its acknowledgements are lost or late  *)
(* (_arm_vehicle_sync).                                                    *)
ArmNotRepeated ==
  [][op.name = "arm" /\ op'.name = "arm" /\ op.told => op'.attempt = op.attempt]_vars

(* An arming reported as confirmed has happened in this transaction: late  *)
(* messages of an earlier one, to a vehicle disarmed since, do not count   *)
(* (arm_vehicle).                                                          *)
ConfirmedWasArmed ==
  [][op.name = "arm" /\ stage' = "armed" => op.since]_vars

(* A transfer taken for done, because it was acknowledged or because the   *)
(* readback of an uncertain one agrees, has left the whole mission in the  *)
(* autopilot, although requests and acknowledgements of an earlier one may *)
(* have been among those it received (_upload_sync, _verify_mission_sync). *)
UploadedIsComplete ==
  [][op # Idle /\ stage' = "uploaded" /\ stage # "uploaded" => pilot.stored = Plan]_vars

(* The autopilot flies the plan of the mission it was started for, item by *)
(* item, although another ground station may have replaced it after the    *)
(* mission was verified (start_mission).                                   *)
FliesWhatWasAuthorized == Flying => pilot.stored = PlanOf[pilot.flies]

(* Every operation returns to the executor's loop, on any link             *)
(* (_upload_sync, _verify_mission_sync, _command_and_wait, _arm_vehicle_sync). *)
OperationReturns == op # Idle ~> op = Idle
==============================================================================
