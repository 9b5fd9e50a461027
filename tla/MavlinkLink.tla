------------------------------- MODULE MavlinkLink -------------------------------
(***************************************************************************)
(* The MAVLink connection between the gateway's adapter and the autopilot, *)
(* and the autopilot as drone_gateway/app/mavlink/pymavlink_gateway.py     *)
(* takes it to be: what the adapter sends to it, waits for from it and     *)
(* defends itself against.  The autopilot is no code of the repository.    *)
(*                                                                         *)
(* Each direction is a queue that keeps the order of what it does not      *)
(* lose.  A message may stay under way for as long as it likes, so an      *)
(* answer may come when the adapter no longer waits for it.                *)
(***************************************************************************)
EXTENDS Integers, Sequences

CONSTANTS
  Missions,      \* missions the gateway is given, one after the other
  Items,         \* contents of a mission item
  PlanOf,        \* the items of each mission
  ForeignPlans,  \* what another ground station may store in the autopilot
  NoMission,
  Capacity       \* bound on the messages under way in one direction

ASSUME LinkAssumption ==
  /\ NoMission \notin Missions
  /\ PlanOf \in [Missions -> Seq(Items)]
  /\ \A m \in Missions : Len(PlanOf[m]) > 0
  /\ ForeignPlans \subseteq Seq(Items)
  /\ Capacity \in Nat \ {0}

VARIABLES
  up,       \* under way to the autopilot
  down,     \* under way to the adapter
  pilot     \* the autopilot

linkVars == <<up, down, pilot>>

(* Mission items are numbered from 0.                                      *)
ItemAt(plan, seq) == plan[seq + 1]
Numbers(plan) == 0 .. Len(plan) - 1

(* A START stands for the mission it is meant for, which the wire does not *)
(* carry.                                                                  *)
UpMessage ==
  [type : {"ARM", "REQUEST_LIST"}] \cup [type : {"COUNT"}, count : Nat]
  \cup [type : {"REQUEST"}, seq : Nat]
  \cup [type : {"ITEM"}, seq : Nat, item : Items]
  \cup [type : {"START"}, mission : Missions]

DownMessage ==
  [type : {"HEARTBEAT"}, armed : BOOLEAN]
  \cup [type : {"COMMAND_ACK"}, command : {"ARM", "START"},
        result : {"ACCEPTED", "REJECTED", "IN_PROGRESS"}]
  \cup [type : {"MISSION_REQUEST"}, seq : Nat]
  \cup [type : {"MISSION_ACK"}, accepted : BOOLEAN]
  \cup [type : {"MISSION_COUNT"}, count : Nat]
  \cup [type : {"MISSION_ITEM"}, seq : Nat, item : Items]

(* awaits: the item the autopilot waits for, -1 when it receives nothing;  *)
(* count: how many it was told would come; flies: the mission whose START  *)
(* it obeyed.                                                              *)
Pilot == [armed : BOOLEAN, stored : Seq(Items), awaits : Int, count : Nat,
          flies : Missions \cup {NoMission}]

LinkTypeOK == up \in Seq(UpMessage) /\ down \in Seq(DownMessage) /\ pilot \in Pilot

LinkInit ==
  /\ up = << >> /\ down = << >>
  /\ pilot = [armed |-> FALSE, stored |-> << >>, awaits |-> -1, count |-> 0,
              flies |-> NoMission]

(* What a queue may look like once m was sent: m may be lost, and is when  *)
(* the queue is full.                                                      *)
Sent(queue, m) == {queue} \cup IF Len(queue) < Capacity THEN {Append(queue, m)} ELSE {}

-------------------------------------------------------------------------------
(* The autopilot. *)

Flying == pilot.flies # NoMission

Reply(m) == down' \in Sent(down, m)
Acknowledge(c, r) == Reply([type |-> "COMMAND_ACK", command |-> c, result |-> r])
RequestItem(i) == Reply([type |-> "MISSION_REQUEST", seq |-> i])
EndTransfer(ok) == Reply([type |-> "MISSION_ACK", accepted |-> ok])

Obeys(type) == up # << >> /\ Head(up).type = type /\ up' = Tail(up)

ObeyArm ==
  /\ Obeys("ARM")
  /\ \/ pilot' = [pilot EXCEPT !.armed = TRUE] /\ Acknowledge("ARM", "ACCEPTED")
     \/ ~pilot.armed /\ UNCHANGED pilot /\ Acknowledge("ARM", "REJECTED")

ArmInProgress ==
  /\ up # << >> /\ Head(up).type = "ARM" /\ ~pilot.armed
  /\ Acknowledge("ARM", "IN_PROGRESS")
  /\ UNCHANGED <<up, pilot>>

ObeyStart ==
  /\ Obeys("START")
  /\ \/ /\ pilot.armed /\ ~Flying
        /\ pilot' = [pilot EXCEPT !.flies = Head(up).mission]
        /\ Acknowledge("START", "ACCEPTED")
     \/ UNCHANGED pilot /\ Acknowledge("START", "REJECTED")

(* What is stored stays until an item takes its place.                     *)
ReceiveCount ==
  /\ Obeys("COUNT")
  /\ \/ /\ ~Flying
        /\ pilot' = [pilot EXCEPT
             !.awaits = 0, !.count = Head(up).count,
             !.stored = SubSeq(@, 1, IF Len(@) < Head(up).count THEN Len(@)
                                     ELSE Head(up).count)]
        /\ RequestItem(0)
     \/ UNCHANGED pilot /\ EndTransfer(FALSE)

Store(plan, seq, item) ==
  IF seq < Len(plan) THEN [plan EXCEPT ![seq + 1] = item] ELSE Append(plan, item)

(* An item nobody asked for is ignored or ends the transfer.               *)
ReceiveItem ==
  /\ Obeys("ITEM")
  /\ LET i == Head(up).seq IN
     \/ /\ pilot.awaits = i /\ i + 1 < pilot.count
        /\ pilot' = [pilot EXCEPT !.awaits = i + 1, !.stored = Store(@, i, Head(up).item)]
        /\ RequestItem(i + 1)
     \/ /\ pilot.awaits = i /\ i + 1 = pilot.count
        /\ pilot' = [pilot EXCEPT !.awaits = -1, !.stored = Store(@, i, Head(up).item)]
        /\ EndTransfer(TRUE)
     \/ /\ pilot.awaits # i
        /\ UNCHANGED pilot
        /\ UNCHANGED down \/ EndTransfer(FALSE)

RequestAgain ==
  /\ pilot.awaits >= 0
  /\ RequestItem(pilot.awaits)
  /\ UNCHANGED <<up, pilot>>

GiveUpTransfer ==
  /\ pilot.awaits >= 0
  /\ pilot' = [pilot EXCEPT !.awaits = -1]
  /\ EndTransfer(FALSE)
  /\ UNCHANGED up

AnswerRequestList ==
  /\ Obeys("REQUEST_LIST")
  /\ Reply([type |-> "MISSION_COUNT", count |-> Len(pilot.stored)])
  /\ UNCHANGED pilot

AnswerRequest ==
  /\ Obeys("REQUEST")
  /\ IF Head(up).seq \in Numbers(pilot.stored)
     THEN Reply([type |-> "MISSION_ITEM", seq |-> Head(up).seq,
                 item |-> ItemAt(pilot.stored, Head(up).seq)])
     ELSE EndTransfer(FALSE)
  /\ UNCHANGED pilot

(* A heartbeat that repeats the last message under way adds nothing.       *)
Beat ==
  LET m == [type |-> "HEARTBEAT", armed |-> pilot.armed] IN
  /\ Len(down) < Capacity
  /\ \A i \in DOMAIN down : i = Len(down) => down[i] # m
  /\ down' = Append(down, m)
  /\ UNCHANGED <<up, pilot>>

(* By the radio control of the operator, or by itself on the ground.       *)
ArmedOrDisarmed ==
  /\ ~Flying
  /\ pilot' = [pilot EXCEPT !.armed = ~@]
  /\ UNCHANGED <<up, down>>

Land ==
  /\ Flying
  /\ pilot' = [pilot EXCEPT !.flies = NoMission, !.armed = FALSE]
  /\ UNCHANGED <<up, down>>

PilotStep ==
  \/ ObeyArm \/ ArmInProgress \/ ObeyStart
  \/ ReceiveCount \/ ReceiveItem \/ RequestAgain \/ GiveUpTransfer
  \/ AnswerRequestList \/ AnswerRequest
  \/ Beat \/ ArmedOrDisarmed \/ Land
==============================================================================
