-------------------------- MODULE VehicleAdapterProofs --------------------------
(***************************************************************************)
(* Theorems about the adapter to a real autopilot, for missions of any     *)
(* length, any number of retries and any number of messages under way.     *)
(***************************************************************************)
EXTENDS VehicleAdapter, SequenceTheorems, TLAPS

(* A queue of messages of S stays one, whatever is lost.                   *)
LEMMA SentType ==
  ASSUME NEW S, NEW queue \in Seq(S), NEW m \in S, NEW q \in Sent(queue, m)
  PROVE  q \in Seq(S)
  BY AppendProperties DEF Sent

LEMMA TakenType ==
  ASSUME NEW S, NEW queue \in Seq(S), queue # << >>
  PROVE  Head(queue) \in S /\ Tail(queue) \in Seq(S)
  BY HeadTailProperties

LEMMA MessageFields ==
  /\ \A m \in UpMessage :
       /\ m.type = "COUNT" => m.count \in Nat
       /\ m.type = "REQUEST" => m.seq \in Nat
       /\ m.type = "ITEM" => m.seq \in Nat /\ m.item \in Items
       /\ m.type = "START" => m.mission \in Missions
  /\ \A m \in DownMessage :
       /\ m.type = "HEARTBEAT" => m.armed \in BOOLEAN
       /\ m.type = "MISSION_REQUEST" => m.seq \in Nat
<1>1. \A m \in UpMessage :
       /\ m.type = "COUNT" => m.count \in Nat
       /\ m.type = "REQUEST" => m.seq \in Nat
       /\ m.type = "ITEM" => m.seq \in Nat /\ m.item \in Items
       /\ m.type = "START" => m.mission \in Missions
  BY DEF UpMessage
<1>2. \A m \in DownMessage :
       /\ m.type = "HEARTBEAT" => m.armed \in BOOLEAN
       /\ m.type = "MISSION_REQUEST" => m.seq \in Nat
  BY DEF DownMessage
<1> QED
  BY <1>1, <1>2

LEMMA DownMessages ==
  /\ \A x \in BOOLEAN : [type |-> "HEARTBEAT", armed |-> x] \in DownMessage
  /\ \A x \in {"ARM", "START"} : \A y \in {"ACCEPTED", "REJECTED", "IN_PROGRESS"} :
       [type |-> "COMMAND_ACK", command |-> x, result |-> y] \in DownMessage
  /\ \A x \in Nat : [type |-> "MISSION_REQUEST", seq |-> x] \in DownMessage
  /\ \A x \in BOOLEAN : [type |-> "MISSION_ACK", accepted |-> x] \in DownMessage
  /\ \A x \in Nat : [type |-> "MISSION_COUNT", count |-> x] \in DownMessage
  /\ \A x \in Nat : \A y \in Items :
       [type |-> "MISSION_ITEM", seq |-> x, item |-> y] \in DownMessage
  BY DEF DownMessage

LEMMA PilotEdit ==
  ASSUME LinkTypeOK
  PROVE  /\ \A i \in Int : [pilot EXCEPT !.awaits = i] \in Pilot
         /\ \A i \in Int : \A plan \in Seq(Items) :
              [pilot EXCEPT !.awaits = i, !.stored = plan] \in Pilot
         /\ \A i \in Int : \A n \in Nat : \A plan \in Seq(Items) :
              [pilot EXCEPT !.awaits = i, !.count = n, !.stored = plan] \in Pilot
<1> DEFINE Plans == Seq(Items)
           Record == [armed : BOOLEAN, stored : Plans, awaits : Int, count : Nat,
                      flies : Missions \cup {NoMission}]
<1>1. pilot \in Record /\ Pilot = Record
  BY DEF LinkTypeOK, Pilot
<1> HIDE DEF Plans
<1>2. \A i \in Int : [pilot EXCEPT !.awaits = i] \in Record
  BY <1>1
<1>3. \A i \in Int : \A plan \in Plans :
        [pilot EXCEPT !.awaits = i, !.stored = plan] \in Record
  BY <1>1
<1>4. \A i \in Int : \A n \in Nat : \A plan \in Plans :
        [pilot EXCEPT !.awaits = i, !.count = n, !.stored = plan] \in Record
  BY <1>1
<1> QED
  BY <1>1, <1>2, <1>3, <1>4 DEF Plans

(* The autopilot sends messages and keeps a plan, whatever it receives.    *)
LEMMA PilotType ==
  ASSUME LinkTypeOK, PilotStep
  PROVE  LinkTypeOK'
<1> USE DEF LinkTypeOK
<1>1. \A m \in DownMessage : Reply(m) => down' \in Seq(DownMessage)
  BY SentType DEF Reply
<1>2. /\ \A x \in {"ARM", "START"} : \A y \in {"ACCEPTED", "REJECTED", "IN_PROGRESS"} :
           Acknowledge(x, y) => down' \in Seq(DownMessage)
      /\ \A i \in Nat : RequestItem(i) => down' \in Seq(DownMessage)
  BY <1>1, DownMessages DEF Acknowledge, RequestItem
<1>16. EndTransfer(TRUE) \/ EndTransfer(FALSE) => down' \in Seq(DownMessage)
  BY <1>1, DownMessages DEF EndTransfer
<1>3. \A type : Obeys(type) => /\ up' \in Seq(UpMessage)
                               /\ Head(up) \in UpMessage /\ Head(up).type = type
  BY TakenType DEF Obeys
<1>4. CASE ObeyArm
  BY <1>2, <1>3, <1>4 DEF ObeyArm, Pilot
<1>5. CASE ArmInProgress
  BY <1>2, <1>5 DEF ArmInProgress
<1>6. CASE ObeyStart
  BY <1>2, <1>3, <1>6, MessageFields DEF ObeyStart, Pilot
<1>7. CASE ReceiveCount
  <2>1. Head(up).count \in Nat /\ up' \in Seq(UpMessage)
    BY <1>3, <1>7, MessageFields DEF ReceiveCount
  <2> DEFINE n == IF Len(pilot.stored) < Head(up).count THEN Len(pilot.stored)
                  ELSE Head(up).count
  <2>2. pilot.stored \in Seq(Items)
    BY DEF Pilot
  <2>3. SubSeq(pilot.stored, 1, n) \in Seq(Items)
    BY <2>1, <2>2, LenProperties, SubSeqProperties
  <2> HIDE DEF n
  <2>4. CASE /\ pilot' = [pilot EXCEPT !.awaits = 0, !.count = Head(up).count,
                                       !.stored = SubSeq(@, 1, n)]
             /\ RequestItem(0)
    <3> DEFINE plan == SubSeq(pilot.stored, 1, n)
               counted == Head(up).count
    <3>1. pilot' = [pilot EXCEPT !.awaits = 0, !.count = counted, !.stored = plan]
      BY <2>4
    <3>2. plan \in Seq(Items) /\ counted \in Nat
      BY <2>1, <2>3
    <3> HIDE DEF plan, counted
    <3>4. \A i \in Int : [pilot EXCEPT !.awaits = i, !.count = counted, !.stored = plan] \in Pilot
      BY <3>2, PilotEdit
    <3>5. 0 \in Int
      OBVIOUS
    <3>3. pilot' \in Pilot
      BY <3>1, <3>4, <3>5, Zenon
    <3> QED
      BY <1>2, <1>16, <2>1, <2>4, <3>3
  <2>5. CASE UNCHANGED pilot /\ EndTransfer(FALSE)
    BY <1>2, <1>16, <2>1, <2>5
  <2> QED
    BY <1>7, <2>4, <2>5 DEF ReceiveCount, n
<1>8. CASE ReceiveItem
  <2> DEFINE i == Head(up).seq
             x == Head(up).item
  <2>1. i \in Nat /\ x \in Items /\ up' \in Seq(UpMessage)
    BY <1>3, <1>8, MessageFields DEF ReceiveItem
  <2> HIDE DEF i, x
  <2>2. Store(pilot.stored, i, x) \in Seq(Items)
    <3>1. pilot.stored \in Seq(Items)
      BY DEF Pilot
    <3>2. CASE i < Len(pilot.stored)
      BY <2>1, <3>1, <3>2, LenProperties, ExceptSeq DEF Store
    <3>3. CASE ~(i < Len(pilot.stored))
      BY <2>1, <3>1, <3>3, AppendProperties DEF Store
    <3> QED
      BY <3>2, <3>3
  <2>3. CASE /\ pilot' = [pilot EXCEPT !.awaits = i + 1, !.stored = Store(@, i, x)]
             /\ RequestItem(i + 1)
    <3> DEFINE plan == Store(pilot.stored, i, x)
    <3>1. pilot' = [pilot EXCEPT !.awaits = i + 1, !.stored = plan]
      BY <2>3
    <3>2. plan \in Seq(Items) /\ i + 1 \in Int
      BY <2>1, <2>2
    <3> HIDE DEF plan
    <3>3. pilot' \in Pilot
      BY <3>1, <3>2, PilotEdit
    <3> QED
      BY <1>2, <2>1, <2>3, <3>3
  <2>4. CASE /\ pilot' = [pilot EXCEPT !.awaits = -1, !.stored = Store(@, i, x)]
             /\ EndTransfer(TRUE)
    <3> DEFINE plan == Store(pilot.stored, i, x)
    <3>1. pilot' = [pilot EXCEPT !.awaits = -1, !.stored = plan]
      BY <2>4
    <3>2. plan \in Seq(Items) /\ -1 \in Int
      BY <2>2
    <3> HIDE DEF plan
    <3>3. pilot' \in Pilot
      BY <3>1, <3>2, PilotEdit
    <3> QED
      BY <1>2, <1>16, <2>1, <2>4, <3>3
  <2>5. CASE UNCHANGED pilot /\ (UNCHANGED down \/ EndTransfer(FALSE))
    BY <1>2, <1>16, <2>1, <2>5
  <2> QED
    BY <1>8, <2>3, <2>4, <2>5 DEF ReceiveItem, i, x
<1>9. CASE RequestAgain
  <2>1. pilot.awaits \in Nat
    BY <1>9 DEF RequestAgain, Pilot
  <2> QED
    BY <1>2, <1>9, <2>1 DEF RequestAgain
<1>10. CASE GiveUpTransfer
  <2>1. [pilot EXCEPT !.awaits = -1] \in Pilot
    <3>1. -1 \in Int
      OBVIOUS
    <3> QED
      BY <3>1, PilotEdit
  <2> QED
    BY <1>10, <1>16, <2>1 DEF GiveUpTransfer
<1>11. CASE AnswerRequestList
  <2>1. Len(pilot.stored) \in Nat
    BY LenProperties DEF Pilot
  <2> QED
    BY <1>1, <1>3, <1>11, <2>1, DownMessages DEF AnswerRequestList
<1>12. CASE AnswerRequest
  <2> DEFINE i == Head(up).seq
  <2>1. i \in Nat /\ up' \in Seq(UpMessage)
    BY <1>3, <1>12, MessageFields DEF AnswerRequest
  <2>2. i \in Numbers(pilot.stored) => ItemAt(pilot.stored, i) \in Items
    BY <2>1, ElementOfSeq, LenProperties DEF Pilot, Numbers, ItemAt
  <2> HIDE DEF i
  <2>3. CASE i \in Numbers(pilot.stored)
    BY <1>1, <1>12, <2>1, <2>2, <2>3, DownMessages DEF AnswerRequest, i
  <2>4. CASE i \notin Numbers(pilot.stored)
    BY <1>2, <1>16, <1>12, <2>1, <2>4 DEF AnswerRequest, i
  <2> QED
    BY <2>3, <2>4
<1>13. CASE Beat
  <2>1. pilot.armed \in BOOLEAN
    BY DEF Pilot
  <2> QED
    BY <1>13, <2>1, AppendProperties, DownMessages DEF Beat
<1>14. CASE ArmedOrDisarmed
  BY <1>14 DEF ArmedOrDisarmed, Pilot
<1>15. CASE Land
  BY <1>15 DEF Land, Pilot
<1> QED
  BY <1>4, <1>5, <1>6, <1>7, <1>8, <1>9, <1>10, <1>11, <1>12, <1>13, <1>14, <1>15
     DEF PilotStep

(* Once a heartbeat has shown the vehicle armed, the transaction knows it. *)
Remembered == op.name = "arm" /\ op.step = "ack" /\ op.told => op.seen

(* The executor has not been told of an arming that is under way.          *)
Unconfirmed == op.name = "arm" => stage = "verified"

(* A heartbeat that shows the vehicle armed shows this transaction's: what *)
(* was under way before it has been discarded.                             *)
Witnessed ==
  op.name = "arm" =>
    /\ pilot.armed => op.since
    /\ \A i \in 1 .. Len(down) : down[i].type = "HEARTBEAT" /\ down[i].armed => op.since
    /\ op.newer /\ armed => op.since

(* The items an operation sends or asks for are items of its mission.      *)
InPlan ==
  /\ op.name = "upload" => op.last \in {-1} \cup Numbers(Plan)
  /\ op.name \in {"verify", "start"} => op.next \in {-1} \cup Numbers(Plan)

AdapterInv == TypeOK /\ InPlan /\ Remembered /\ Unconfirmed /\ Witnessed

LEMMA UpMessages ==
  /\ [type |-> "ARM"] \in UpMessage
  /\ [type |-> "REQUEST_LIST"] \in UpMessage
  /\ \A x \in Nat : [type |-> "COUNT", count |-> x] \in UpMessage
  /\ \A x \in Nat : [type |-> "REQUEST", seq |-> x] \in UpMessage
  /\ \A x \in Nat : \A y \in Items : [type |-> "ITEM", seq |-> x, item |-> y] \in UpMessage
  /\ \A x \in Missions : [type |-> "START", mission |-> x] \in UpMessage
  BY DEF UpMessage

(* What the adapter may send, each of it a message.                        *)
LEMMA SendType ==
  ASSUME LinkTypeOK, mission \in Missions
  PROVE  /\ \A m \in UpMessage : Send(m) => up' \in Seq(UpMessage)
         /\ SendCount \/ SendArm => up' \in Seq(UpMessage)
         /\ \A i \in Numbers(Plan) : SendItem(i) => up' \in Seq(UpMessage)
         /\ \A i \in Nat \cup {-1} : Request(i) => up' \in Seq(UpMessage)
<1>1. \A m \in UpMessage : Send(m) => up' \in Seq(UpMessage)
  BY SentType DEF Send, LinkTypeOK
<1>2. Plan \in Seq(Items) /\ Len(Plan) \in Nat
  BY LinkAssumption, LenProperties DEF Plan
<1>3. SendCount \/ SendArm => up' \in Seq(UpMessage)
  BY <1>1, <1>2, UpMessages DEF SendCount, SendArm
<1>4. \A i \in Numbers(Plan) : SendItem(i) => up' \in Seq(UpMessage)
  <2> SUFFICES ASSUME NEW i \in Numbers(Plan), SendItem(i) PROVE up' \in Seq(UpMessage)
    OBVIOUS
  <2>1. i \in Nat /\ ItemAt(Plan, i) \in Items
    BY <1>2, ElementOfSeq DEF Numbers, ItemAt
  <2> QED
    BY <1>1, <2>1, UpMessages DEF SendItem
<1>5. \A i \in Nat \cup {-1} : Request(i) => up' \in Seq(UpMessage)
  <2> SUFFICES ASSUME NEW i \in Nat \cup {-1}, Request(i) PROVE up' \in Seq(UpMessage)
    OBVIOUS
  <2>1. CASE i = -1
    BY <1>1, <2>1, UpMessages DEF Request
  <2>2. CASE i # -1
    BY <1>1, <2>2, UpMessages DEF Request
  <2> QED
    BY <2>1, <2>2
<1> QED
  BY <1>1, <1>3, <1>4, <1>5

(* The fields of an operation, and what may become of them.                *)
UploadOp == [name : {"upload"}, served : SUBSET Nat, last : Int, tries : 0 .. Retries]
ReadbackOp == [name : {"verify", "start"}, next : Int, tries : 0 .. Retries]
ArmOps == [name : {"arm"}, step : {"ack", "heartbeat"}, attempt : 0 .. MaxSendAttempts - 1,
           seen : BOOLEAN, newer : BOOLEAN, since : BOOLEAN, told : BOOLEAN]

LEMMA OperationFields ==
  /\ Operation = {Idle} \cup [name : {"command"}] \cup UploadOp \cup ReadbackOp \cup ArmOps
  /\ op \in Operation =>
       /\ op.name = "upload" => op \in UploadOp
       /\ op.name \in {"verify", "start"} => op \in ReadbackOp
       /\ op.name = "arm" => op \in ArmOps
       /\ op = Idle => op.name = "idle"
<1>1. Operation = {Idle} \cup [name : {"command"}] \cup UploadOp \cup ReadbackOp \cup ArmOps
  BY DEF Operation, UploadOp, ReadbackOp, ArmOps
<1>2. Idle.name = "idle"
  BY DEF Idle
<1>3. \A o \in UploadOp : o.name = "upload"
  BY DEF UploadOp
<1>4. \A o \in ReadbackOp : o.name \in {"verify", "start"}
  BY DEF ReadbackOp
<1>5. \A o \in ArmOps : o.name = "arm"
  BY DEF ArmOps
<1> QED
  BY <1>1, <1>2, <1>3, <1>4, <1>5

LEMMA OperationMade ==
  /\ \A S \in SUBSET Nat : \A i \in Int : \A n \in 0 .. Retries :
       [name |-> "upload", served |-> S, last |-> i, tries |-> n] \in UploadOp
  /\ \A name \in {"verify", "start"} : \A i \in Int : \A n \in 0 .. Retries :
       [name |-> name, next |-> i, tries |-> n] \in ReadbackOp
  BY DEF UploadOp, ReadbackOp

LEMMA OperationEdit ==
  /\ \A o \in UploadOp : \A S \in SUBSET Nat : \A i \in Int : \A n \in 0 .. Retries :
       [o EXCEPT !.served = S, !.last = i, !.tries = n] \in UploadOp
  /\ \A o \in UploadOp : \A n \in 0 .. Retries : [o EXCEPT !.tries = n] \in UploadOp
  /\ \A o \in ReadbackOp : \A i \in Int : \A n \in 0 .. Retries :
       [o EXCEPT !.next = i, !.tries = n] \in ReadbackOp
  /\ \A o \in ReadbackOp : \A n \in 0 .. Retries : [o EXCEPT !.tries = n] \in ReadbackOp
<1>1. \A o \in UploadOp : \A S \in SUBSET Nat : \A i \in Int : \A n \in 0 .. Retries :
        [o EXCEPT !.served = S, !.last = i, !.tries = n] \in UploadOp
  BY DEF UploadOp
<1>2. \A o \in UploadOp : \A n \in 0 .. Retries : [o EXCEPT !.tries = n] \in UploadOp
  BY DEF UploadOp
<1>3. \A o \in ReadbackOp : \A i \in Int : \A n \in 0 .. Retries :
        [o EXCEPT !.next = i, !.tries = n] \in ReadbackOp
  BY DEF ReadbackOp
<1>4. \A o \in ReadbackOp : \A n \in 0 .. Retries : [o EXCEPT !.tries = n] \in ReadbackOp
  BY DEF ReadbackOp
<1> QED
  BY <1>1, <1>2, <1>3, <1>4

LEMMA ArmEdit ==
  \A o \in ArmOps :
    /\ \A n \in 0 .. MaxSendAttempts - 1 : [o EXCEPT !.attempt = n] \in ArmOps
    /\ [o EXCEPT !.step = "heartbeat"] \in ArmOps
    /\ \A x \in BOOLEAN : [o EXCEPT !.since = x] \in ArmOps
    /\ \A x, y \in BOOLEAN : [o EXCEPT !.newer = TRUE, !.seen = x, !.told = y] \in ArmOps
<1> SUFFICES ASSUME NEW o \in ArmOps
             PROVE  /\ \A n \in 0 .. MaxSendAttempts - 1 : [o EXCEPT !.attempt = n] \in ArmOps
                    /\ [o EXCEPT !.step = "heartbeat"] \in ArmOps
                    /\ \A x \in BOOLEAN : [o EXCEPT !.since = x] \in ArmOps
                    /\ \A x, y \in BOOLEAN :
                         [o EXCEPT !.newer = TRUE, !.seen = x, !.told = y] \in ArmOps
  OBVIOUS
<1>1. \A n \in 0 .. MaxSendAttempts - 1 : [o EXCEPT !.attempt = n] \in ArmOps
  BY DEF ArmOps
<1>2. [o EXCEPT !.step = "heartbeat"] \in ArmOps
  BY DEF ArmOps
<1>3. \A x \in BOOLEAN : [o EXCEPT !.since = x] \in ArmOps
  BY DEF ArmOps
<1>4. \A x, y \in BOOLEAN : [o EXCEPT !.newer = TRUE, !.seen = x, !.told = y] \in ArmOps
  BY DEF ArmOps
<1> QED
  BY <1>1, <1>2, <1>3, <1>4

LEMMA InitAdapter == Init => AdapterInv
<1> SUFFICES ASSUME Init PROVE AdapterInv
  OBVIOUS
<1>1. LinkTypeOK
  <2>1. << >> \in Seq(UpMessage) /\ << >> \in Seq(DownMessage) /\ << >> \in Seq(Items)
    BY EmptySeq
  <2>2. pilot \in Pilot
    BY <2>1 DEF Init, LinkInit, Pilot
  <2> QED
    BY <2>1, <2>2 DEF Init, LinkInit, LinkTypeOK
<1>2. op \in Operation /\ op.name # "arm"
  BY OperationFields DEF Init, Idle
<1> QED
  BY <1>1, <1>2 DEF Init, AdapterInv, TypeOK, Stage, Remembered, Unconfirmed, Witnessed, InPlan, Idle

(* Emptying the queue.                                                     *)
LEMMA DrainType ==
  ASSUME DrainMessages
  PROVE  down' \in Seq(DownMessage) /\ armed' \in BOOLEAN
<1>1. LastArmed(down) \in BOOLEAN
  BY DEF LastArmed
<1> QED
  BY <1>1, EmptySeq DEF DrainMessages

(* Outside an ARM, only the types are to be kept.                          *)
LEMMA NotArming ==
  ASSUME TypeOK, LinkTypeOK', op' \in Operation, op'.name # "arm", InPlan', armed' \in BOOLEAN,
         uploaded' \subseteq Missions, verified' \subseteq uploaded',
         mission' = mission, due' = due, stage' \in Stage
  PROVE  AdapterInv'
  BY DEF TypeOK, AdapterInv, Remembered, Unconfirmed, Witnessed

LEMMA IdleType ==
  ASSUME op' = Idle
  PROVE  op' \in Operation /\ op'.name # "arm" /\ InPlan'
<1>1. op'.name = "idle"
  BY DEF Idle
<1> QED
  BY <1>1, OperationFields DEF InPlan

LEMMA UploadKeeps ==
  ASSUME AdapterInv, BeginUpload \/ UploadReceive \/ UploadTimeout
  PROVE  AdapterInv'
<1> USE DEF AdapterInv, TypeOK
<1>1. LinkTypeOK /\ mission \in Missions
  OBVIOUS
<1>2. CASE BeginUpload
  <2>1. op' \in UploadOp
    <3>1. {} \in SUBSET Nat /\ -1 \in Int /\ 0 \in 0 .. Retries
      BY AdapterAssumption
    <3> QED
      BY <1>2, <3>1, OperationMade, Zenon DEF BeginUpload
  <2>2. op' \in Operation /\ op'.name = "upload" /\ op'.last = -1
    BY <1>2, <2>1, OperationFields DEF BeginUpload
  <2>4. op'.name # "arm" /\ InPlan'
    BY <2>2 DEF InPlan
  <2>3. LinkTypeOK' /\ armed' \in BOOLEAN
    BY <1>1, <1>2, SendType, DrainType DEF BeginUpload, LinkTypeOK
  <2> QED
    BY <1>2, <2>2, <2>3, <2>4, NotArming DEF BeginUpload, Stage
<1>3. CASE UploadReceive
  <2>1. down' \in Seq(DownMessage) /\ Received \in DownMessage /\ op \in UploadOp
    BY <1>1, <1>3, TakenType, OperationFields
       DEF UploadReceive, Receive, Received, LinkTypeOK
  <2>2. UNCHANGED <<pilot, armed, mission, due>>
    BY <1>3 DEF UploadReceive
  <2>3. CASE UNCHANGED <<up, op, uploaded, verified, stage>>
    <3>1. op'.name # "arm" /\ InPlan'
      BY <2>1, <2>2, <2>3 DEF UploadOp, InPlan, Plan
    <3> QED
      BY <2>1, <2>2, <2>3, <3>1, NotArming DEF LinkTypeOK
  <2>4. CASE /\ Received.seq \in Numbers(Plan)
             /\ op' = [op EXCEPT !.served = @ \cup {Received.seq},
                                 !.last = Received.seq, !.tries = 0]
             /\ SendItem(Received.seq)
             /\ UNCHANGED <<uploaded, verified, stage>>
    <3> DEFINE i == Received.seq
    <3>1. i \in Int /\ op.served \cup {i} \in SUBSET Nat /\ 0 \in 0 .. Retries
      BY <2>1, <2>4, AdapterAssumption DEF Numbers, UploadOp
    <3>2. up' \in Seq(UpMessage)
      BY <1>1, <2>4, SendType
    <3>3. op' = [op EXCEPT !.served = op.served \cup {i}, !.last = i, !.tries = 0]
      BY <2>4
    <3> HIDE DEF i
    <3>4. op' \in UploadOp
      BY <2>1, <3>1, <3>3, OperationEdit, Zenon
    <3>6. op'.name = "upload" /\ op'.last = i
      BY <2>1, <3>3 DEF UploadOp
    <3>7. i \in Numbers(Plan)'
      BY <2>2, <2>4 DEF Plan, i
    <3>5. op' \in Operation /\ op'.name # "arm" /\ InPlan'
      BY <3>4, <3>6, <3>7, OperationFields DEF InPlan
    <3> QED
      BY <2>1, <2>2, <2>4, <3>2, <3>5, NotArming DEF LinkTypeOK
  <2>5. CASE Fail /\ UNCHANGED <<up, uploaded, verified>>
    BY <2>1, <2>2, <2>5, IdleType, NotArming DEF Fail, LinkTypeOK
  <2>6. CASE /\ Return("uploaded") /\ UNCHANGED up
             /\ uploaded' = uploaded \cup {mission} /\ verified' = verified \ {mission}
    BY <1>1, <2>1, <2>2, <2>6, IdleType, NotArming DEF Return, LinkTypeOK, Stage
  <2> QED
    BY <1>3, <2>3, <2>4, <2>5, <2>6 DEF UploadReceive
<1>4. CASE UploadTimeout
  <2>1. op \in UploadOp
    BY <1>4, OperationFields DEF UploadTimeout
  <2>2. UNCHANGED <<down, pilot, armed, uploaded, verified, mission, due>>
    BY <1>4 DEF UploadTimeout
  <2>3. CASE TriesLeft
    <3>1. op' = [op EXCEPT !.tries = op.tries + 1] /\ stage' = stage
      BY <1>4, <2>3 DEF UploadTimeout
    <3>2. op.tries + 1 \in 0 .. Retries
      BY <2>1, <2>3, AdapterAssumption DEF TriesLeft, UploadOp
    <3>3. op' \in UploadOp
      BY <2>1, <3>1, <3>2, OperationEdit, Zenon
    <3>4. op'.name = "upload" /\ op'.last = op.last /\ op.name = "upload"
      BY <2>1, <3>1 DEF UploadOp
    <3>5. op.last \in {-1} \cup Numbers(Plan)
      BY <3>4 DEF InPlan
    <3>6. op' \in Operation /\ op'.name # "arm" /\ InPlan'
      BY <2>2, <3>3, <3>4, <3>5, OperationFields DEF InPlan, Plan
    <3>7. up' \in Seq(UpMessage)
      BY <1>1, <1>4, <2>3, <3>5, SendType DEF UploadTimeout
    <3> QED
      BY <2>2, <3>1, <3>6, <3>7, NotArming DEF LinkTypeOK
  <2>4. CASE ~TriesLeft
    BY <1>4, <2>2, <2>4, IdleType, NotArming DEF UploadTimeout, Fail, LinkTypeOK
  <2> QED
    BY <2>3, <2>4
<1> QED
  BY <1>2, <1>3, <1>4

LEMMA ReadbackKeeps ==
  ASSUME AdapterInv,
         BeginVerify \/ BeginStart \/ ReadbackReceive \/ ReadbackTimeout \/ CommandReceive
  PROVE  AdapterInv'
<1> USE DEF AdapterInv, TypeOK
<1>1. LinkTypeOK /\ mission \in Missions
  OBVIOUS
<1>2. ASSUME NEW name \in {"verify", "start"}, Readback(name)
      PROVE  /\ op' \in Operation /\ op'.name # "arm"
             /\ mission' = mission => InPlan'
             /\ up' \in Seq(UpMessage)
  <2>1. -1 \in Int /\ 0 \in 0 .. Retries
    BY AdapterAssumption
  <2>2. op' \in ReadbackOp
    BY <1>2, <2>1, OperationMade, Zenon DEF Readback
  <2>3. op'.next = -1 /\ op'.name = name
    BY <1>2 DEF Readback
  <2>4. up' \in Seq(UpMessage)
    BY <1>1, <1>2, SendType DEF Readback
  <2> QED
    BY <2>2, <2>3, <2>4, OperationFields DEF InPlan
<1>3. CASE BeginVerify
  <2>1. down' \in Seq(DownMessage) /\ armed' \in BOOLEAN
    BY <1>1, <1>3, DrainType DEF BeginVerify, LinkTypeOK
  <2>2. UNCHANGED <<pilot, uploaded, verified, mission, due>>
    BY <1>3 DEF BeginVerify
  <2>3. CASE op' = Idle /\ stage' \in {"uploaded", "verified"} /\ UNCHANGED up
    BY <1>1, <2>1, <2>2, <2>3, IdleType, NotArming DEF LinkTypeOK, Stage
  <2>4. CASE Readback("verify") /\ UNCHANGED stage
    BY <1>1, <1>2, <2>1, <2>2, <2>4, NotArming DEF LinkTypeOK
  <2> QED
    BY <1>3, <2>3, <2>4 DEF BeginVerify, Return
<1>4. CASE BeginStart
  <2>1. down' \in Seq(DownMessage) /\ armed' \in BOOLEAN
    BY <1>4, DrainType DEF BeginStart
  <2> QED
    BY <1>1, <1>2, <1>4, <2>1, NotArming DEF BeginStart, LinkTypeOK, Stage
<1>5. CASE ReadbackReceive
  <2>1. Tail(down) \in Seq(DownMessage) /\ Received \in DownMessage /\ op \in ReadbackOp
    BY <1>1, <1>5, TakenType, OperationFields
       DEF ReadbackReceive, Received, LinkTypeOK
  <2>2. UNCHANGED <<pilot, armed, mission, due>>
    BY <1>5 DEF ReadbackReceive
  <2>3. op.next \in {-1} \cup Numbers(Plan) /\ Plan' = Plan
    BY <2>1, <2>2 DEF InPlan, ReadbackOp, Plan
  <2>4. CASE down' = Tail(down) /\ UNCHANGED <<up, op, uploaded, verified, stage>>
    <3>1. op'.name # "arm" /\ InPlan'
      BY <2>1, <2>3, <2>4 DEF ReadbackOp, InPlan
    <3> QED
      BY <1>1, <2>1, <2>2, <2>4, <3>1, NotArming DEF LinkTypeOK
  <2>5. CASE Fail /\ down' = Tail(down) /\ UNCHANGED <<up, uploaded, verified>>
    BY <1>1, <2>1, <2>2, <2>5, IdleType, NotArming DEF LinkTypeOK, Fail
  <2>6. CASE /\ op.next < LastNumber
             /\ op' = [op EXCEPT !.next = @ + 1, !.tries = 0]
             /\ Request(op.next + 1)
             /\ down' = Tail(down) /\ UNCHANGED <<uploaded, verified, stage>>
    <3>1. Len(Plan) \in Nat
      BY <1>1, LinkAssumption, LenProperties DEF Plan
    <3>2. /\ op.next + 1 \in Int /\ op.next + 1 \in Numbers(Plan)
          /\ op.next + 1 \in Nat \cup {-1} /\ 0 \in 0 .. Retries
      BY <2>3, <2>6, <3>1, AdapterAssumption DEF LastNumber, Numbers
    <3>3. op' = [op EXCEPT !.next = op.next + 1, !.tries = 0]
      BY <2>6
    <3>4. op' \in ReadbackOp
      BY <2>1, <3>2, <3>3, OperationEdit, Zenon
    <3>5. op'.next = op.next + 1
      BY <2>1, <3>3 DEF ReadbackOp
    <3>6. op' \in Operation /\ op'.name # "arm" /\ InPlan'
      BY <2>3, <3>2, <3>4, <3>5, OperationFields DEF ReadbackOp, InPlan
    <3>7. up' \in Seq(UpMessage)
      BY <1>1, <2>6, <3>2, SendType
    <3> QED
      BY <1>1, <2>1, <2>2, <2>6, <3>6, <3>7, NotArming DEF LinkTypeOK
  <2>7. CASE CompleteReadback
    <3>1. CASE op.name = "verify"
      BY <1>1, <2>1, <2>2, <2>7, <3>1, IdleType, NotArming
         DEF CompleteReadback, Return, LinkTypeOK, Stage
    <3>2. CASE op.name # "verify"
      <4>1. op' \in Operation /\ op'.name # "arm" /\ InPlan'
        BY <2>7, <3>2, OperationFields DEF CompleteReadback, InPlan
      <4>2. up' \in Seq(UpMessage)
        BY <1>1, <2>7, <3>2, SendType, UpMessages DEF CompleteReadback
      <4>3. down' \in Seq(DownMessage)
        BY <2>7, <3>2, EmptySeq DEF CompleteReadback
      <4> QED
        BY <1>1, <2>2, <2>7, <3>2, <4>1, <4>2, <4>3, NotArming
           DEF CompleteReadback, LinkTypeOK
    <3> QED
      BY <3>1, <3>2
  <2> QED
    BY <1>5, <2>4, <2>5, <2>6, <2>7 DEF ReadbackReceive
<1>6. CASE ReadbackTimeout
  <2>1. op \in ReadbackOp
    BY <1>6, OperationFields DEF ReadbackTimeout
  <2>2. UNCHANGED <<down, pilot, armed, uploaded, verified, mission, due>>
    BY <1>6 DEF ReadbackTimeout
  <2>3. op.next \in {-1} \cup Numbers(Plan) /\ Plan' = Plan
    BY <2>1, <2>2 DEF InPlan, ReadbackOp, Plan
  <2>4. CASE TriesLeft
    <3>1. op' = [op EXCEPT !.tries = op.tries + 1] /\ stage' = stage /\ Request(op.next)
      BY <1>6, <2>4 DEF ReadbackTimeout, OneMoreTry
    <3>2. op.tries + 1 \in 0 .. Retries
      BY <2>1, <2>4, AdapterAssumption DEF TriesLeft, ReadbackOp
    <3>3. op' \in ReadbackOp
      BY <2>1, <3>1, <3>2, OperationEdit, Zenon
    <3>4. op'.next = op.next
      BY <2>1, <3>1 DEF ReadbackOp
    <3>5. op' \in Operation /\ op'.name # "arm" /\ InPlan'
      BY <2>3, <3>3, <3>4, OperationFields DEF ReadbackOp, InPlan
    <3>6. up' \in Seq(UpMessage)
      BY <1>1, <2>3, <3>1, SendType DEF Numbers
    <3> QED
      BY <1>1, <2>2, <3>1, <3>5, <3>6, NotArming DEF LinkTypeOK
  <2>5. CASE ~TriesLeft
    BY <1>1, <1>6, <2>2, <2>5, IdleType, NotArming
       DEF ReadbackTimeout, Fail, LinkTypeOK
  <2> QED
    BY <2>4, <2>5
<1>7. CASE CommandReceive
  <2>1. down' \in Seq(DownMessage)
    BY <1>1, <1>7, TakenType DEF CommandReceive, Receive, LinkTypeOK
  <2>2. UNCHANGED <<up, pilot, armed, uploaded, verified, mission, due>>
    BY <1>7 DEF CommandReceive
  <2>3. CASE UNCHANGED <<op, stage>>
    <3>1. op'.name = "command"
      BY <1>7, <2>3 DEF CommandReceive, Receive
    <3> QED
      BY <1>1, <2>1, <2>2, <2>3, <3>1, NotArming DEF LinkTypeOK, InPlan
  <2>4. CASE op' = Idle /\ stage' \in {"executing", stage}
    BY <1>1, <2>1, <2>2, <2>4, IdleType, NotArming DEF LinkTypeOK, Stage
  <2> QED
    BY <1>7, <2>3, <2>4 DEF CommandReceive, Return, Fail
<1> QED
  BY <1>3, <1>4, <1>5, <1>6, <1>7

LEMMA BetweenKeeps ==
  ASSUME AdapterInv,
         Drain \/ Reconnect \/ Restart \/ NextMission \/ ForeignWrite \/ Deadline
  PROVE  AdapterInv'
<1> USE DEF AdapterInv, TypeOK
<1>1. LinkTypeOK
  OBVIOUS
<1>3. CASE Drain
  <2>1. down' \in Seq(DownMessage) /\ armed' \in BOOLEAN
    BY <1>3, DrainType DEF Drain
  <2> QED
    BY <1>1, <1>3, <2>1, IdleType, NotArming DEF Drain, LinkTypeOK, callerVars
<1>4. CASE Reconnect
  <2>1. down' \in Seq(DownMessage) /\ armed' \in BOOLEAN
    BY <1>1, <1>4, EmptySeq DEF Reconnect, LinkTypeOK, Pilot
  <2> QED
    BY <1>1, <1>4, <2>1, IdleType, NotArming DEF Reconnect, LinkTypeOK, callerVars
<1>5. CASE Restart
  <2>1. down' \in Seq(DownMessage) /\ armed' \in BOOLEAN
    BY <1>1, <1>5, EmptySeq DEF Restart, LinkTypeOK, Pilot
  <2> QED
    BY <1>1, <1>5, <2>1, IdleType, NotArming DEF Restart, LinkTypeOK, Stage
<1>6. CASE NextMission
  <2>1. op'.name # "arm" /\ InPlan'
    BY <1>6 DEF NextMission, adapterVars, Idle, InPlan
  <2> QED
    BY <1>1, <1>6, <2>1
       DEF NextMission, linkVars, adapterVars, LinkTypeOK, Stage, Remembered, Unconfirmed, Witnessed
<1>7. CASE ForeignWrite
  <2>1. pilot' \in Pilot
    <3>1. \A plan \in Seq(Items) : [pilot EXCEPT !.stored = plan] \in Pilot
      BY <1>1 DEF LinkTypeOK, Pilot
    <3> QED
      BY <1>7, <3>1, LinkAssumption DEF ForeignWrite
  <2> QED
    BY <1>1, <1>7, <2>1, IdleType, NotArming
       DEF ForeignWrite, LinkTypeOK, adapterVars, callerVars
<1>8. CASE Deadline
  BY <1>1, <1>8, IdleType, NotArming DEF Deadline, Fail, linkVars, LinkTypeOK
<1> QED
  BY <1>3, <1>4, <1>5, <1>6, <1>7, <1>8

(* The heartbeats under way that show the vehicle armed.                   *)
ArmedBeats(queue) ==
  {i \in 1 .. Len(queue) : queue[i].type = "HEARTBEAT" /\ queue[i].armed}

LEMMA BeatsTaken ==
  ASSUME NEW queue \in Seq(DownMessage), queue # << >>
  PROVE  /\ ArmedBeats(Tail(queue)) # {} => ArmedBeats(queue) # {}
         /\ Head(queue).type = "HEARTBEAT" /\ Head(queue).armed => ArmedBeats(queue) # {}
<1>1. Len(queue) \in Nat \ {0} /\ Len(Tail(queue)) = Len(queue) - 1
  BY EmptySeq, LenProperties, HeadTailProperties
<1>2. Head(queue) = queue[1]
  BY <1>1
<1>3. \A i \in ArmedBeats(Tail(queue)) : i + 1 \in ArmedBeats(queue)
  BY <1>1, HeadTailProperties DEF ArmedBeats
<1>4. Head(queue).type = "HEARTBEAT" /\ Head(queue).armed => 1 \in ArmedBeats(queue)
  BY <1>1, <1>2 DEF ArmedBeats
<1> QED
  BY <1>3, <1>4

(* Only a heartbeat of an armed autopilot adds to them.                    *)
LEMMA BeatsSent ==
  ASSUME LinkTypeOK, PilotStep, ArmedBeats(down') # {}
  PROVE  ArmedBeats(down) # {} \/ pilot.armed
<1>1. down \in Seq(DownMessage) /\ Len(down) \in Nat
  BY LenProperties DEF LinkTypeOK
<1>2. ASSUME NEW m \in DownMessage, down' = Append(down, m),
             m.type = "HEARTBEAT" => m.armed = pilot.armed
      PROVE  ArmedBeats(down) # {} \/ pilot.armed
  <2>1. PICK i \in 1 .. Len(down') : down'[i].type = "HEARTBEAT" /\ down'[i].armed
    BY DEF ArmedBeats
  <2>2. CASE i <= Len(down)
    BY <1>1, <1>2, <2>1, <2>2, AppendProperties DEF ArmedBeats
  <2>3. CASE i = Len(down) + 1
    BY <1>1, <1>2, <2>1, <2>3, AppendProperties
  <2> QED
    BY <1>1, <1>2, <2>1, <2>2, <2>3, AppendProperties
<1>3. ASSUME NEW m \in DownMessage, m.type # "HEARTBEAT", Reply(m)
      PROVE  ArmedBeats(down) # {} \/ pilot.armed
  BY <1>2, <1>3 DEF Reply, Sent
<1>4. CASE UNCHANGED down
  BY <1>4
<1>5. /\ \A x \in {"ARM", "START"} : \A y \in {"ACCEPTED", "REJECTED", "IN_PROGRESS"} :
           Acknowledge(x, y) => ArmedBeats(down) # {} \/ pilot.armed
      /\ \A i \in Nat : RequestItem(i) => ArmedBeats(down) # {} \/ pilot.armed
  BY <1>3, DownMessages DEF Acknowledge, RequestItem
<1>6. EndTransfer(TRUE) \/ EndTransfer(FALSE) => ArmedBeats(down) # {} \/ pilot.armed
  BY <1>3, DownMessages DEF EndTransfer
<1>7. up # << >> => Head(up) \in UpMessage
  BY TakenType DEF LinkTypeOK
<1>8. CASE ObeyArm \/ ArmInProgress \/ ObeyStart
  BY <1>5, <1>8 DEF ObeyArm, ArmInProgress, ObeyStart
<1>9. CASE ReceiveCount
  BY <1>5, <1>6, <1>9 DEF ReceiveCount
<1>10. CASE ReceiveItem
  <2>1. Head(up).seq \in Nat /\ Head(up).seq + 1 \in Nat
    BY <1>7, <1>10, MessageFields DEF ReceiveItem, Obeys
  <2> QED
    BY <1>4, <1>5, <1>6, <1>10, <2>1 DEF ReceiveItem
<1>11. CASE RequestAgain
  <2>1. pilot.awaits \in Nat
    BY <1>11 DEF RequestAgain, LinkTypeOK, Pilot
  <2> QED
    BY <1>5, <1>11, <2>1 DEF RequestAgain
<1>12. CASE GiveUpTransfer
  BY <1>6, <1>12 DEF GiveUpTransfer
<1>13. CASE AnswerRequestList
  <2>1. Len(pilot.stored) \in Nat
    BY LenProperties DEF LinkTypeOK, Pilot
  <2> QED
    BY <1>3, <1>13, <2>1, DownMessages DEF AnswerRequestList
<1>14. CASE AnswerRequest
  <2> DEFINE i == Head(up).seq
  <2>1. i \in Nat
    BY <1>7, <1>14, MessageFields DEF AnswerRequest, Obeys
  <2>2. i \in Numbers(pilot.stored) => ItemAt(pilot.stored, i) \in Items
    BY <2>1, ElementOfSeq, LenProperties DEF LinkTypeOK, Pilot, Numbers, ItemAt
  <2> HIDE DEF i
  <2>3. CASE i \in Numbers(pilot.stored)
    BY <1>3, <1>14, <2>1, <2>2, <2>3, DownMessages DEF AnswerRequest, i
  <2>4. CASE i \notin Numbers(pilot.stored)
    BY <1>6, <1>14, <2>4 DEF AnswerRequest, i
  <2> QED
    BY <2>3, <2>4
<1>15. CASE Beat
  <2>1. [type |-> "HEARTBEAT", armed |-> pilot.armed] \in DownMessage
    BY DownMessages DEF LinkTypeOK, Pilot
  <2> QED
    BY <1>2, <1>15, <2>1 DEF Beat
<1>16. CASE ArmedOrDisarmed \/ Land
  BY <1>4, <1>16 DEF ArmedOrDisarmed, Land
<1> QED
  BY <1>8, <1>9, <1>10, <1>11, <1>12, <1>13, <1>14, <1>15, <1>16 DEF PilotStep

(* Witnessed in these words.                                               *)
LEMMA WitnessedBeats ==
  Witnessed <=> (op.name = "arm" =>
                   /\ pilot.armed => op.since
                   /\ ArmedBeats(down) # {} => op.since
                   /\ op.newer /\ armed => op.since)
  BY DEF Witnessed, ArmedBeats

LEMMA WitnessedBeatsNext ==
  Witnessed' <=> (op'.name = "arm" =>
                   /\ pilot'.armed => op'.since
                   /\ ArmedBeats(down') # {} => op'.since
                   /\ op'.newer /\ armed' => op'.since)
  BY DEF Witnessed, ArmedBeats

LEMMA ArmKeeps ==
  ASSUME AdapterInv, BeginArm \/ ArmReceiveHeartbeat \/ ArmReceiveAck \/ ArmTimeout
  PROVE  AdapterInv'
<1> USE DEF AdapterInv, TypeOK
<1>1. LinkTypeOK
  OBVIOUS
<1>2. UNCHANGED <<pilot, uploaded, verified, mission, due>>
  BY DEF BeginArm, ArmReceiveHeartbeat, ArmReceiveAck, ArmTimeout
<1>3. ASSUME op' \in ArmOps, LinkTypeOK', armed' \in BOOLEAN, stage' \in Stage,
             Remembered', Unconfirmed', Witnessed'
      PROVE  AdapterInv'
  <2>1. op' \in Operation /\ op'.name = "arm"
    BY <1>3, OperationFields DEF ArmOps
  <2> QED
    BY <1>2, <1>3, <2>1 DEF InPlan
<1>9. op.name = "arm" /\ stage' = stage => Unconfirmed'
  BY DEF Unconfirmed
<1>4. CASE BeginArm
  <2>1. down' = << >> /\ down' \in Seq(DownMessage) /\ armed' \in BOOLEAN
    BY <1>4, DrainType DEF BeginArm, QueueEmptied, DrainMessages
  <2>2. CASE armed'
    BY <1>1, <1>2, <1>4, <2>1, <2>2, IdleType, NotArming
       DEF BeginArm, Return, LinkTypeOK, Stage
  <2>3. CASE ~armed'
    <3>1. op' = ArmOp(0) /\ SendArm /\ stage' = "verified"
      BY <1>4, <2>3 DEF BeginArm
    <3>2. op' \in ArmOps
      <4>1. 0 \in 0 .. MaxSendAttempts - 1 /\ pilot.armed \in BOOLEAN
        BY <1>1, AdapterAssumption DEF LinkTypeOK, Pilot
      <4>2. \A n \in 0 .. MaxSendAttempts - 1 : ArmOp(n) \in ArmOps
        BY <4>1 DEF ArmOp, ArmOps
      <4> QED
        BY <3>1, <4>1, <4>2, Zenon
    <3>3. Remembered'
      BY <3>1 DEF ArmOp, Remembered
    <3>4. Witnessed'
      <4>1. ArmedBeats(down') = {}
        BY <2>1, EmptySeq DEF ArmedBeats
      <4>2. op'.since = pilot.armed /\ op'.newer = FALSE
        BY <3>1 DEF ArmOp
      <4> QED
        BY <1>2, <4>1, <4>2, WitnessedBeatsNext
    <3>5. LinkTypeOK'
      BY <1>1, <1>2, <2>1, <3>1, SendType DEF LinkTypeOK
    <3> QED
      BY <1>3, <2>1, <3>1, <3>2, <3>3, <3>4, <3>5 DEF Stage, Unconfirmed
  <2> QED
    BY <2>2, <2>3
<1>5. ASSUME Receive("arm"), UNCHANGED up
      PROVE  /\ op \in ArmOps /\ Received \in DownMessage /\ LinkTypeOK'
             /\ pilot.armed => op.since
             /\ ArmedBeats(down') # {} => op.since
             /\ Received.type = "HEARTBEAT" /\ Received.armed => op.since
             /\ op.newer /\ armed => op.since
  <2>1. op \in ArmOps
    BY <1>5, OperationFields DEF Receive
  <2>2. Received \in DownMessage /\ LinkTypeOK'
    BY <1>1, <1>2, <1>5, TakenType DEF Receive, Received, LinkTypeOK
  <2>3. /\ ArmedBeats(down') # {} => ArmedBeats(down) # {}
        /\ Received.type = "HEARTBEAT" /\ Received.armed => ArmedBeats(down) # {}
    BY <1>1, <1>5, BeatsTaken DEF Receive, Received, LinkTypeOK
  <2> QED
    BY <1>5, <2>1, <2>2, <2>3, WitnessedBeats DEF Receive
<1>6. CASE ArmReceiveHeartbeat
  <2>1. /\ op \in ArmOps /\ Received \in DownMessage /\ LinkTypeOK'
        /\ pilot.armed => op.since
        /\ ArmedBeats(down') # {} => op.since
        /\ Received.armed => op.since
    BY <1>5, <1>6 DEF ArmReceiveHeartbeat
  <2>2. armed' = Received.armed /\ armed' \in BOOLEAN
    BY <1>6, <2>1, MessageFields DEF ArmReceiveHeartbeat, Ingest
  <2>3. CASE Return("armed")
    BY <1>2, <2>1, <2>2, <2>3, IdleType, NotArming DEF Return, Stage
  <2>4. CASE /\ op' = [op EXCEPT !.newer = TRUE,
                                 !.seen = @ \/ (op.step = "ack" /\ Received.armed),
                                 !.told = @ \/ Received.armed]
             /\ UNCHANGED stage
    <3>1. /\ op.seen \/ (op.step = "ack" /\ Received.armed) \in BOOLEAN
          /\ op.told \/ Received.armed \in BOOLEAN
      BY <2>1, <2>2 DEF ArmOps
    <3>2. op' \in ArmOps
      BY <2>1, <2>4, <3>1 DEF ArmOps
    <3>3. /\ op'.seen = (op.seen \/ (op.step = "ack" /\ Received.armed))
          /\ op'.told = (op.told \/ Received.armed)
          /\ op'.step = op.step /\ op'.since = op.since
      BY <2>1, <2>4 DEF ArmOps
    <3>4. Remembered'
      BY <1>6, <3>3 DEF Remembered, ArmReceiveHeartbeat, Receive
    <3>5. Witnessed'
      BY <1>2, <2>1, <2>2, <3>3, WitnessedBeatsNext
    <3> QED
      BY <1>3, <1>6, <1>9, <2>1, <2>2, <2>4, <3>2, <3>4, <3>5
         DEF ArmReceiveHeartbeat, Receive
  <2> QED
    BY <1>6, <2>3, <2>4 DEF ArmReceiveHeartbeat
<1>7. CASE ArmReceiveAck
  <2>1. /\ op \in ArmOps /\ LinkTypeOK' /\ armed' = armed
        /\ pilot.armed => op.since
        /\ ArmedBeats(down') # {} => op.since
        /\ op.newer /\ armed => op.since
    BY <1>5, <1>7 DEF ArmReceiveAck
  <2>2. CASE UNCHANGED <<op, stage>>
    <3>1. Remembered' /\ Witnessed'
      BY <1>2, <2>1, <2>2, WitnessedBeatsNext DEF Remembered
    <3> QED
      BY <1>3, <1>7, <1>9, <2>1, <2>2, <3>1 DEF ArmReceiveAck, Receive
  <2>3. CASE op' = Idle /\ stage' \in {stage, "armed"}
    BY <1>2, <2>1, <2>3, IdleType, NotArming DEF Stage
  <2>4. CASE op' = [op EXCEPT !.step = "heartbeat"] /\ UNCHANGED stage
    <3>5. op' = [op EXCEPT !.step = "heartbeat"]
      BY <2>4
    <3>6. op' \in ArmOps
      BY <2>1, <3>5, ArmEdit, Zenon
    <3>7. op'.step = "heartbeat"
      BY <2>1, <3>5 DEF ArmOps
    <3>1. op' \in ArmOps /\ op'.step = "heartbeat"
      BY <3>6, <3>7
    <3>2. op'.since = op.since /\ op'.newer = op.newer
      BY <2>1, <2>4 DEF ArmOps
    <3>3. Remembered' /\ Witnessed'
      BY <1>2, <2>1, <3>1, <3>2, WitnessedBeatsNext DEF Remembered
    <3> QED
      BY <1>3, <1>7, <1>9, <2>1, <2>4, <3>1, <3>3 DEF ArmReceiveAck, Receive
  <2> QED
    BY <1>7, <2>2, <2>3, <2>4 DEF ArmReceiveAck, Return, Fail
<1>8. CASE ArmTimeout
  <2>1. op \in ArmOps
    BY <1>8, OperationFields DEF ArmTimeout
  <2>2. UNCHANGED <<down, armed>>
    BY <1>8 DEF ArmTimeout
  <2>3. CASE MayRepeat
    <3>1. op' = [op EXCEPT !.attempt = op.attempt + 1] /\ SendArm /\ stage' = stage
      BY <1>8, <2>3 DEF ArmTimeout
    <3>2. op.attempt + 1 \in 0 .. MaxSendAttempts - 1
      BY <2>1, <2>3, AdapterAssumption DEF MayRepeat, ArmOps
    <3>3. op' \in ArmOps
      BY <2>1, <3>1, <3>2, ArmEdit, Zenon
    <3>4. /\ op'.seen = op.seen /\ op'.told = op.told /\ op'.step = op.step
          /\ op'.since = op.since /\ op'.newer = op.newer
      BY <2>1, <3>1 DEF ArmOps
    <3>5. Remembered'
      BY <1>8, <3>4 DEF Remembered, ArmTimeout
    <3>6. Witnessed'
      BY <1>2, <1>8, <2>2, <3>4, WitnessedBeats, WitnessedBeatsNext DEF ArmTimeout
    <3>7. LinkTypeOK'
      BY <1>1, <1>2, <2>2, <3>1, SendType DEF LinkTypeOK
    <3> QED
      BY <1>3, <1>8, <1>9, <2>2, <3>1, <3>3, <3>5, <3>6, <3>7 DEF ArmTimeout
  <2>4. CASE ~MayRepeat
    BY <1>1, <1>2, <1>8, <2>2, <2>4, IdleType, NotArming DEF ArmTimeout, Fail, LinkTypeOK
  <2> QED
    BY <2>3, <2>4
<1> QED
  BY <1>4, <1>6, <1>7, <1>8

LEMMA PilotKeeps ==
  ASSUME AdapterInv, Pilots
  PROVE  AdapterInv'
<1> USE DEF AdapterInv, TypeOK
<1>1. LinkTypeOK /\ PilotStep
  BY DEF Pilots
<1>2. LinkTypeOK'
  BY <1>1, PilotType
<1>3. UNCHANGED <<armed, uploaded, verified, mission, due, stage>>
  BY DEF Pilots, callerVars
<1>4. CASE op.name # "arm"
  <2>1. op' = op
    BY <1>4 DEF Pilots
  <2> QED
    BY <1>2, <1>3, <1>4, <2>1, NotArming DEF InPlan, Plan
<1>5. CASE op.name = "arm"
  <2>1. op \in ArmOps /\ op' = [op EXCEPT !.since = @ \/ pilot'.armed]
    BY <1>5, OperationFields DEF Pilots
  <2>2. op'.since = (op.since \/ pilot'.armed) /\ pilot'.armed \in BOOLEAN
    BY <1>2, <2>1 DEF ArmOps, LinkTypeOK, Pilot
  <2>3. op' \in ArmOps
    BY <2>1, <2>2 DEF ArmOps
  <2>4. /\ op'.seen = op.seen /\ op'.told = op.told /\ op'.step = op.step
        /\ op'.newer = op.newer /\ op'.name = "arm"
    BY <2>1 DEF ArmOps
  <2>5. op' \in Operation
    BY <2>3, OperationFields
  <2>6. Remembered'
    BY <1>5, <2>4 DEF Remembered
  <2>7. Witnessed'
    BY <1>1, <1>3, <1>5, <2>2, <2>4, BeatsSent, WitnessedBeats, WitnessedBeatsNext
  <2> QED
    BY <1>2, <1>3, <1>5, <2>4, <2>5, <2>6, <2>7 DEF InPlan, Unconfirmed
<1> QED
  BY <1>4, <1>5

LEMMA AdapterInductive == AdapterInv /\ [Next]_vars => AdapterInv'
<1> SUFFICES ASSUME AdapterInv, [Next]_vars PROVE AdapterInv'
  OBVIOUS
<1>1. CASE Next
  BY <1>1, UploadKeeps, ReadbackKeeps, ArmKeeps, BetweenKeeps, PilotKeeps
     DEF Next, Begin, ReceiveStep, Timeout
<1>2. CASE UNCHANGED vars
  BY <1>2 DEF vars, linkVars, adapterVars, callerVars, AdapterInv, TypeOK, LinkTypeOK,
              InPlan, Plan, Remembered, Unconfirmed, Witnessed
<1> QED
  BY <1>1, <1>2

LEMMA AdapterInvariant == Spec => []AdapterInv
<1>1. Init => AdapterInv
  BY InitAdapter
<1>2. AdapterInv /\ [Next]_vars => AdapterInv'
  BY AdapterInductive
<1> QED
  BY <1>1, <1>2, PTL DEF Spec

(* The adapter, the link and the autopilot stay what they are declared to  *)
(* be (PymavlinkGateway and the messages it sends and waits for).          *)
THEOREM AdapterTypeCorrect == Spec => []TypeOK
<1>1. AdapterInv => TypeOK
  BY DEF AdapterInv
<1> QED
  BY <1>1, AdapterInvariant, PTL

(* ARM is not transmitted again once the vehicle has been seen armed       *)
(* (_arm_vehicle_sync).                                                    *)
THEOREM ArmingNotRepeated == Spec => ArmNotRepeated
<1> DEFINE Step == op.name = "arm" /\ op'.name = "arm" /\ op.told => op'.attempt = op.attempt
<1>1. AdapterInv /\ [Next]_vars => [Step]_vars
  <2> SUFFICES ASSUME AdapterInv, Next, op.name = "arm", op'.name = "arm", op.told
               PROVE  op'.attempt = op.attempt
    BY DEF vars
  <2>1. op \in ArmOps /\ Idle.name # "arm"
    BY OperationFields DEF AdapterInv, TypeOK, Idle
  <2>2. CASE ArmTimeout
    BY <2>1, <2>2 DEF ArmTimeout, MayRepeat, Fail, AdapterInv, Remembered
  <2>3. CASE ArmReceiveHeartbeat \/ ArmReceiveAck
    BY <2>1, <2>3 DEF ArmReceiveHeartbeat, ArmReceiveAck, Return, Fail, ArmOps
  <2>4. CASE Pilots
    BY <2>1, <2>4 DEF Pilots, ArmOps
  <2>5. CASE Restart \/ Deadline
    BY <2>1, <2>5 DEF Restart, Deadline, Fail
  <2> QED
    BY <2>1, <2>2, <2>3, <2>4, <2>5
       DEF Next, Begin, BeginUpload, BeginVerify, BeginArm, BeginStart, ReceiveStep,
           UploadReceive, ReadbackReceive, CommandReceive, Receive, Timeout, UploadTimeout,
           ReadbackTimeout, Drain, Reconnect, NextMission, ForeignWrite
<1> QED
  BY <1>1, AdapterInvariant, PTL DEF Spec, ArmNotRepeated

(* An arming reported as confirmed has happened in its own transaction     *)
(* (arm_vehicle, _wait_for_new_armed_heartbeat).                           *)
THEOREM ConfirmedArmingHappened == Spec => ConfirmedWasArmed
<1> DEFINE Step == op.name = "arm" /\ stage' = "armed" => op.since
<1>1. AdapterInv /\ [Next]_vars => [Step]_vars
  <2> SUFFICES ASSUME AdapterInv, Next, op.name = "arm", stage' = "armed"
               PROVE  op.since
    BY DEF vars, AdapterInv, Unconfirmed
  <2>1. stage = "verified" /\ Idle.name # "arm"
    BY DEF AdapterInv, Unconfirmed, Idle
  <2>2. /\ op.newer /\ armed => op.since
        /\ ArmedBeats(down) # {} => op.since
    BY WitnessedBeats DEF AdapterInv
  <2>3. CASE ArmReceiveHeartbeat
    <3>1. Received.armed /\ Received.type = "HEARTBEAT" /\ down # << >>
      BY <2>1, <2>3 DEF ArmReceiveHeartbeat, Receive
    <3> QED
      BY <2>2, <3>1, BeatsTaken DEF Received, AdapterInv, TypeOK, LinkTypeOK
  <2>4. CASE ArmReceiveAck
    BY <2>1, <2>2, <2>4 DEF ArmReceiveAck, Fail
  <2>5. CASE ArmTimeout \/ Deadline \/ Restart \/ Pilots
    BY <2>1, <2>5 DEF ArmTimeout, Deadline, Restart, Pilots, Fail, callerVars
  <2> QED
    BY <2>1, <2>3, <2>4, <2>5
       DEF Next, Begin, BeginUpload, BeginVerify, BeginArm, BeginStart, ReceiveStep,
           UploadReceive, ReadbackReceive, CommandReceive, Receive, Timeout, UploadTimeout,
           ReadbackTimeout, Drain, Reconnect, NextMission, ForeignWrite, Idle
<1> QED
  BY <1>1, AdapterInvariant, PTL DEF Spec, ConfirmedWasArmed

-------------------------------------------------------------------------------
(* What the vehicle flies.  The invariant follows the items of the mission *)
(* through the link: into the autopilot by the transfer, and out of it by  *)
(* the readback.                                                           *)

PlanLength == Len(Plan)

Written(i) == i < Len(pilot.stored) /\ ItemAt(pilot.stored, i) = ItemAt(Plan, i)

(* The autopilot holds the plan of the mission, all of it.                 *)
Complete == pilot.stored = Plan

OnTheWay(type) == \E i \in 1 .. Len(up) : up[i].type = type

(* Whatever is under way to the autopilot is about this mission.           *)
Own(m) ==
  /\ m.type = "COUNT" => m.count = PlanLength
  /\ m.type = "ITEM" => m.seq \in Numbers(Plan) /\ m.item = ItemAt(Plan, m.seq)
  /\ m.type = "START" => m.mission = mission /\ Complete

OwnMessages == \A i \in 1 .. Len(up) : Own(up[i])

(* Nothing is said of a mission before its transfer.                       *)
NothingSaid == stage = "claimed" => op = Idle /\ up = << >>

(* What a transfer has stored so far leaves no gap, and there is no more   *)
(* of it than it was told.                                                 *)
NoGap ==
  pilot.awaits >= 0 =>
    /\ pilot.awaits <= Len(pilot.stored) /\ Len(pilot.stored) <= pilot.count
    /\ pilot.awaits < pilot.count

(* A transfer is announced before its first item, and not again.           *)
AnnouncedFirst ==
  op.name = "upload" =>
    /\ \A i, j \in 1 .. Len(up) : i < j /\ up[i].type = "ITEM" => up[j].type # "COUNT"
    /\ op.last = -1 => ~OnTheWay("ITEM")

(* The items of the mission the autopilot has asked for in this transfer.  *)
RequestsIn(queue) ==
  {queue[i].seq : i \in {j \in 1 .. Len(queue) : queue[j].type = "MISSION_REQUEST"}}
Requested == (op.served \cup RequestsIn(down)) \cap Numbers(Plan)

AcceptedIn(queue) ==
  \E i \in 1 .. Len(queue) : queue[i].type = "MISSION_ACK" /\ queue[i].accepted

(* An item that was asked for is stored or still to be received, and is    *)
(* stored by the time the transfer is accepted, whichever transfer that    *)
(* was taken to be.                                                        *)
Served ==
  op.name = "upload" =>
    /\ \A i \in Requested :
         i < pilot.count /\ (pilot.awaits >= 0 => i >= pilot.awaits \/ Written(i))
    /\ AcceptedIn(down) =>
         /\ pilot.awaits = -1 /\ ~OnTheWay("COUNT") /\ op.last # -1
         /\ Len(pilot.stored) <= PlanLength
         /\ \A i \in Requested : Written(i)

(* What a readback was told is so: the queue was empty when it began, and  *)
(* what is stored agrees with the plan for good once it does.              *)
Reading == op.name = "start" \/ (op.name = "verify" /\ stage = "sent")

ToldTruly(m) ==
  /\ m.type = "MISSION_COUNT" /\ m.count = PlanLength => Len(pilot.stored) = PlanLength
  /\ m.type = "MISSION_ITEM" /\ m.seq \in Numbers(Plan) /\ m.item = ItemAt(Plan, m.seq)
       => Written(m.seq)

ReadTruly ==
  Reading =>
    /\ \A i \in 1 .. Len(down) : ToldTruly(down[i])
    /\ op.next >= 0 => Len(pilot.stored) = PlanLength /\ \A i \in 0 .. op.next - 1 : Written(i)

(* The vehicle flies the mission the executor is at.                       *)
FliesThis == Flying => pilot.flies = mission /\ Complete

PlanInv ==
  /\ AdapterInv /\ OwnMessages /\ NothingSaid /\ NoGap
  /\ AnnouncedFirst /\ Served /\ ReadTruly /\ FliesThis

(* A mission has items, and they are numbered.                             *)
LEMMA PlanFacts ==
  ASSUME mission \in Missions
  PROVE  /\ Plan \in Seq(Items) /\ PlanLength \in Nat /\ PlanLength > 0
         /\ Numbers(Plan) = 0 .. PlanLength - 1
         /\ \A i \in Numbers(Plan) : i \in Nat /\ i < PlanLength /\ ItemAt(Plan, i) \in Items
<1>1. Plan \in Seq(Items) /\ PlanLength \in Nat /\ PlanLength > 0
  BY LinkAssumption, LenProperties DEF Plan, PlanLength
<1>2. Numbers(Plan) = 0 .. PlanLength - 1
  BY DEF Numbers, PlanLength
<1>3. \A i \in Numbers(Plan) : i \in Nat /\ i < PlanLength
  BY <1>1, <1>2
<1>4. \A i \in Numbers(Plan) : ItemAt(Plan, i) \in Items
  BY <1>1, <1>3, ElementOfSeq DEF ItemAt, PlanLength
<1> QED
  BY <1>1, <1>2, <1>3, <1>4

LEMMA PilotFacts ==
  ASSUME LinkTypeOK
  PROVE  /\ pilot.stored \in Seq(Items) /\ Len(pilot.stored) \in Nat
         /\ pilot.awaits \in Int /\ pilot.count \in Nat
         /\ up \in Seq(UpMessage) /\ Len(up) \in Nat
         /\ down \in Seq(DownMessage) /\ Len(down) \in Nat
  BY LenProperties DEF LinkTypeOK, Pilot

(* Two plans of one length that agree item by item are one.                *)
LEMMA SamePlan ==
  ASSUME NEW s \in Seq(Items), NEW t \in Seq(Items), Len(s) = Len(t),
         \A i \in 0 .. Len(t) - 1 : ItemAt(s, i) = ItemAt(t, i)
  PROVE  s = t
<1>1. Len(s) \in Nat /\ Len(t) \in Nat
  BY LenProperties
<1>2. \A i \in 1 .. Len(t) : s[i] = t[i]
  <2> TAKE i \in 1 .. Len(t)
  <2>1. i - 1 \in 0 .. Len(t) - 1 /\ (i - 1) + 1 = i
    BY <1>1
  <2> QED
    BY <2>1 DEF ItemAt
<1> QED
  BY <1>2, SeqEqual

LEMMA CompleteIs ==
  ASSUME TypeOK
  PROVE  Complete <=> /\ Len(pilot.stored) = PlanLength
                      /\ \A i \in Numbers(Plan) : Written(i)
<1>1. /\ Plan \in Seq(Items) /\ pilot.stored \in Seq(Items) /\ PlanLength \in Nat
      /\ Numbers(Plan) = 0 .. PlanLength - 1
  BY PlanFacts, PilotFacts DEF TypeOK
<1>2. Complete => Len(pilot.stored) = PlanLength /\ \A i \in Numbers(Plan) : Written(i)
  BY <1>1 DEF Complete, Written, PlanLength
<1>3. ASSUME Len(pilot.stored) = PlanLength, \A i \in Numbers(Plan) : Written(i)
      PROVE  Complete
  BY <1>1, <1>3, SamePlan DEF Complete, Written, PlanLength
<1> QED
  BY <1>2, <1>3

(* The messages of a queue after one was taken, or one was sent.           *)
LEMMA EachTaken ==
  ASSUME NEW S, NEW queue \in Seq(S), queue # << >>
  PROVE  /\ Len(queue) \in Nat /\ Len(queue) > 0 /\ Head(queue) = queue[1]
         /\ Len(Tail(queue)) = Len(queue) - 1
         /\ \A i \in 1 .. Len(Tail(queue)) :
              i + 1 \in 1 .. Len(queue) /\ Tail(queue)[i] = queue[i + 1]
<1>1. Len(queue) \in Nat \ {0} /\ Len(Tail(queue)) = Len(queue) - 1
  BY EmptySeq, LenProperties, HeadTailProperties
<1>2. Head(queue) = queue[1]
  BY <1>1
<1>3. \A i \in 1 .. Len(Tail(queue)) : Tail(queue)[i] = queue[i + 1]
  BY <1>1, HeadTailProperties
<1> QED
  BY <1>1, <1>2, <1>3

LEMMA EachSent ==
  ASSUME NEW S, NEW queue \in Seq(S), NEW m \in S, NEW q \in Sent(queue, m) \cup {Append(queue, m)}
  PROVE  /\ Len(queue) \in Nat /\ Len(q) \in Nat
         /\ \A i \in 1 .. Len(q) :
              \/ i \in 1 .. Len(queue) /\ q[i] = queue[i]
              \/ i = Len(queue) + 1 /\ q[i] = m
<1>1. Len(queue) \in Nat
  BY LenProperties
<1>2. CASE q = queue
  BY <1>1, <1>2
<1>3. CASE q = Append(queue, m)
  <2>1. Len(q) = Len(queue) + 1 /\ q[Len(queue) + 1] = m
        /\ \A i \in 1 .. Len(queue) : q[i] = queue[i]
    BY <1>3, AppendProperties
  <2> QED
    BY <1>1, <2>1
<1> QED
  BY <1>2, <1>3 DEF Sent

LEMMA OwnTaken ==
  ASSUME LinkTypeOK, OwnMessages, up # << >>
  PROVE  Own(Head(up)) /\ \A i \in 1 .. Len(Tail(up)) : Own(Tail(up)[i])
<1>1. Len(up) \in Nat /\ 1 \in 1 .. Len(up)
  BY EachTaken DEF LinkTypeOK
<1> QED
  BY <1>1, EachTaken DEF LinkTypeOK, OwnMessages

(* What the autopilot does to what it holds: a count makes it begin anew,  *)
(* an item it waits for is stored, and nothing else changes a plan.        *)
Counts ==
  /\ up # << >> /\ Head(up).type = "COUNT" /\ ~Flying
  /\ pilot'.awaits = 0 /\ pilot'.count = Head(up).count /\ pilot'.flies = pilot.flies
  /\ pilot'.stored = SubSeq(pilot.stored, 1, IF Len(pilot.stored) < Head(up).count
                                             THEN Len(pilot.stored) ELSE Head(up).count)

Stores ==
  /\ up # << >> /\ Head(up).type = "ITEM" /\ pilot.awaits = Head(up).seq
  /\ pilot'.stored = Store(pilot.stored, Head(up).seq, Head(up).item)
  /\ pilot'.count = pilot.count /\ pilot'.flies = pilot.flies
  /\ \/ Head(up).seq + 1 < pilot.count /\ pilot'.awaits = Head(up).seq + 1
     \/ Head(up).seq + 1 = pilot.count /\ pilot'.awaits = -1

Leaves ==
  /\ pilot'.stored = pilot.stored /\ pilot'.count = pilot.count
  /\ pilot'.awaits \in {pilot.awaits, -1}
  /\ \/ pilot'.flies \in {pilot.flies, NoMission}
     \/ up # << >> /\ Head(up).type = "START" /\ pilot'.flies = Head(up).mission

LEMMA PilotWrites ==
  ASSUME LinkTypeOK, PilotStep
  PROVE  Counts \/ Stores \/ Leaves
<1>1. pilot \in Pilot
  BY DEF LinkTypeOK
<1>2. CASE ReceiveCount
  <2>1. UNCHANGED pilot => Leaves
    BY <1>1 DEF Leaves
  <2>2. ASSUME ~Flying,
               pilot' = [pilot EXCEPT
                 !.awaits = 0, !.count = Head(up).count,
                 !.stored = SubSeq(@, 1, IF Len(@) < Head(up).count THEN Len(@)
                                         ELSE Head(up).count)]
        PROVE  Counts
    <3> DEFINE n == IF Len(pilot.stored) < Head(up).count THEN Len(pilot.stored)
                    ELSE Head(up).count
               plan == SubSeq(pilot.stored, 1, n)
    <3>1. pilot' = [pilot EXCEPT !.awaits = 0, !.count = Head(up).count, !.stored = plan]
      BY <2>2
    <3> HIDE DEF plan
    <3>2. pilot'.awaits = 0 /\ pilot'.count = Head(up).count
          /\ pilot'.flies = pilot.flies /\ pilot'.stored = plan
      BY <1>1, <3>1 DEF Pilot
    <3> QED
      BY <1>2, <2>2, <3>2 DEF ReceiveCount, Obeys, Counts, plan
  <2> QED
    BY <1>2, <2>1, <2>2 DEF ReceiveCount
<1>3. CASE ReceiveItem
  <2> DEFINE i == Head(up).seq
             plan == Store(pilot.stored, i, Head(up).item)
  <2>1. UNCHANGED pilot => Leaves
    BY <1>1 DEF Leaves
  <2>2. ASSUME NEW n, pilot' = [pilot EXCEPT !.awaits = n, !.stored = plan]
        PROVE  /\ pilot'.awaits = n /\ pilot'.count = pilot.count
               /\ pilot'.flies = pilot.flies /\ pilot'.stored = plan
    <3> HIDE DEF plan, i
    <3> QED
      BY <1>1, <2>2 DEF Pilot
  <2>6. \/ /\ pilot.awaits = i /\ i + 1 < pilot.count
           /\ pilot' = [pilot EXCEPT !.awaits = i + 1, !.stored = plan]
        \/ /\ pilot.awaits = i /\ i + 1 = pilot.count
           /\ pilot' = [pilot EXCEPT !.awaits = -1, !.stored = plan]
        \/ UNCHANGED pilot
    BY <1>3 DEF ReceiveItem
  <2>9. up # << >> /\ Head(up).type = "ITEM"
    BY <1>3 DEF ReceiveItem, Obeys
  <2> HIDE DEF plan, i
  <2>7. CASE /\ pilot.awaits = i /\ i + 1 < pilot.count
             /\ pilot' = [pilot EXCEPT !.awaits = i + 1, !.stored = plan]
    BY <2>2, <2>7, <2>9 DEF Stores, i, plan
  <2>8. CASE /\ pilot.awaits = i /\ i + 1 = pilot.count
             /\ pilot' = [pilot EXCEPT !.awaits = -1, !.stored = plan]
    BY <2>2, <2>8, <2>9 DEF Stores, i, plan
  <2> QED
    BY <2>1, <2>6, <2>7, <2>8
<1>4. CASE ObeyStart
  BY <1>1, <1>4 DEF ObeyStart, Obeys, Leaves, Pilot
<1>5. CASE ObeyArm \/ ArmInProgress \/ ArmedOrDisarmed \/ Land \/ GiveUpTransfer
  BY <1>1, <1>5 DEF ObeyArm, ArmInProgress, ArmedOrDisarmed, Land, GiveUpTransfer, Leaves, Pilot
<1>6. CASE RequestAgain \/ AnswerRequestList \/ AnswerRequest \/ Beat
  BY <1>1, <1>6 DEF RequestAgain, AnswerRequestList, AnswerRequest, Beat, Leaves
<1> QED
  BY <1>2, <1>3, <1>4, <1>5, <1>6 DEF PilotStep

LEMMA PilotTakes ==
  ASSUME PilotStep
  PROVE  up' = up \/ (up # << >> /\ up' = Tail(up))
  BY DEF PilotStep, ObeyArm, ArmInProgress, ObeyStart, ReceiveCount, ReceiveItem,
         RequestAgain, GiveUpTransfer, AnswerRequestList, AnswerRequest, Beat,
         ArmedOrDisarmed, Land, Obeys

(* A message that is obeyed is taken from the queue.                       *)
LEMMA WritesTake ==
  ASSUME LinkTypeOK, PilotStep, Counts \/ Stores, ~Leaves
  PROVE  up' = Tail(up)
<1>1. pilot \in Pilot
  BY DEF LinkTypeOK
<1>2. CASE up' = up
  <2>1. ArmInProgress \/ RequestAgain \/ GiveUpTransfer \/ Beat \/ ArmedOrDisarmed \/ Land \/ Obeys("COUNT") \/ Obeys("ITEM") \/ Obeys("ARM") \/ Obeys("START") \/ Obeys("REQUEST_LIST") \/ Obeys("REQUEST")
    BY DEF PilotStep, ObeyArm, ObeyStart, ReceiveCount, ReceiveItem, AnswerRequestList, AnswerRequest
  <2>2. ArmInProgress \/ RequestAgain \/ GiveUpTransfer \/ Beat \/ ArmedOrDisarmed \/ Land => Leaves
    BY <1>1 DEF ArmInProgress, RequestAgain, GiveUpTransfer, Beat, ArmedOrDisarmed, Land, Leaves, Pilot
  <2> QED
    BY <2>1, <2>2 DEF Obeys
<1> QED
  BY <1>2, PilotTakes

(* What it says in the same step.                                          *)
Says(m) ==
  /\ m.type = "MISSION_REQUEST" => m.seq = pilot'.awaits /\ m.seq >= 0
  /\ m.type = "MISSION_ACK" /\ m.accepted => Stores /\ pilot'.awaits = -1 /\ up' = Tail(up)
  /\ m.type = "MISSION_COUNT" => m.count = Len(pilot.stored) /\ pilot' = pilot
  /\ m.type = "MISSION_ITEM" =>
       /\ m.seq \in Numbers(pilot.stored) /\ m.item = ItemAt(pilot.stored, m.seq)
       /\ pilot' = pilot

Speaks == down' = down \/ \E m \in DownMessage : Says(m) /\ down' = Append(down, m)

LEMMA PilotSays ==
  ASSUME LinkTypeOK, PilotStep
  PROVE  Speaks
<1>1. pilot \in Pilot
  BY DEF LinkTypeOK
<1>2. \A m \in DownMessage : Reply(m) /\ Says(m) => Speaks
  BY DEF Reply, Sent, Speaks
<1>3. \A x \in {"ARM", "START"} : \A y \in {"ACCEPTED", "REJECTED", "IN_PROGRESS"} :
        Acknowledge(x, y) => Speaks
  BY <1>2, DownMessages DEF Acknowledge, Says
<1>4. \A i \in Nat : RequestItem(i) /\ pilot'.awaits = i => Speaks
  BY <1>2, DownMessages DEF RequestItem, Says
<1>5. EndTransfer(FALSE) => Speaks
  BY <1>2, DownMessages DEF EndTransfer, Says
<1>6. EndTransfer(TRUE) /\ Stores /\ pilot'.awaits = -1 /\ up' = Tail(up) => Speaks
  BY <1>2, DownMessages DEF EndTransfer, Says
<1>7. CASE ObeyArm \/ ArmInProgress \/ ObeyStart
  BY <1>3, <1>7 DEF ObeyArm, ArmInProgress, ObeyStart
<1>8. CASE ReceiveCount
  <2>1. CASE EndTransfer(FALSE)
    BY <1>5, <2>1
  <2>2. CASE RequestItem(0) /\ ~EndTransfer(FALSE)
    <3>1. \E n \in Nat : \E plan : pilot' = [pilot EXCEPT !.awaits = 0, !.count = n, !.stored = plan]
      <4>1. Head(up).count \in Nat
        BY <1>8, TakenType, MessageFields DEF ReceiveCount, Obeys, LinkTypeOK
      <4> QED
        BY <1>8, <2>2, <4>1 DEF ReceiveCount
    <3>2. pilot'.awaits = 0
      BY <1>1, <3>1 DEF Pilot
    <3> QED
      BY <1>4, <2>2, <3>2
  <2> QED
    BY <1>8, <2>1, <2>2 DEF ReceiveCount
<1>9. CASE ReceiveItem
  <2> DEFINE i == Head(up).seq
             plan == Store(pilot.stored, i, Head(up).item)
  <2>1. Head(up).seq \in Nat /\ up # << >> /\ Head(up).type = "ITEM" /\ up' = Tail(up)
    BY <1>9, TakenType, MessageFields DEF ReceiveItem, Obeys, LinkTypeOK
  <2>2. \/ /\ pilot.awaits = i /\ i + 1 < pilot.count
           /\ pilot' = [pilot EXCEPT !.awaits = i + 1, !.stored = plan]
           /\ RequestItem(i + 1)
        \/ /\ pilot.awaits = i /\ i + 1 = pilot.count
           /\ pilot' = [pilot EXCEPT !.awaits = -1, !.stored = plan]
           /\ EndTransfer(TRUE)
        \/ UNCHANGED down \/ EndTransfer(FALSE)
    BY <1>9 DEF ReceiveItem
  <2> HIDE DEF plan
  <2>3. CASE /\ pilot' = [pilot EXCEPT !.awaits = i + 1, !.stored = plan]
             /\ RequestItem(i + 1)
    <3>1. pilot'.awaits = i + 1 /\ i + 1 \in Nat
      BY <1>1, <2>1, <2>3 DEF Pilot
    <3> QED
      BY <1>4, <2>3, <3>1
  <2>4. CASE /\ pilot.awaits = i /\ i + 1 = pilot.count
             /\ pilot' = [pilot EXCEPT !.awaits = -1, !.stored = plan]
             /\ EndTransfer(TRUE)
    <3>1. pilot'.awaits = -1 /\ pilot'.stored = plan /\ pilot'.count = pilot.count
          /\ pilot'.flies = pilot.flies
      BY <1>1, <2>4 DEF Pilot
    <3>2. Stores
      BY <2>1, <2>4, <3>1 DEF Stores, plan
    <3> QED
      BY <1>6, <2>1, <2>4, <3>1, <3>2
  <2> QED
    BY <1>5, <2>2, <2>3, <2>4 DEF Speaks
<1>10. CASE RequestAgain
  BY <1>1, <1>4, <1>10 DEF RequestAgain, Pilot
<1>11. CASE GiveUpTransfer
  BY <1>5, <1>11 DEF GiveUpTransfer
<1>12. CASE AnswerRequestList
  <2>1. Len(pilot.stored) \in Nat
    BY PilotFacts
  <2> QED
    BY <1>2, <1>12, <2>1, DownMessages DEF AnswerRequestList, Says
<1>13. CASE AnswerRequest
  <2> DEFINE i == Head(up).seq
             x == ItemAt(pilot.stored, i)
  <2>1. Head(up).seq \in Nat /\ pilot' = pilot
    BY <1>13, TakenType, MessageFields DEF AnswerRequest, Obeys, LinkTypeOK
  <2>2. i \in Numbers(pilot.stored) => x \in Items
    BY <2>1, PilotFacts, ElementOfSeq DEF Numbers, ItemAt
  <2>3. \/ /\ i \in Numbers(pilot.stored)
           /\ Reply([type |-> "MISSION_ITEM", seq |-> i, item |-> x])
        \/ EndTransfer(FALSE)
    BY <1>13 DEF AnswerRequest
  <2> HIDE DEF i
  <2>4. CASE /\ i \in Numbers(pilot.stored)
             /\ Reply([type |-> "MISSION_ITEM", seq |-> i, item |-> x])
    <3>1. [type |-> "MISSION_ITEM", seq |-> i, item |-> x] \in DownMessage
      BY <2>1, <2>2, <2>4, DownMessages DEF i
    <3>2. Says([type |-> "MISSION_ITEM", seq |-> i, item |-> x])
      BY <2>1, <2>4 DEF Says
    <3> QED
      BY <1>2, <2>4, <3>1, <3>2
  <2> QED
    BY <1>5, <2>3, <2>4
<1>14. CASE Beat
  <2>1. [type |-> "HEARTBEAT", armed |-> pilot.armed] \in DownMessage
    BY <1>1, DownMessages DEF Pilot
  <2>2. Says([type |-> "HEARTBEAT", armed |-> pilot.armed])
    BY DEF Says
  <2> QED
    BY <1>14, <2>1, <2>2 DEF Beat, Speaks
<1>15. CASE ArmedOrDisarmed \/ Land
  BY <1>15 DEF ArmedOrDisarmed, Land, Speaks
<1> QED
  BY <1>7, <1>8, <1>9, <1>10, <1>11, <1>12, <1>13, <1>14, <1>15 DEF PilotStep, Speaks

LEMMA StoreItem ==
  ASSUME NEW plan \in Seq(Items), NEW i \in 0 .. Len(plan), NEW x \in Items
  PROVE  /\ Store(plan, i, x) \in Seq(Items)
         /\ Len(Store(plan, i, x)) = IF i < Len(plan) THEN Len(plan) ELSE Len(plan) + 1
         /\ ItemAt(Store(plan, i, x), i) = x
         /\ \A j \in 0 .. Len(plan) - 1 :
              j # i => ItemAt(Store(plan, i, x), j) = ItemAt(plan, j)
<1>1. Len(plan) \in Nat /\ i \in Nat
  BY LenProperties
<1>2. CASE i < Len(plan)
  <2>1. Store(plan, i, x) = [plan EXCEPT ![i + 1] = x] /\ i + 1 \in 1 .. Len(plan)
    BY <1>1, <1>2 DEF Store
  <2>2. /\ [plan EXCEPT ![i + 1] = x] \in Seq(Items)
        /\ Len([plan EXCEPT ![i + 1] = x]) = Len(plan)
        /\ [plan EXCEPT ![i + 1] = x][i + 1] = x
        /\ \A j \in 1 .. Len(plan) : j # i + 1 => [plan EXCEPT ![i + 1] = x][j] = plan[j]
    BY <2>1, ExceptSeq
  <2>3. \A j \in 0 .. Len(plan) - 1 : j + 1 \in 1 .. Len(plan)
    BY <1>1
  <2> QED
    BY <1>1, <1>2, <2>1, <2>2, <2>3 DEF ItemAt
<1>3. CASE ~(i < Len(plan))
  <2>1. Store(plan, i, x) = Append(plan, x) /\ i = Len(plan)
    BY <1>1, <1>3 DEF Store
  <2>2. /\ Append(plan, x) \in Seq(Items) /\ Len(Append(plan, x)) = Len(plan) + 1
        /\ Append(plan, x)[Len(plan) + 1] = x
        /\ \A j \in 1 .. Len(plan) : Append(plan, x)[j] = plan[j]
    BY AppendProperties
  <2>3. \A j \in 0 .. Len(plan) - 1 : j + 1 \in 1 .. Len(plan)
    BY <1>1
  <2> QED
    BY <1>1, <1>3, <2>1, <2>2, <2>3 DEF ItemAt
<1> QED
  BY <1>2, <1>3

(* The messages of the mission leave no gap, and what of the plan is       *)
(* stored stays stored.                                                    *)
LEMMA StoredStays ==
  ASSUME TypeOK, OwnMessages, NoGap, PilotStep, mission' = mission
  PROVE  /\ NoGap'
         /\ Len(pilot.stored) = PlanLength => Len(pilot'.stored) = PlanLength
         /\ \A i \in Numbers(Plan) : Written(i) => Written(i)'
         /\ Stores => /\ pilot.awaits \in Numbers(Plan)
                      /\ \A i : i = pilot.awaits => Written(i)'
                      /\ pilot'.awaits = -1 => Len(pilot'.stored) <= PlanLength
<1>1. /\ Plan \in Seq(Items) /\ PlanLength \in Nat /\ PlanLength > 0
      /\ Numbers(Plan) = 0 .. PlanLength - 1
  BY PlanFacts DEF TypeOK
<1>2. /\ pilot.stored \in Seq(Items) /\ Len(pilot.stored) \in Nat
      /\ pilot.awaits \in Int /\ pilot.count \in Nat
  BY PilotFacts DEF TypeOK
<1>3. Plan' = Plan
  BY DEF Plan
<1>4. up # << >> => Own(Head(up))
  BY OwnTaken DEF TypeOK
<1>5. CASE Counts
  <2>1. Head(up).count = PlanLength
    BY <1>4, <1>5 DEF Counts, Own
  <2> DEFINE n == IF Len(pilot.stored) < PlanLength THEN Len(pilot.stored) ELSE PlanLength
  <2>2. pilot'.stored = SubSeq(pilot.stored, 1, n) /\ pilot'.awaits = 0
        /\ pilot'.count = PlanLength
    BY <1>5, <2>1 DEF Counts
  <2>3. n \in Nat /\ n <= Len(pilot.stored) /\ n <= PlanLength
    BY <1>1, <1>2
  <2>4. /\ Len(SubSeq(pilot.stored, 1, n)) = n
        /\ \A j \in 1 .. n : SubSeq(pilot.stored, 1, n)[j] = pilot.stored[j]
    BY <1>2, <2>3, SubSeqProperties
  <2>5. NoGap'
    BY <1>1, <2>2, <2>3, <2>4 DEF NoGap
  <2>6. ASSUME NEW i \in Numbers(Plan), Written(i)
        PROVE  Written(i)'
    <3>1. i \in Nat /\ i < n /\ i + 1 \in 1 .. n
      BY <1>1, <1>2, <2>6 DEF Written
    <3> HIDE DEF n
    <3> QED
      BY <1>3, <2>2, <2>3, <2>4, <2>6, <3>1 DEF Written, ItemAt
  <2>7. ~Stores
    BY <1>5 DEF Counts, Stores
  <2> QED
    BY <1>1, <2>2, <2>4, <2>5, <2>6, <2>7
<1>6. CASE Stores
  <2> DEFINE i == Head(up).seq
             x == Head(up).item
  <2>1. i \in Numbers(Plan) /\ x = ItemAt(Plan, i) /\ pilot.awaits = i
    BY <1>4, <1>6 DEF Stores, Own
  <2>2. i \in Nat /\ i < PlanLength /\ x \in Items
    BY <2>1, PlanFacts DEF TypeOK
  <2>3. i <= Len(pilot.stored) /\ Len(pilot.stored) <= pilot.count /\ i < pilot.count
    BY <2>1, <2>2 DEF NoGap
  <2>4. i \in 0 .. Len(pilot.stored)
    BY <1>2, <2>2, <2>3
  <2>5. pilot'.stored = Store(pilot.stored, i, x) /\ pilot'.count = pilot.count
        /\ (\/ i + 1 < pilot.count /\ pilot'.awaits = i + 1
            \/ i + 1 = pilot.count /\ pilot'.awaits = -1)
    BY <1>6 DEF Stores
  <2> HIDE DEF i, x
  <2>6. /\ Len(pilot'.stored) = IF i < Len(pilot.stored) THEN Len(pilot.stored)
                                ELSE Len(pilot.stored) + 1
        /\ ItemAt(pilot'.stored, i) = x
        /\ \A j \in 0 .. Len(pilot.stored) - 1 :
             j # i => ItemAt(pilot'.stored, j) = ItemAt(pilot.stored, j)
    BY <1>2, <2>2, <2>4, <2>5, StoreItem
  <2>7. NoGap'
    BY <1>2, <2>2, <2>3, <2>5, <2>6 DEF NoGap
  <2>8. Len(pilot.stored) = PlanLength => Len(pilot'.stored) = PlanLength
    BY <2>2, <2>6
  <2>9. ASSUME NEW j \in Numbers(Plan), Written(j) \/ j = i
        PROVE  Written(j)'
    <3>1. j < Len(pilot'.stored)
      BY <1>1, <1>2, <2>4, <2>6, <2>9 DEF Written
    <3>2. CASE j = i
      BY <1>3, <2>1, <2>6, <3>1, <3>2 DEF Written
    <3>3. CASE j # i
      <4>1. j \in 0 .. Len(pilot.stored) - 1
        BY <1>1, <1>2, <2>9, <3>3 DEF Written
      <4> QED
        BY <1>3, <2>6, <2>9, <3>1, <3>3, <4>1 DEF Written
    <3> QED
      BY <3>2, <3>3
  <2>10. pilot'.awaits = -1 => Len(pilot'.stored) <= PlanLength
    BY <1>1, <1>2, <2>2, <2>3, <2>5, <2>6
  <2> QED
    BY <2>1, <2>7, <2>8, <2>9, <2>10
<1>7. CASE Leaves /\ ~Stores
  BY <1>2, <1>3, <1>7 DEF Leaves, NoGap, Written
<1> QED
  BY <1>5, <1>6, <1>7, PilotWrites DEF TypeOK

LEMMA CompleteStays ==
  ASSUME TypeOK, TypeOK', OwnMessages, NoGap, PilotStep, mission' = mission, Complete
  PROVE  Complete'
<1>1. Len(pilot.stored) = PlanLength /\ \A i \in Numbers(Plan) : Written(i)
  BY CompleteIs
<1>2. Len(pilot'.stored) = PlanLength /\ \A i \in Numbers(Plan) : Written(i)'
  BY <1>1, StoredStays
<1>3. Plan' = Plan /\ pilot'.stored \in Seq(Items) /\ Plan \in Seq(Items)
      /\ Numbers(Plan) = 0 .. PlanLength - 1
  BY PlanFacts DEF Plan, TypeOK, LinkTypeOK, Pilot
<1>4. pilot'.stored = Plan
  BY <1>2, <1>3, SamePlan DEF Written, PlanLength
<1> QED
  BY <1>3, <1>4 DEF Complete

(* Taking a message leaves the others in their order.                      *)
LEMMA TakenInOrder ==
  ASSUME LinkTypeOK, up' = up \/ (up # << >> /\ up' = Tail(up))
  PROVE  /\ Len(up') \in Nat
         /\ \A i \in 1 .. Len(up') :
              \E k \in 1 .. Len(up) : k >= i /\ up'[i] = up[k]
         /\ \A i, j \in 1 .. Len(up') :
              \E k, n \in 1 .. Len(up) :
                up'[i] = up[k] /\ up'[j] = up[n] /\ (i < j => k < n)
<1>1. up \in Seq(UpMessage) /\ Len(up) \in Nat
  BY PilotFacts
<1>2. CASE up' = up
  BY <1>1, <1>2
<1>3. CASE up # << >> /\ up' = Tail(up)
  <2>1. /\ Len(up') = Len(up) - 1 /\ Len(up) > 0
        /\ \A i \in 1 .. Len(up') : i + 1 \in 1 .. Len(up) /\ up'[i] = up[i + 1]
    BY <1>1, <1>3, EachTaken
  <2> QED
    BY <1>1, <2>1
<1> QED
  BY <1>2, <1>3

LEMMA PilotKeepsMessages ==
  ASSUME PlanInv, AdapterInv', Pilots
  PROVE  OwnMessages' /\ NothingSaid' /\ NoGap' /\ FliesThis'
<1>1. TypeOK /\ TypeOK' /\ LinkTypeOK /\ PilotStep
  BY DEF PlanInv, AdapterInv, TypeOK, Pilots
<1>2. /\ mission' = mission /\ stage' = stage
      /\ Plan' = Plan /\ PlanLength' = PlanLength
  BY DEF Pilots, callerVars, Plan, PlanLength
<1>3. up' = up \/ (up # << >> /\ up' = Tail(up))
  BY <1>1, PilotTakes
<1>4. Complete => Complete'
  BY <1>1, <1>2, CompleteStays DEF PlanInv
<1>5. OwnMessages'
  <2> SUFFICES ASSUME NEW i \in 1 .. Len(up') PROVE Own(up[i])'
    BY DEF OwnMessages
  <2>1. PICK k \in 1 .. Len(up) : up'[i] = up[k]
    BY <1>1, <1>3, TakenInOrder
  <2>2. Own(up[k])
    BY <2>1 DEF PlanInv, OwnMessages
  <2> QED
    BY <1>2, <1>4, <2>1, <2>2 DEF Own
<1>6. NothingSaid'
  <2>1. op = Idle => op' = op
    BY DEF Pilots, Idle
  <2> QED
    BY <1>2, <1>3, <2>1 DEF PlanInv, NothingSaid
<1>7. NoGap'
  BY <1>1, <1>2, StoredStays DEF PlanInv
<1>8. FliesThis'
  <2>1. ASSUME pilot'.flies # NoMission
        PROVE  pilot'.flies = mission /\ Complete
    <3>1. CASE pilot'.flies = pilot.flies
      BY <2>1, <3>1 DEF PlanInv, FliesThis, Flying
    <3>2. CASE up # << >> /\ Head(up).type = "START" /\ pilot'.flies = Head(up).mission
      BY <1>1, <3>2, OwnTaken DEF PlanInv, Own
    <3> QED
      BY <1>1, <2>1, <3>1, <3>2, PilotWrites DEF Counts, Stores, Leaves
  <2> QED
    BY <1>2, <1>4, <2>1 DEF FliesThis, Flying
<1> QED
  BY <1>5, <1>6, <1>7, <1>8

(* What may be asked for once the autopilot has spoken.                    *)
LEMMA RequestsSaid ==
  ASSUME NEW queue \in Seq(DownMessage), NEW m \in DownMessage
  PROVE  /\ RequestsIn(Append(queue, m)) \subseteq
              RequestsIn(queue) \cup (IF m.type = "MISSION_REQUEST" THEN {m.seq} ELSE {})
         /\ AcceptedIn(Append(queue, m)) =>
              AcceptedIn(queue) \/ (m.type = "MISSION_ACK" /\ m.accepted)
<1> DEFINE q == Append(queue, m)
<1>1. \A i \in 1 .. Len(q) :
        \/ i \in 1 .. Len(queue) /\ q[i] = queue[i]
        \/ i = Len(queue) + 1 /\ q[i] = m
  BY EachSent
<1> HIDE DEF q
<1>2. RequestsIn(q) \subseteq RequestsIn(queue) \cup (IF m.type = "MISSION_REQUEST" THEN {m.seq} ELSE {})
  <2> SUFFICES ASSUME NEW i \in 1 .. Len(q), q[i].type = "MISSION_REQUEST"
               PROVE  q[i].seq \in RequestsIn(queue) \cup
                                   (IF m.type = "MISSION_REQUEST" THEN {m.seq} ELSE {})
    BY DEF RequestsIn
  <2>1. CASE i \in 1 .. Len(queue) /\ q[i] = queue[i]
    BY <2>1 DEF RequestsIn
  <2>2. CASE q[i] = m
    BY <2>2
  <2> QED
    BY <1>1, <2>1, <2>2
<1>3. AcceptedIn(q) => AcceptedIn(queue) \/ (m.type = "MISSION_ACK" /\ m.accepted)
  BY <1>1 DEF AcceptedIn
<1> QED
  BY <1>2, <1>3 DEF q

LEMMA PilotKeepsServed ==
  ASSUME PlanInv, AdapterInv', Pilots
  PROVE  AnnouncedFirst' /\ Served'
<1>1. TypeOK /\ LinkTypeOK /\ PilotStep
  BY DEF PlanInv, AdapterInv, TypeOK, Pilots
<1>2. /\ mission' = mission /\ Plan' = Plan /\ PlanLength' = PlanLength
      /\ Numbers(Plan)' = Numbers(Plan)
  BY DEF Pilots, callerVars, Plan, PlanLength
<1>3. up' = up \/ (up # << >> /\ up' = Tail(up))
  BY <1>1, PilotTakes
<1>4. SUFFICES ASSUME op'.name = "upload" PROVE AnnouncedFirst' /\ Served'
  BY DEF AnnouncedFirst, Served
<1>5. op' = op /\ op.name = "upload"
  <2>1. op.name # "arm" => op' = op
    BY DEF Pilots
  <2>2. op.name = "arm" => op'.name = "arm"
    BY <1>1, OperationFields DEF Pilots, TypeOK, ArmOps
  <2> QED
    BY <1>4, <2>1, <2>2
<1>6. /\ PlanLength \in Nat /\ pilot.awaits \in Int /\ pilot.count \in Nat
      /\ Numbers(Plan) = 0 .. PlanLength - 1
  BY <1>1, PlanFacts, PilotFacts DEF TypeOK
<1>7. /\ NoGap' /\ OwnMessages /\ NoGap
      /\ \A i \in Numbers(Plan) : Written(i) => Written(i)'
      /\ Stores => /\ pilot.awaits \in Numbers(Plan)
                   /\ \A i : i = pilot.awaits => Written(i)'
                   /\ pilot'.awaits = -1 => Len(pilot'.stored) <= PlanLength
  BY <1>1, <1>2, StoredStays DEF PlanInv
<1>8. AnnouncedFirst'
  <2>1. /\ \A i, j \in 1 .. Len(up) : i < j /\ up[i].type = "ITEM" => up[j].type # "COUNT"
        /\ op.last = -1 => ~OnTheWay("ITEM")
    BY <1>5 DEF PlanInv, AnnouncedFirst
  <2>2. ASSUME NEW i \in 1 .. Len(up'), NEW j \in 1 .. Len(up'), i < j, up'[i].type = "ITEM"
        PROVE  up'[j].type # "COUNT"
    <3>1. PICK k, n \in 1 .. Len(up) : up'[i] = up[k] /\ up'[j] = up[n] /\ (i < j => k < n)
      BY <1>1, <1>3, TakenInOrder
    <3> QED
      BY <2>1, <2>2, <3>1
  <2>3. OnTheWay("ITEM")' => OnTheWay("ITEM")
    BY <1>1, <1>3, TakenInOrder DEF OnTheWay
  <2> QED
    BY <1>5, <2>1, <2>2, <2>3 DEF AnnouncedFirst
<1>9. OnTheWay("COUNT")' => OnTheWay("COUNT")
  BY <1>1, <1>3, TakenInOrder DEF OnTheWay
<1>10. Speaks /\ down \in Seq(DownMessage)
  BY <1>1, PilotSays DEF LinkTypeOK
<1>11. Requested' \subseteq Requested \cup ({pilot'.awaits} \cap 0 .. PlanLength - 1)
  <2>1. CASE down' = down
    BY <1>2, <1>5, <2>1 DEF Requested
  <2>2. ASSUME NEW m \in DownMessage, Says(m), down' = Append(down, m)
        PROVE  Requested' \subseteq Requested \cup ({pilot'.awaits} \cap 0 .. PlanLength - 1)
    <3>1. RequestsIn(down') \subseteq RequestsIn(down) \cup {pilot'.awaits}
      BY <1>10, <2>2, RequestsSaid DEF Says
    <3> QED
      BY <1>2, <1>5, <1>6, <3>1 DEF Requested
  <2> QED
    BY <1>10, <2>1, <2>2 DEF Speaks
<1>12. ASSUME NEW i \in Requested'
       PROVE  i < pilot'.count /\ (pilot'.awaits >= 0 => i >= pilot'.awaits \/ Written(i)')
  <2>1. i \in Numbers(Plan) /\ i \in Nat /\ i < PlanLength
    BY <1>2, <1>6, <1>12 DEF Requested
  <2>2. CASE i = pilot'.awaits
    BY <1>7, <2>1, <2>2 DEF NoGap
  <2>3. CASE i \in Requested
    <3>1. i < pilot.count /\ (pilot.awaits >= 0 => i >= pilot.awaits \/ Written(i))
      BY <1>5, <2>3 DEF PlanInv, Served
    <3>2. CASE Counts
      <4>1. Head(up).count = PlanLength
        BY <1>1, <1>7, <3>2, OwnTaken DEF Counts, Own
      <4> QED
        BY <2>1, <3>2, <4>1 DEF Counts
    <3>3. CASE Stores
      <4>1. pilot'.awaits \in {pilot.awaits + 1, -1} /\ pilot'.count = pilot.count
            /\ pilot.awaits >= 0
        BY <1>6, <1>7, <3>3 DEF Stores
      <4> QED
        BY <1>6, <1>7, <2>1, <3>1, <3>3, <4>1
    <3>4. CASE Leaves
      BY <1>6, <1>7, <2>1, <3>1, <3>4 DEF Leaves
    <3> QED
      BY <1>1, <3>2, <3>3, <3>4, PilotWrites
  <2> QED
    BY <1>11, <1>12, <2>2, <2>3
<1>13. ASSUME AcceptedIn(down')
       PROVE  /\ pilot'.awaits = -1 /\ ~OnTheWay("COUNT")' /\ op'.last # -1
              /\ Len(pilot'.stored) <= PlanLength
              /\ \A i \in Requested' : Written(i)'
  <2>1. CASE AcceptedIn(down)
    <3>1. /\ pilot.awaits = -1 /\ ~OnTheWay("COUNT") /\ op.last # -1
          /\ Len(pilot.stored) <= PlanLength
          /\ \A i \in Requested : Written(i)
      BY <1>5, <2>1 DEF PlanInv, Served
    <3>2. ~Counts
      <4>1. Counts => 1 \in 1 .. Len(up) /\ Head(up) = up[1]
        BY <1>1, EachTaken DEF Counts, LinkTypeOK
      <4> QED
        BY <3>1, <4>1 DEF Counts, OnTheWay
    <3>3. ~Stores
      BY <1>6, <1>7, <3>1
    <3>4. pilot'.awaits = -1 /\ pilot'.stored = pilot.stored
      BY <1>1, <3>1, <3>2, <3>3, PilotWrites DEF Leaves
    <3>5. Requested' \subseteq Requested
      BY <1>11, <3>4
    <3> QED
      BY <1>2, <1>5, <1>9, <3>1, <3>4, <3>5 DEF Written
  <2>2. CASE ~AcceptedIn(down)
    <3>1. Stores /\ pilot'.awaits = -1 /\ up' = Tail(up)
      <4>1. PICK m \in DownMessage : Says(m) /\ down' = Append(down, m)
        BY <1>10, <1>13, <2>2 DEF Speaks
      <4> QED
        BY <1>10, <1>13, <2>2, <4>1, RequestsSaid DEF Says
    <3>2. /\ Len(up) \in Nat /\ 1 \in 1 .. Len(up) /\ up[1].type = "ITEM"
          /\ Len(Tail(up)) = Len(up) - 1
          /\ \A i \in 1 .. Len(Tail(up)) : i + 1 \in 1 .. Len(up) /\ Tail(up)[i] = up[i + 1]
      BY <1>1, <3>1, EachTaken DEF Stores, LinkTypeOK
    <3>3. ~OnTheWay("COUNT")'
      <4> SUFFICES ASSUME NEW i \in 1 .. Len(up') PROVE up'[i].type # "COUNT"
        BY DEF OnTheWay
      <4>1. up'[i] = up[i + 1] /\ i + 1 \in 1 .. Len(up) /\ 1 < i + 1
        BY <3>1, <3>2
      <4> QED
        BY <1>5, <3>2, <4>1 DEF PlanInv, AnnouncedFirst
    <3>4. op'.last # -1
      BY <1>5, <3>2 DEF PlanInv, AnnouncedFirst, OnTheWay
    <3>5. ASSUME NEW i \in Requested' PROVE Written(i)'
      <4>1. i \in Requested /\ i \in Numbers(Plan) /\ i \in Nat
        BY <1>2, <1>6, <1>11, <3>1, <3>5 DEF Requested
      <4>2. i < pilot.count /\ (i >= pilot.awaits \/ Written(i))
        BY <1>5, <1>6, <1>7, <3>1, <4>1 DEF PlanInv, Served
      <4>3. pilot.awaits + 1 = pilot.count
        BY <1>6, <1>7, <3>1 DEF Stores
      <4> QED
        BY <1>6, <1>7, <3>1, <4>1, <4>2, <4>3
    <3> QED
      BY <1>7, <3>1, <3>3, <3>4, <3>5
  <2> QED
    BY <2>1, <2>2
<1>14. Served'
  BY <1>2, <1>12, <1>13 DEF Served
<1> QED
  BY <1>8, <1>14

LEMMA PilotKeepsReading ==
  ASSUME PlanInv, AdapterInv', Pilots
  PROVE  ReadTruly'
<1>1. TypeOK /\ TypeOK' /\ LinkTypeOK /\ PilotStep
  BY DEF PlanInv, AdapterInv, TypeOK, Pilots
<1>2. /\ mission' = mission /\ stage' = stage /\ Plan' = Plan /\ PlanLength' = PlanLength
      /\ Numbers(Plan)' = Numbers(Plan)
  BY DEF Pilots, callerVars, Plan, PlanLength
<1>3. SUFFICES ASSUME Reading' PROVE ReadTruly'
  BY DEF ReadTruly
<1>4. op' = op /\ Reading
  <2>1. op.name = "arm" => op'.name = "arm"
    BY <1>1, OperationFields DEF Pilots, TypeOK, ArmOps
  <2>2. op.name # "arm" => op' = op
    BY DEF Pilots
  <2> QED
    BY <1>2, <1>3, <2>1, <2>2 DEF Reading
<1>5. /\ PlanLength \in Nat /\ Numbers(Plan) = 0 .. PlanLength - 1
      /\ \A i \in Numbers(Plan) : i \in Nat /\ i < PlanLength
  BY <1>1, PlanFacts DEF TypeOK
<1>6. /\ Len(pilot.stored) = PlanLength => Len(pilot'.stored) = PlanLength
      /\ \A i \in Numbers(Plan) : Written(i) => Written(i)'
  BY <1>1, <1>2, StoredStays DEF PlanInv
<1>7. ASSUME NEW m, ToldTruly(m)
      PROVE  ToldTruly(m)'
  BY <1>2, <1>6, <1>7 DEF ToldTruly
<1>8. /\ \A i \in 1 .. Len(down) : ToldTruly(down[i])
      /\ op.next >= 0 => Len(pilot.stored) = PlanLength /\ \A i \in 0 .. op.next - 1 : Written(i)
  BY <1>4 DEF PlanInv, ReadTruly
<1>9. ASSUME NEW m \in DownMessage, Says(m)
      PROVE  ToldTruly(m)'
  <2>1. m.type = "MISSION_COUNT" /\ m.count = PlanLength => Len(pilot'.stored) = PlanLength
    BY <1>9 DEF Says
  <2>2. ASSUME m.type = "MISSION_ITEM", m.seq \in Numbers(Plan), m.item = ItemAt(Plan, m.seq)
        PROVE  Written(m.seq)
    <3>1. m.seq \in Numbers(pilot.stored) /\ m.item = ItemAt(pilot.stored, m.seq)
      BY <1>9, <2>2 DEF Says
    <3>2. m.seq < Len(pilot.stored)
      BY <1>1, <3>1, PilotFacts DEF Numbers
    <3> QED
      BY <2>2, <3>1, <3>2 DEF Written
  <2> QED
    BY <1>2, <1>6, <2>1, <2>2 DEF ToldTruly
<1>10. \A i \in 1 .. Len(down') : ToldTruly(down[i])'
  <2> SUFFICES ASSUME NEW i \in 1 .. Len(down') PROVE ToldTruly(down[i])'
    OBVIOUS
  <2>1. \/ i \in 1 .. Len(down) /\ down'[i] = down[i]
        \/ \E m \in DownMessage : Says(m) /\ down'[i] = m
    <3>1. CASE down' = down
      BY <3>1
    <3>2. ASSUME NEW m \in DownMessage, Says(m), down' = Append(down, m)
          PROVE  (i \in 1 .. Len(down) /\ down'[i] = down[i]) \/ down'[i] = m
      BY <1>1, <3>2, EachSent DEF LinkTypeOK
    <3> QED
      BY <1>1, <3>1, <3>2, PilotSays DEF Speaks
  <2>2. PICK m : m = down'[i] /\ ToldTruly(m)'
    <3>1. CASE i \in 1 .. Len(down) /\ down'[i] = down[i]
      <4>1. PICK m : m = down[i]
        OBVIOUS
      <4>2. ToldTruly(m)'
        BY <1>7, <1>8, <3>1, <4>1
      <4> QED
        BY <3>1, <4>1, <4>2
    <3>2. CASE \E m \in DownMessage : Says(m) /\ down'[i] = m
      BY <1>9, <3>2
    <3> QED
      BY <2>1, <3>1, <3>2
  <2> QED
    BY <2>2 DEF ToldTruly
<1>11. op'.next >= 0 => /\ Len(pilot'.stored) = PlanLength
                        /\ \A i \in 0 .. op'.next - 1 : Written(i)'
  <2>1. op \in ReadbackOp /\ op.next \in {-1} \cup Numbers(Plan)
    BY <1>1, <1>4, OperationFields DEF Reading, TypeOK, PlanInv, AdapterInv, InPlan
  <2>2. op.next >= 0 => 0 .. op.next - 1 \subseteq Numbers(Plan)
    BY <1>5, <2>1
  <2> QED
    BY <1>4, <1>6, <1>8, <2>2
<1> QED
  BY <1>2, <1>10, <1>11 DEF ReadTruly

LEMMA PilotKeepsPlan ==
  ASSUME PlanInv, AdapterInv', Pilots
  PROVE  PlanInv'
  BY PilotKeepsMessages, PilotKeepsServed, PilotKeepsReading DEF PlanInv

(* What the adapter sends is about its mission.                            *)
LEMMA OwnSent ==
  ASSUME LinkTypeOK, OwnMessages, NEW m \in UpMessage, Own(m), up' \in Sent(up, m),
         UNCHANGED <<pilot, mission>>
  PROVE  OwnMessages'
<1>1. Plan' = Plan /\ PlanLength' = PlanLength
  BY DEF Plan, PlanLength
<1>2. ASSUME NEW i \in 1 .. Len(up')
      PROVE  Own(up'[i])
  <2>1. (i \in 1 .. Len(up) /\ up'[i] = up[i]) \/ up'[i] = m
    BY EachSent DEF LinkTypeOK
  <2> QED
    BY <2>1 DEF OwnMessages
<1>3. ASSUME NEW i \in 1 .. Len(up')
      PROVE  Own(up[i])'
  BY <1>1, <1>2 DEF Own, Complete
<1> QED
  BY <1>3 DEF OwnMessages

LEMMA OwnKept ==
  ASSUME OwnMessages, UNCHANGED <<up, pilot, mission>>
  PROVE  OwnMessages'
<1>1. Plan' = Plan /\ PlanLength' = PlanLength
  BY DEF Plan, PlanLength
<1> QED
  BY <1>1 DEF OwnMessages, Own, Complete

(* Between the transfer and the readbacks, the plan is out of reach.       *)
LEMMA StaysOut ==
  ASSUME PlanInv, AdapterInv', OwnMessages', UNCHANGED <<pilot, mission>>,
         op'.name \notin {"upload", "verify", "start"}, NothingSaid'
  PROVE  PlanInv'
<1>1. NoGap' /\ FliesThis'
  BY DEF PlanInv, NoGap, FliesThis, Flying, Complete, Plan
<1>2. AnnouncedFirst' /\ Served' /\ ReadTruly'
  BY DEF AnnouncedFirst, Served, ReadTruly, Reading
<1> QED
  BY <1>1, <1>2 DEF PlanInv

LEMMA ArmKeepsPlan ==
  ASSUME PlanInv, AdapterInv', BeginArm \/ ArmReceiveHeartbeat \/ ArmReceiveAck \/ ArmTimeout
  PROVE  PlanInv'
<1>1. LinkTypeOK /\ op \in Operation /\ mission' = mission /\ pilot' = pilot
  BY DEF PlanInv, AdapterInv, TypeOK, BeginArm, ArmReceiveHeartbeat, ArmReceiveAck, ArmTimeout
<1>2. op'.name \in {"idle", "arm"} /\ stage \in Stage \ {"claimed"} /\ stage' # "claimed"
  <2>1. Idle.name = "idle" /\ \A n : ArmOp(n).name = "arm"
    BY DEF Idle, ArmOp
  <2>2. op.name = "arm" => op \in ArmOps /\ stage = "verified"
    BY <1>1, OperationFields DEF PlanInv, AdapterInv, Unconfirmed
  <2>3. CASE BeginArm
    BY <2>1, <2>3 DEF BeginArm, Return, Stage
  <2>4. CASE ArmReceiveHeartbeat
    BY <2>1, <2>2, <2>4 DEF ArmReceiveHeartbeat, Receive, Return, Stage, ArmOps
  <2>5. CASE ArmReceiveAck
    BY <2>1, <2>2, <2>5 DEF ArmReceiveAck, Receive, Return, Fail, Stage, ArmOps
  <2>6. CASE ArmTimeout
    BY <2>1, <2>2, <2>6 DEF ArmTimeout, Fail, Stage, ArmOps
  <2> QED
    BY <2>3, <2>4, <2>5, <2>6
<1>3. up' = up \/ SendArm
  BY DEF BeginArm, ArmReceiveHeartbeat, ArmReceiveAck, ArmTimeout
<1>4. OwnMessages'
  <2>1. [type |-> "ARM"] \in UpMessage /\ Own([type |-> "ARM"])
    BY UpMessages DEF Own
  <2> QED
    BY <1>1, <1>3, <2>1, OwnSent, OwnKept DEF PlanInv, SendArm, Send
<1> QED
  BY <1>1, <1>2, <1>4, StaysOut DEF NothingSaid

LEMMA BetweenKeepsPlan ==
  ASSUME PlanInv, AdapterInv',
         Drain \/ Reconnect \/ Restart \/ NextMission \/ ForeignWrite \/ Deadline \/ CommandReceive
  PROVE  PlanInv'
<1>1. LinkTypeOK /\ Idle.name = "idle" /\ NothingSaid
  BY DEF PlanInv, AdapterInv, TypeOK, Idle
<1>2. CASE Drain \/ Reconnect \/ Restart \/ Deadline
  <2>1. /\ UNCHANGED <<up, pilot, mission>> /\ op' = Idle
        /\ stage' = "claimed" => stage = "claimed"
    BY <1>2 DEF Drain, Reconnect, Restart, Deadline, Fail, callerVars, linkVars
  <2> QED
    BY <1>1, <2>1, OwnKept, StaysOut DEF NothingSaid, PlanInv
<1>3. CASE CommandReceive
  <2>1. UNCHANGED <<up, pilot, mission>>
    BY <1>3 DEF CommandReceive
  <2>2. /\ op'.name \in {"idle", "command"}
        /\ stage' = "claimed" => stage = "claimed"
    BY <1>1, <1>3 DEF CommandReceive, Receive, Return, Fail
  <2>3. op.name = "command"
    BY <1>3 DEF CommandReceive, Receive
  <2> QED
    BY <1>1, <2>1, <2>2, <2>3, OwnKept, StaysOut DEF NothingSaid, PlanInv
<1>4. CASE NextMission
  <2>1. /\ op' = Idle /\ op = Idle /\ up' = << >> /\ pilot' = pilot /\ ~Flying
    BY <1>4 DEF NextMission, linkVars, adapterVars
  <2>2. OwnMessages' /\ NothingSaid'
    BY <2>1, EmptySeq DEF OwnMessages, NothingSaid
  <2>3. NoGap' /\ FliesThis'
    BY <2>1 DEF PlanInv, NoGap, FliesThis, Flying
  <2>4. AnnouncedFirst' /\ Served' /\ ReadTruly'
    BY <1>1, <2>1 DEF AnnouncedFirst, Served, ReadTruly, Reading
  <2> QED
    BY <2>2, <2>3, <2>4 DEF PlanInv
<1>5. CASE ForeignWrite
  <2>1. /\ op' = Idle /\ op = Idle /\ up' = << >> /\ ~Flying /\ pilot.awaits = -1
        /\ UNCHANGED <<mission, stage>>
    BY <1>5 DEF ForeignWrite, adapterVars, callerVars
  <2>2. pilot'.awaits = -1 /\ pilot'.flies = pilot.flies
    BY <1>1, <1>5, <2>1 DEF ForeignWrite, LinkTypeOK, Pilot
  <2>3. OwnMessages' /\ NothingSaid'
    BY <2>1, EmptySeq DEF OwnMessages, NothingSaid
  <2>4. NoGap' /\ FliesThis'
    BY <2>1, <2>2 DEF NoGap, FliesThis, Flying
  <2>5. AnnouncedFirst' /\ Served' /\ ReadTruly'
    BY <1>1, <2>1 DEF AnnouncedFirst, Served, ReadTruly, Reading
  <2> QED
    BY <2>3, <2>4, <2>5 DEF PlanInv
<1> QED
  BY <1>2, <1>3, <1>4, <1>5

LEMMA RequestsTaken ==
  ASSUME NEW queue \in Seq(DownMessage), queue # << >>
  PROVE  /\ RequestsIn(Tail(queue)) \subseteq RequestsIn(queue)
         /\ Head(queue).type = "MISSION_REQUEST" => Head(queue).seq \in RequestsIn(queue)
         /\ AcceptedIn(Tail(queue)) => AcceptedIn(queue)
         /\ Head(queue).type = "MISSION_ACK" /\ Head(queue).accepted => AcceptedIn(queue)
<1>1. /\ 1 \in 1 .. Len(queue) /\ Head(queue) = queue[1]
      /\ \A i \in 1 .. Len(Tail(queue)) :
           i + 1 \in 1 .. Len(queue) /\ Tail(queue)[i] = queue[i + 1]
  BY EachTaken
<1>2. RequestsIn(Tail(queue)) \subseteq RequestsIn(queue)
  <2> SUFFICES ASSUME NEW i \in 1 .. Len(Tail(queue)), Tail(queue)[i].type = "MISSION_REQUEST"
               PROVE  Tail(queue)[i].seq \in RequestsIn(queue)
    BY DEF RequestsIn
  <2> QED
    BY <1>1 DEF RequestsIn
<1>3. Head(queue).type = "MISSION_REQUEST" => Head(queue).seq \in RequestsIn(queue)
  BY <1>1 DEF RequestsIn
<1>4. /\ AcceptedIn(Tail(queue)) => AcceptedIn(queue)
      /\ Head(queue).type = "MISSION_ACK" /\ Head(queue).accepted => AcceptedIn(queue)
  BY <1>1 DEF AcceptedIn
<1> QED
  BY <1>2, <1>3, <1>4

(* A transfer that goes on sends its items after its announcement.         *)
LEMMA UploadGoesOn ==
  ASSUME PlanInv, AdapterInv', OwnMessages', op.name = "upload", op'.name = "upload",
         UNCHANGED <<pilot, mission, stage>>,
         Requested' \subseteq Requested, AcceptedIn(down') => AcceptedIn(down),
         \/ up' = up /\ op'.last = op.last
         \/ \E m \in UpMessage :
              /\ up' \in Sent(up, m)
              /\ \/ m.type = "ITEM" /\ op'.last # -1
                 \/ m.type = "COUNT" /\ op.last = -1 /\ op'.last = -1
  PROVE  PlanInv'
<1>1. LinkTypeOK /\ mission \in Missions /\ Plan' = Plan /\ PlanLength' = PlanLength
      /\ up \in Seq(UpMessage) /\ Len(up) \in Nat
  BY PilotFacts DEF PlanInv, AdapterInv, TypeOK, Plan, PlanLength
<1>2. NoGap' /\ FliesThis' /\ ReadTruly' /\ NothingSaid'
  <2>1. Idle.name # "upload"
    BY DEF Idle
  <2> QED
    BY <1>1, <2>1
       DEF PlanInv, NoGap, FliesThis, Flying, Complete, ReadTruly, Reading, NothingSaid
<1>3. /\ \A i, j \in 1 .. Len(up) : i < j /\ up[i].type = "ITEM" => up[j].type # "COUNT"
      /\ op.last = -1 => ~OnTheWay("ITEM")
  BY DEF PlanInv, AnnouncedFirst
<1>4. CASE up' = up /\ op'.last = op.last
  <2>1. AnnouncedFirst'
    BY <1>3, <1>4 DEF AnnouncedFirst, OnTheWay
  <2>2. Served'
    BY <1>1, <1>4 DEF PlanInv, Served, OnTheWay, Written
  <2> QED
    BY <1>2, <2>1, <2>2 DEF PlanInv
<1>5. ASSUME NEW m \in UpMessage, up' \in Sent(up, m),
             \/ m.type = "ITEM" /\ op'.last # -1
             \/ m.type = "COUNT" /\ op.last = -1 /\ op'.last = -1
      PROVE  PlanInv'
  <2>1. \A i \in 1 .. Len(up') :
          \/ i \in 1 .. Len(up) /\ up'[i] = up[i]
          \/ i = Len(up) + 1 /\ up'[i] = m
    BY <1>1, <1>5, EachSent
  <2>2. AnnouncedFirst'
    <3>1. op'.last = -1 => ~OnTheWay("ITEM")'
      BY <1>3, <1>5, <2>1 DEF OnTheWay
    <3>2. ASSUME NEW i \in 1 .. Len(up'), NEW j \in 1 .. Len(up'), i < j, up'[i].type = "ITEM"
          PROVE  up'[j].type # "COUNT"
      <4>1. i \in 1 .. Len(up) /\ up'[i] = up[i]
        <5>1. j \in Int /\ j <= Len(up) + 1
          BY <1>1, <2>1
        <5> QED
          BY <1>1, <2>1, <3>2, <5>1
      <4>2. CASE j \in 1 .. Len(up) /\ up'[j] = up[j]
        BY <1>3, <3>2, <4>1, <4>2
      <4>3. CASE up'[j] = m
        <5>1. op.last # -1
          BY <1>3, <3>2, <4>1 DEF OnTheWay
        <5> QED
          BY <1>5, <4>3, <5>1
      <4> QED
        BY <2>1, <4>2, <4>3
    <3> QED
      BY <3>1, <3>2 DEF AnnouncedFirst
  <2>3. ASSUME AcceptedIn(down)
        PROVE  ~OnTheWay("COUNT")' /\ op'.last # -1
    <3>1. ~OnTheWay("COUNT") /\ op.last # -1
      BY <2>3 DEF PlanInv, Served
    <3> QED
      BY <1>5, <2>1, <3>1 DEF OnTheWay
  <2>4. Served'
    BY <1>1, <2>3 DEF PlanInv, Served, Written
  <2> QED
    BY <1>2, <2>2, <2>4 DEF PlanInv
<1> QED
  BY <1>4, <1>5

(* Items and counts of the mission, as they are sent.                      *)
LEMMA OwnItems ==
  ASSUME mission \in Missions
  PROVE  /\ [type |-> "COUNT", count |-> Len(Plan)] \in UpMessage
         /\ Own([type |-> "COUNT", count |-> Len(Plan)])
         /\ \A i \in Numbers(Plan) :
              /\ [type |-> "ITEM", seq |-> i, item |-> ItemAt(Plan, i)] \in UpMessage
              /\ Own([type |-> "ITEM", seq |-> i, item |-> ItemAt(Plan, i)])
<1>1. [type |-> "COUNT", count |-> Len(Plan)] \in UpMessage
  BY PlanFacts, UpMessages DEF PlanLength
<1>2. \A i \in Numbers(Plan) : [type |-> "ITEM", seq |-> i, item |-> ItemAt(Plan, i)] \in UpMessage
  BY PlanFacts, UpMessages
<1>3. Own([type |-> "COUNT", count |-> Len(Plan)])
  BY DEF Own, PlanLength
<1>4. \A i \in Numbers(Plan) : Own([type |-> "ITEM", seq |-> i, item |-> ItemAt(Plan, i)])
  BY DEF Own
<1> QED
  BY <1>1, <1>2, <1>3, <1>4

LEMMA UploadKeepsPlan ==
  ASSUME PlanInv, AdapterInv', BeginUpload \/ UploadReceive \/ UploadTimeout
  PROVE  PlanInv'
<1>1. /\ LinkTypeOK /\ mission \in Missions /\ op \in Operation
      /\ down \in Seq(DownMessage) /\ up \in Seq(UpMessage)
      /\ OwnMessages /\ NothingSaid /\ Idle.name = "idle"
  BY DEF PlanInv, AdapterInv, TypeOK, LinkTypeOK, Idle
<1>2. UNCHANGED <<pilot, mission>> /\ Plan' = Plan /\ PlanLength' = PlanLength
  BY DEF BeginUpload, UploadReceive, UploadTimeout, Plan, PlanLength
<1>3. \A i \in Numbers(Plan) : i # -1
  BY <1>1, PlanFacts
<1>4. \A i \in Numbers(Plan) : SendItem(i) =>
        \E m \in UpMessage : m.type = "ITEM" /\ Own(m) /\ up' \in Sent(up, m)
  BY <1>1, OwnItems DEF SendItem, Send
<1>5. SendCount => \E m \in UpMessage : m.type = "COUNT" /\ Own(m) /\ up' \in Sent(up, m)
  BY <1>1, OwnItems DEF SendCount, Send
<1>6. CASE BeginUpload
  <2>1. /\ stage = "claimed" /\ stage' = "sent" /\ up = << >> /\ down' = << >> /\ SendCount
        /\ op'.name = "upload" /\ op'.served = {}
    BY <1>1, <1>6 DEF BeginUpload, DrainMessages, NothingSaid
  <2>2. PICK m \in UpMessage : m.type = "COUNT" /\ Own(m) /\ up' \in Sent(up, m)
    BY <1>5, <2>1
  <2>3. \A i \in 1 .. Len(up') : up'[i].type = "COUNT"
    <3>1. \A i \in 1 .. Len(up') : i \in 1 .. Len(up) \/ up'[i] = m
      BY <1>1, <2>2, EachSent
    <3> QED
      BY <2>1, <2>2, <3>1, EmptySeq
  <2>4. OwnMessages'
    BY <1>1, <1>2, <2>2, OwnSent
  <2>5. AnnouncedFirst'
    BY <2>3 DEF AnnouncedFirst, OnTheWay
  <2>6. Served'
    BY <2>1, EmptySeq DEF Served, Requested, RequestsIn, AcceptedIn
  <2>7. NothingSaid' /\ ReadTruly'
    BY <2>1 DEF NothingSaid, ReadTruly, Reading
  <2>8. NoGap' /\ FliesThis'
    BY <1>2 DEF PlanInv, NoGap, FliesThis, Flying, Complete
  <2> QED
    BY <2>4, <2>5, <2>6, <2>7, <2>8 DEF PlanInv
<1>7. CASE UploadReceive
  <2>1. op \in UploadOp /\ op.name = "upload" /\ down # << >> /\ down' = Tail(down)
    BY <1>1, <1>7, OperationFields DEF UploadReceive, Receive
  <2>2. stage # "claimed"
    BY <1>1, <2>1 DEF NothingSaid
  <2>3. CASE UNCHANGED <<up, op, stage>>
    <3>1. Requested' \subseteq Requested /\ (AcceptedIn(down') => AcceptedIn(down))
      BY <1>1, <1>2, <2>1, <2>3, RequestsTaken DEF Requested
    <3>2. OwnMessages'
      BY <1>1, <1>2, <2>3, OwnKept
    <3> QED
      BY <1>2, <2>1, <2>3, <3>1, <3>2, UploadGoesOn
  <2>4. CASE /\ Received.type = "MISSION_REQUEST" /\ Received.seq \in Numbers(Plan)
             /\ op' = [op EXCEPT !.served = @ \cup {Received.seq},
                                 !.last = Received.seq, !.tries = 0]
             /\ SendItem(Received.seq)
             /\ UNCHANGED stage
    <3> DEFINE i == Received.seq
    <3>1. /\ op'.name = "upload" /\ op'.last = i /\ op'.served = op.served \cup {i}
      BY <2>1, <2>4 DEF UploadOp
    <3>2. PICK m \in UpMessage : m.type = "ITEM" /\ Own(m) /\ up' \in Sent(up, m)
      BY <1>4, <2>4
    <3>3. OwnMessages'
      BY <1>1, <1>2, <3>2, OwnSent
    <3>4. Requested' \subseteq Requested /\ (AcceptedIn(down') => AcceptedIn(down))
      BY <1>1, <1>2, <2>1, <2>4, <3>1, RequestsTaken DEF Requested, Received
    <3>5. op'.last # -1
      BY <1>3, <2>4, <3>1
    <3> QED
      BY <1>2, <2>1, <2>4, <3>1, <3>2, <3>3, <3>4, <3>5, UploadGoesOn
  <2>5. CASE op' = Idle /\ UNCHANGED up /\ stage' \in {stage, "uploaded"}
    <3>1. OwnMessages' /\ NothingSaid'
      BY <1>1, <1>2, <2>2, <2>5, OwnKept DEF NothingSaid
    <3> QED
      BY <1>1, <1>2, <2>5, <3>1, StaysOut
  <2> QED
    BY <1>7, <2>3, <2>4, <2>5 DEF UploadReceive, Fail, Return
<1>8. CASE UploadTimeout
  <2>1. op \in UploadOp /\ op.name = "upload" /\ op.last \in {-1} \cup Numbers(Plan)
        /\ down' = down
    BY <1>1, <1>8, OperationFields DEF UploadTimeout, PlanInv, AdapterInv, InPlan
  <2>2. stage # "claimed"
    BY <1>1, <2>1 DEF NothingSaid
  <2>3. CASE TriesLeft
    <3>1. /\ op' = [op EXCEPT !.tries = @ + 1] /\ UNCHANGED stage
          /\ IF op.last = -1 THEN SendCount ELSE SendItem(op.last)
      BY <1>8, <2>3 DEF UploadTimeout
    <3>2. op'.name = "upload" /\ op'.last = op.last /\ op'.served = op.served
      BY <2>1, <3>1 DEF UploadOp
    <3>3. PICK m \in UpMessage : /\ Own(m) /\ up' \in Sent(up, m)
                                 /\ \/ m.type = "ITEM" /\ op.last # -1
                                    \/ m.type = "COUNT" /\ op.last = -1
      BY <1>4, <1>5, <2>1, <3>1
    <3>4. OwnMessages'
      BY <1>1, <1>2, <3>3, OwnSent
    <3>5. Requested' \subseteq Requested /\ (AcceptedIn(down') => AcceptedIn(down))
      BY <1>2, <2>1, <3>2 DEF Requested
    <3> QED
      BY <1>2, <2>1, <3>1, <3>2, <3>3, <3>4, <3>5, UploadGoesOn
  <2>4. CASE ~TriesLeft
    <3>1. op' = Idle /\ UNCHANGED <<up, stage>>
      BY <1>8, <2>4 DEF UploadTimeout, Fail
    <3>2. OwnMessages' /\ NothingSaid'
      BY <1>1, <1>2, <2>2, <3>1, OwnKept DEF NothingSaid
    <3> QED
      BY <1>1, <1>2, <3>1, <3>2, StaysOut
  <2> QED
    BY <2>3, <2>4
<1> QED
  BY <1>6, <1>7, <1>8

(* A readback goes on with what it was told truly.                         *)
LEMMA ReadGoesOn ==
  ASSUME PlanInv, AdapterInv', OwnMessages', UNCHANGED <<pilot, mission>>,
         op'.name \in {"verify", "start"}, stage' # "claimed",
         Reading' => /\ \A i \in 1 .. Len(down') : ToldTruly(down'[i])
                     /\ op'.next >= 0 => /\ Len(pilot.stored) = PlanLength
                                         /\ \A i \in 0 .. op'.next - 1 : Written(i)
  PROVE  PlanInv'
<1>1. Plan' = Plan /\ PlanLength' = PlanLength /\ pilot' = pilot
  BY DEF Plan, PlanLength
<1>2. NoGap' /\ FliesThis' /\ NothingSaid'
  BY <1>1 DEF PlanInv, NoGap, FliesThis, Flying, Complete, NothingSaid
<1>3. AnnouncedFirst' /\ Served'
  BY DEF AnnouncedFirst, Served
<1>4. ASSUME NEW m, ToldTruly(m) PROVE ToldTruly(m)'
  BY <1>1, <1>4 DEF ToldTruly, Written
<1>5. ReadTruly'
  <2> SUFFICES ASSUME Reading' PROVE ReadTruly'
    BY DEF ReadTruly
  <2>1. ASSUME NEW i \in 1 .. Len(down') PROVE ToldTruly(down[i])'
    <3>1. PICK m : m = down'[i]
      OBVIOUS
    <3>2. ToldTruly(m)'
      BY <1>4, <2>1, <3>1
    <3> QED
      BY <3>1, <3>2 DEF ToldTruly
  <2>2. op'.next >= 0 => /\ Len(pilot'.stored) = PlanLength'
                         /\ \A i \in 0 .. op'.next - 1 : Written(i)'
    BY <1>1 DEF Written
  <2> QED
    BY <2>1, <2>2 DEF ReadTruly
<1> QED
  BY <1>2, <1>3, <1>5 DEF PlanInv

LEMMA RequestOwn ==
  ASSUME LinkTypeOK, OwnMessages, NEW i \in Nat \cup {-1}, Request(i),
         UNCHANGED <<pilot, mission>>
  PROVE  OwnMessages'
<1>1. [type |-> "REQUEST_LIST"] \in UpMessage /\ Own([type |-> "REQUEST_LIST"])
  BY UpMessages DEF Own
<1>2. i # -1 => [type |-> "REQUEST", seq |-> i] \in UpMessage /\ Own([type |-> "REQUEST", seq |-> i])
  BY UpMessages DEF Own
<1> QED
  BY <1>1, <1>2, OwnSent DEF Request, Send

(* A complete readback has seen the whole plan.                            *)
LEMMA ReadToTheEnd ==
  ASSUME PlanInv, Reading, down # << >>, Answers(Received, op.next),
         AsExpected(Received, op.next)
  PROVE  /\ Len(pilot.stored) = PlanLength
         /\ \A i \in 0 .. op.next : Written(i)
         /\ op.next = LastNumber => Complete
<1>1. /\ TypeOK /\ down \in Seq(DownMessage) /\ op.next \in {-1} \cup Numbers(Plan)
      /\ PlanLength \in Nat /\ PlanLength > 0 /\ Numbers(Plan) = 0 .. PlanLength - 1
      /\ \A i \in Numbers(Plan) : i \in Nat
  BY PlanFacts DEF PlanInv, AdapterInv, TypeOK, LinkTypeOK, InPlan, Reading
<1>2. ToldTruly(Received)
  BY <1>1, EachTaken DEF PlanInv, ReadTruly, Received
<1>3. op.next >= 0 => Len(pilot.stored) = PlanLength /\ \A i \in 0 .. op.next - 1 : Written(i)
  BY DEF PlanInv, ReadTruly
<1>4. CASE op.next = -1
  <2>1. Received.type = "MISSION_COUNT" /\ Received.count = PlanLength
    BY <1>4 DEF Answers, AsExpected, PlanLength
  <2>2. Len(pilot.stored) = PlanLength
    BY <1>2, <2>1 DEF ToldTruly
  <2>3. op.next # LastNumber /\ 0 .. op.next = {}
    BY <1>1, <1>4 DEF LastNumber, PlanLength
  <2> QED
    BY <2>2, <2>3
<1>5. CASE op.next \in Numbers(Plan)
  <2>1. op.next \in Nat /\ op.next # -1
    BY <1>1, <1>5
  <2>2. Received.type = "MISSION_ITEM" /\ Received.seq = op.next
        /\ Received.item = ItemAt(Plan, op.next)
    BY <2>1 DEF Answers, AsExpected
  <2>3. Written(op.next)
    BY <1>2, <1>5, <2>2 DEF ToldTruly
  <2>4. Len(pilot.stored) = PlanLength /\ \A i \in 0 .. op.next : Written(i)
    BY <1>3, <2>1, <2>3
  <2>5. op.next = LastNumber => \A i \in Numbers(Plan) : Written(i)
    BY <1>1, <2>4 DEF LastNumber, PlanLength
  <2> QED
    BY <1>1, <2>4, <2>5, CompleteIs
<1> QED
  BY <1>1, <1>4, <1>5

LEMMA ReadbackKeepsPlan ==
  ASSUME PlanInv, AdapterInv', BeginVerify \/ BeginStart \/ ReadbackReceive \/ ReadbackTimeout
  PROVE  PlanInv'
<1>1. /\ LinkTypeOK /\ mission \in Missions /\ op \in Operation
      /\ down \in Seq(DownMessage)
      /\ OwnMessages /\ NothingSaid /\ Idle.name = "idle"
  BY DEF PlanInv, AdapterInv, TypeOK, LinkTypeOK, Idle
<1>2. UNCHANGED <<pilot, mission>> /\ Plan' = Plan /\ PlanLength' = PlanLength
  BY DEF BeginVerify, BeginStart, ReadbackReceive, ReadbackTimeout, Plan, PlanLength
<1>3. /\ PlanLength \in Nat /\ Numbers(Plan) = 0 .. PlanLength - 1
      /\ Numbers(Plan) \subseteq Nat
  BY <1>1, PlanFacts
<1>4. ASSUME NEW name \in {"verify", "start"}, Readback(name), stage' # "claimed",
             Reading' => down' = << >>
      PROVE  PlanInv'
  <2>1. op'.name = name /\ op'.next = -1 /\ Request(-1)
    BY <1>4 DEF Readback
  <2>2. OwnMessages'
    BY <1>1, <1>2, <2>1, RequestOwn
  <2>3. Reading' => \A i \in 1 .. Len(down') : ToldTruly(down'[i])
    BY <1>4, EmptySeq
  <2> QED
    BY <1>2, <1>4, <2>1, <2>2, <2>3, ReadGoesOn
<1>5. ASSUME op' = Idle, up' = up, stage' # "claimed"
      PROVE  PlanInv'
  BY <1>1, <1>2, <1>5, OwnKept, StaysOut DEF NothingSaid
<1>6. CASE BeginVerify
  <2>1. stage' # "claimed"
    BY <1>6 DEF BeginVerify, Return
  <2>2. CASE Return(IF stage = "sent" THEN "uploaded" ELSE "verified") /\ UNCHANGED up
    BY <1>5, <2>1, <2>2 DEF Return
  <2>3. CASE Readback("verify") /\ UNCHANGED stage
    <3>1. Reading' => down' = << >>
      BY <1>6, <2>3 DEF BeginVerify, Reading, Readback, DrainMessages
    <3> QED
      BY <1>4, <2>1, <2>3, <3>1
  <2> QED
    BY <1>6, <2>2, <2>3 DEF BeginVerify
<1>7. CASE BeginStart
  BY <1>4, <1>7 DEF BeginStart, DrainMessages
<1>8. ASSUME op.name \in {"verify", "start"}
      PROVE  /\ op \in ReadbackOp /\ stage # "claimed"
             /\ op.next \in {-1} \cup Numbers(Plan)
             /\ Reading => \A i \in 1 .. Len(down) : ToldTruly(down[i])
             /\ Reading => (op.next >= 0 => /\ Len(pilot.stored) = PlanLength
                                            /\ \A i \in 0 .. op.next - 1 : Written(i))
  BY <1>1, <1>8, OperationFields DEF PlanInv, AdapterInv, InPlan, NothingSaid, ReadTruly
<1>9. CASE ReadbackReceive
  <2>1. /\ op.name \in {"verify", "start"} /\ down # << >>
        /\ op \in ReadbackOp /\ stage # "claimed"
    BY <1>8, <1>9 DEF ReadbackReceive
  <2>2. Reading /\ down' = Tail(down) => \A i \in 1 .. Len(down') : ToldTruly(down'[i])
    BY <1>1, <1>8, <2>1, EachTaken
  <2>3. CASE down' = Tail(down) /\ UNCHANGED <<up, op, stage>>
    <3>1. OwnMessages'
      BY <1>1, <1>2, <2>3, OwnKept
    <3>2. Reading' => Reading
      BY <2>3 DEF Reading
    <3> QED
      BY <1>2, <1>8, <2>1, <2>2, <2>3, <3>1, <3>2, ReadGoesOn
  <2>4. CASE Fail /\ UNCHANGED up
    BY <1>5, <2>1, <2>4 DEF Fail
  <2>5. CASE /\ Answers(Received, op.next) /\ AsExpected(Received, op.next)
             /\ op.next < LastNumber
             /\ op' = [op EXCEPT !.next = @ + 1, !.tries = 0]
             /\ Request(op.next + 1)
             /\ down' = Tail(down) /\ UNCHANGED stage
    <3>1. op'.name = op.name /\ op'.next = op.next + 1 /\ op.next + 1 \in Nat
      BY <1>3, <1>8, <2>1, <2>5 DEF ReadbackOp
    <3>2. OwnMessages'
      BY <1>1, <1>2, <2>5, <3>1, RequestOwn
    <3>3. Reading' => Reading
      BY <2>5, <3>1 DEF Reading
    <3>4. Reading' => Len(pilot.stored) = PlanLength /\ \A i \in 0 .. op'.next - 1 : Written(i)
      <4>1. 0 .. op'.next - 1 = 0 .. op.next
        BY <1>3, <1>8, <2>1, <3>1
      <4> QED
        BY <2>1, <2>5, <3>3, <4>1, ReadToTheEnd
    <3> QED
      BY <1>2, <2>1, <2>2, <2>5, <3>1, <3>2, <3>3, <3>4, ReadGoesOn
  <2>6. CASE /\ Answers(Received, op.next) /\ AsExpected(Received, op.next)
             /\ op.next = LastNumber /\ CompleteReadback
    <3>1. CASE op.name = "verify"
      BY <1>5, <2>6, <3>1 DEF CompleteReadback, Return
    <3>2. CASE op.name # "verify"
      <4>1. Complete
        BY <2>1, <2>6, <3>2, ReadToTheEnd DEF Reading
      <4>2. [type |-> "START", mission |-> mission] \in UpMessage
            /\ Own([type |-> "START", mission |-> mission])
        BY <1>1, <4>1, UpMessages DEF Own
      <4>3. /\ op'.name = "command" /\ stage' = stage
            /\ up' \in Sent(up, [type |-> "START", mission |-> mission])
        BY <2>6, <3>2 DEF CompleteReadback, Send
      <4>4. OwnMessages'
        BY <1>1, <1>2, <4>2, <4>3, OwnSent
      <4> QED
        BY <1>2, <2>1, <4>3, <4>4, StaysOut DEF NothingSaid
    <3> QED
      BY <3>1, <3>2
  <2> QED
    BY <1>9, <2>3, <2>4, <2>5, <2>6 DEF ReadbackReceive
<1>10. CASE ReadbackTimeout
  <2>1. /\ op.name \in {"verify", "start"} /\ op \in ReadbackOp /\ stage # "claimed"
        /\ down' = down
    BY <1>8, <1>10 DEF ReadbackTimeout
  <2>2. CASE TriesLeft
    <3>1. op' = [op EXCEPT !.tries = @ + 1] /\ Request(op.next) /\ stage' = stage
      BY <1>10, <2>2 DEF ReadbackTimeout, OneMoreTry
    <3>2. op'.name = op.name /\ op'.next = op.next
      BY <2>1, <3>1 DEF ReadbackOp
    <3>3. op.next \in Nat \cup {-1}
      BY <1>3, <1>8, <2>1
    <3>4. OwnMessages'
      BY <1>1, <1>2, <3>1, <3>3, RequestOwn
    <3>5. Reading' => Reading
      BY <3>1, <3>2 DEF Reading
    <3> QED
      BY <1>2, <1>8, <2>1, <3>1, <3>2, <3>4, <3>5, ReadGoesOn
  <2>3. CASE ~TriesLeft
    BY <1>5, <1>10, <2>1, <2>3 DEF ReadbackTimeout, Fail
  <2> QED
    BY <2>2, <2>3
<1> QED
  BY <1>6, <1>7, <1>9, <1>10

LEMMA InitPlan == Init => PlanInv
<1> SUFFICES ASSUME Init PROVE PlanInv
  OBVIOUS
<1>1. AdapterInv
  BY InitAdapter
<1>2. up = << >> /\ op = Idle /\ pilot.awaits = -1 /\ pilot.flies = NoMission /\ Idle.name = "idle"
  BY DEF Init, LinkInit, Idle
<1> QED
  BY <1>1, <1>2, EmptySeq
     DEF PlanInv, OwnMessages, NothingSaid, NoGap, AnnouncedFirst, Served, ReadTruly,
         Reading, FliesThis, Flying

LEMMA PlanInductive == PlanInv /\ [Next]_vars => PlanInv'
<1> SUFFICES ASSUME PlanInv, [Next]_vars PROVE PlanInv'
  OBVIOUS
<1>1. AdapterInv'
  BY AdapterInductive DEF PlanInv
<1>2. CASE Next
  BY <1>1, <1>2, PilotKeepsPlan, UploadKeepsPlan, ReadbackKeepsPlan, ArmKeepsPlan, BetweenKeepsPlan
     DEF Next, Begin, ReceiveStep, Timeout
<1>3. CASE UNCHANGED vars
  BY <1>1, <1>3
     DEF vars, linkVars, adapterVars, callerVars, PlanInv, OwnMessages, Own, Complete, Plan,
         PlanLength, NothingSaid, NoGap, AnnouncedFirst, OnTheWay, Served, Requested, Written,
         ReadTruly, Reading, ToldTruly, FliesThis, Flying
<1> QED
  BY <1>2, <1>3

LEMMA PlanInvariant == Spec => []PlanInv
<1>1. Init => PlanInv
  BY InitPlan
<1>2. PlanInv /\ [Next]_vars => PlanInv'
  BY PlanInductive
<1> QED
  BY <1>1, <1>2, PTL DEF Spec

(* The autopilot flies the plan of the mission it was started for, item by *)
(* item, whatever another ground station stored before and however the     *)
(* messages of the transfer and of the readbacks were lost, repeated or    *)
(* late (start_mission, _verify_mission_sync).                             *)
THEOREM OnlyTheAuthorizedPlanFlies == Spec => []FliesWhatWasAuthorized
<1>1. PlanInv => FliesWhatWasAuthorized
  BY DEF PlanInv, FliesThis, Complete, Plan, FliesWhatWasAuthorized
<1> QED
  BY <1>1, PlanInvariant, PTL

(* A transfer taken for done has left the whole mission in the autopilot,  *)
(* although an earlier one may still have been open there (_upload_sync,   *)
(* _verify_mission_sync).                                                  *)
THEOREM UploadsAreComplete == Spec => UploadedIsComplete
<1> DEFINE Step == op # Idle /\ stage' = "uploaded" /\ stage # "uploaded" => pilot.stored = Plan
<1>1. PlanInv /\ [Next]_vars => [Step]_vars
  <2> SUFFICES ASSUME PlanInv, Next, op # Idle, stage' = "uploaded", stage # "uploaded"
               PROVE  Complete
    BY DEF vars, Complete
  <2>1. TypeOK /\ op \in Operation
    BY DEF PlanInv, AdapterInv, TypeOK
  <2>2. CASE UploadReceive
    <3>1. /\ op.name = "upload" /\ down # << >> /\ Received.type = "MISSION_ACK"
          /\ Received.accepted /\ op.served = Numbers(Plan)
      BY <2>2 DEF UploadReceive, Receive, Fail, AckCompletes
    <3>2. AcceptedIn(down)
      BY <2>1, <3>1, RequestsTaken DEF TypeOK, LinkTypeOK, Received
    <3>3. /\ Len(pilot.stored) <= PlanLength
          /\ \A i \in Numbers(Plan) : Written(i)
      BY <3>1, <3>2 DEF PlanInv, Served, Requested
    <3>4. Len(pilot.stored) = PlanLength
      <4>1. /\ PlanLength \in Nat /\ PlanLength > 0 /\ Len(pilot.stored) \in Nat
            /\ PlanLength - 1 \in Numbers(Plan)
        BY <2>1, PlanFacts, PilotFacts DEF TypeOK
      <4>2. PlanLength - 1 < Len(pilot.stored)
        BY <3>3, <4>1 DEF Written
      <4> QED
        BY <3>3, <4>1, <4>2
    <3> QED
      BY <2>1, <3>3, <3>4, CompleteIs
  <2>3. CASE ReadbackReceive
    <3>1. /\ CompleteReadback /\ down # << >> /\ op.next = LastNumber
          /\ Answers(Received, op.next) /\ AsExpected(Received, op.next)
      BY <2>3 DEF ReadbackReceive, Fail
    <3>2. op.name = "verify" /\ stage = "sent"
      BY <3>1 DEF CompleteReadback, Return
    <3> QED
      BY <3>1, <3>2, ReadToTheEnd DEF Reading
  <2>4. CASE Begin \/ NextMission \/ Drain \/ Reconnect \/ ForeignWrite
    BY <2>4
       DEF Begin, BeginUpload, BeginVerify, BeginArm, BeginStart, NextMission, Drain,
           Reconnect, ForeignWrite
  <2>5. CASE Pilots \/ Restart \/ Timeout
    BY <2>5
       DEF Pilots, Restart, Timeout, UploadTimeout, ReadbackTimeout, ArmTimeout, Deadline,
           Fail, callerVars
  <2>6. CASE CommandReceive \/ ArmReceiveHeartbeat \/ ArmReceiveAck
    BY <2>6 DEF CommandReceive, ArmReceiveHeartbeat, ArmReceiveAck, Return, Fail
  <2> QED
    BY <2>2, <2>3, <2>4, <2>5, <2>6 DEF Next, ReceiveStep
<1> QED
  BY <1>1, PlanInvariant, PTL DEF Spec, UploadedIsComplete
==============================================================================
