----------------------------- MODULE ProgressTracker -----------------------------
(***************************************************************************)
(* From MAVLink messages to the stage the customer sees: the evidence the  *)
(* adapter collects (drone_gateway/app/mavlink/pymavlink_gateway.py), the  *)
(* one status a poll suggests, and the executor that journals and reports  *)
(* it (_continue_executing in drone_gateway/app/missions/executor.py).     *)
(* GatewayExecutor treats a poll as one step; here its pieces are apart,   *)
(* because a call of the backend may fail between any two of them.         *)
(*                                                                         *)
(* The four mission items that carry evidence, and the four statuses of    *)
(* PROGRESS_STATUSES, are 1 (destination), 2 (gripper), 3 (return) and     *)
(* 4 (landing).  0 stands for none.                                        *)
(***************************************************************************)
EXTENDS Integers

CONSTANT Troubles   \* what may go wrong in an instance

Trouble == {"backend", "position", "link", "restart"}

ASSUME TroublesAssumption == Troubles \subseteq Trouble

VARIABLES
  flown,      \* items the autopilot has completed
  down,       \* landed at the origin and disarmed
  link,       \* "good", "stale" (no recent position), "lost" (no heartbeat)
  current,    \* _last_current_sequence
  reached,    \* _reached_sequences
  suggested,  \* _reported_progress of the mission
  journal,    \* last_reported_progress_status, pending_status, telemetry_stale_reported
  pc,         \* where _continue_executing stands
  hint,       \* poll.suggested_status
  shown       \* the status the backend shows

flightVars == <<flown, down, link>>
adapterVars == <<current, reached, suggested>>
executorVars == <<journal, pc, hint>>
vars == <<flightVars, adapterVars, executorVars, shown>>

Items == 1..4

Init ==
  /\ flown = 0 /\ down = FALSE /\ link = "good"
  /\ current = 0 /\ reached = {} /\ suggested = {}
  /\ journal = [last |-> 0, pending |-> 0, stale |-> FALSE]
  /\ pc = "flush" /\ hint = 0
  /\ shown = 0

-------------------------------------------------------------------------------
(* The autopilot.  It announces a completed item once and repeats the item *)
(* it is flying to; nothing it sends while the link is lost arrives.       *)

FlyItem ==
  /\ flown < 4
  /\ flown' = flown + 1
  /\ reached' = IF link = "lost" THEN reached ELSE reached \cup {flown'}
  /\ UNCHANGED <<down, link, current, suggested, executorVars, shown>>

(* Mutant: after the last item a next one is announced.                    *)
AnnounceNext ==
  /\ link # "lost"
  /\ current' = flown + 1
  /\ UNCHANGED <<flightVars, reached, suggested, executorVars, shown>>

AnnounceCurrent ==
  /\ link # "lost"
  /\ current' = IF flown < 4 THEN flown + 1 ELSE 4
  /\ UNCHANGED <<flightVars, reached, suggested, executorVars, shown>>

Disarm ==
  /\ flown = 4
  /\ down' = TRUE
  /\ UNCHANGED <<flown, link, adapterVars, executorVars, shown>>

LinkWorsens ==
  /\ \/ link = "good" /\ link' = "stale" /\ "position" \in Troubles
     \/ link # "lost" /\ link' = "lost" /\ "link" \in Troubles
  /\ UNCHANGED <<flown, down, adapterVars, executorVars, shown>>

LinkReturns ==
  /\ link # "good"
  /\ link' = "good"
  /\ UNCHANGED <<flown, down, adapterVars, executorVars, shown>>

-------------------------------------------------------------------------------
(* The adapter. *)

(* Mutant: the landing item alone proves the landing.                      *)
ConfirmedBySequence(i) ==
  CASE i = 1 -> 1 \in reached
    [] i = 2 -> 2 \in reached \/ current > 2
    [] i = 3 -> 3 \in reached \/ current >= 3
    [] i = 4 -> 4 \in reached

Confirmed(i) ==
  CASE i = 1 -> 1 \in reached
    [] i = 2 -> 2 \in reached \/ current > 2
    [] i = 3 -> 3 \in reached \/ current >= 3
    [] i = 4 -> 4 \in reached /\ down

(* The first status not suggested before, if there is evidence for it.     *)
Suggestion(known) ==
  LET open == {i \in Items \ known : \A j \in Items \ known : i <= j}
  IN  {i \in open : Confirmed(i)}

(* synchronize_progress *)
Synchronized == suggested \cup 1..journal.last

(* connect() forgets what earlier messages said.                           *)
ResetLiveState == current' = 0 /\ reached' = {}

-------------------------------------------------------------------------------
(* The executor.  A failed call raises out of the cycle: what it polled is *)
(* forgotten and the next cycle starts over from the journal.              *)

MayFail == "backend" \in Troubles

StartOver == pc' = "flush" /\ hint' = 0

CycleFails ==
  /\ MayFail
  /\ pc \in {"staleReport", "recover", "outOfOrder"}
  /\ StartOver
  /\ UNCHANGED <<flightVars, adapterVars, journal, shown>>

(* The report has a kept event_id: a repetition changes nothing.           *)
Accept == shown' = IF journal.pending > shown THEN journal.pending ELSE shown

FlushPending ==
  /\ pc = "flush"
  /\ \/ /\ journal.pending = 0
        /\ pc' = "poll"
        /\ UNCHANGED <<journal, shown>>
     \/ /\ journal.pending # 0
        /\ Accept
        /\ journal' = [journal EXCEPT !.last = journal.pending, !.pending = 0]
        /\ pc' = IF journal.pending = 4 THEN "done" ELSE "poll"
  /\ UNCHANGED <<flightVars, adapterVars, hint>>

(* Mutant: a report is given up when it fails.                             *)
FlushGivenUp ==
  /\ MayFail
  /\ pc = "flush" /\ journal.pending # 0
  /\ journal' = [journal EXCEPT !.pending = 0]
  /\ UNCHANGED <<flightVars, adapterVars, pc, hint, shown>>

FlushAnswerLost ==
  /\ MayFail
  /\ pc = "flush" /\ journal.pending # 0
  /\ Accept
  /\ UNCHANGED <<flightVars, adapterVars, executorVars>>

(* A link that was already lost when the cycle began keeps it from polling *)
(* (its reports come before the poll and are left out); one that is lost   *)
(* since then makes the poll time out, like an overdue position.           *)
Poll ==
  /\ pc = "poll"
  /\ \/ /\ link = "good"
        /\ LET new == Suggestion(Synchronized)
           IN  /\ suggested' = Synchronized \cup new
               /\ hint' = IF new = {} THEN 0 ELSE CHOOSE i \in new : TRUE
        /\ pc' = IF journal.stale THEN "recover" ELSE "prepare"
     \/ /\ link # "good"
        /\ pc' = IF journal.stale THEN "flush" ELSE "staleReport"
        /\ suggested' = Synchronized
        /\ UNCHANGED hint
     \/ /\ link = "lost"
        /\ pc' = "flush"
        /\ UNCHANGED <<suggested, hint>>
  /\ UNCHANGED <<flightVars, current, reached, journal, shown>>

ReportStale ==
  /\ pc = "staleReport"
  /\ journal' = [journal EXCEPT !.stale = TRUE]
  /\ StartOver
  /\ UNCHANGED <<flightVars, adapterVars, shown>>

ReportRecovered ==
  /\ pc = "recover"
  /\ journal' = [journal EXCEPT !.stale = FALSE]
  /\ pc' = "prepare"
  /\ UNCHANGED <<flightVars, adapterVars, hint, shown>>

(* Mutant: whatever the poll suggests is reported next.                    *)
PrepareAnything ==
  /\ pc = "prepare"
  /\ journal' = IF hint > journal.last THEN [journal EXCEPT !.pending = hint] ELSE journal
  /\ pc' = "telemetry"
  /\ UNCHANGED <<flightVars, adapterVars, hint, shown>>

(* _prepare_suggested_status *)
Prepare ==
  /\ pc = "prepare"
  /\ \/ /\ hint <= journal.last
        /\ pc' = "telemetry"
        /\ UNCHANGED journal
     \/ /\ hint > journal.last + 1
        /\ pc' = "outOfOrder"
        /\ UNCHANGED journal
     \/ /\ hint = journal.last + 1
        /\ journal' = [journal EXCEPT !.pending = hint]
        /\ pc' = "telemetry"
  /\ UNCHANGED <<flightVars, adapterVars, hint, shown>>

ReportOutOfOrder ==
  /\ pc = "outOfOrder"
  /\ pc' = "telemetry"
  /\ UNCHANGED <<flightVars, adapterVars, journal, hint, shown>>

(* Vehicle events and telemetry; what was prepared is flushed next, also   *)
(* when these calls fail.                                                  *)
ReportTelemetry ==
  /\ pc = "telemetry"
  /\ StartOver
  /\ UNCHANGED <<flightVars, adapterVars, journal, shown>>

(* The main loop finds the heartbeat stale between two cycles.             *)
Reconnect ==
  /\ link = "lost" /\ pc \in {"flush", "poll"}
  /\ link' = "good"
  /\ ResetLiveState
  /\ StartOver
  /\ UNCHANGED <<flown, down, suggested, journal, shown>>

Restart ==
  /\ "restart" \in Troubles
  /\ pc # "done"
  /\ ResetLiveState
  /\ suggested' = {}
  /\ StartOver
  /\ UNCHANGED <<flightVars, journal, shown>>

Cycle ==
  \/ FlushPending \/ Poll \/ ReportStale \/ ReportRecovered \/ Prepare
  \/ ReportOutOfOrder \/ ReportTelemetry

Flight == FlyItem \/ Disarm

Disturbance == CycleFails \/ FlushAnswerLost \/ LinkWorsens \/ Restart

Next == Flight \/ AnnounceCurrent \/ Cycle \/ LinkReturns \/ Reconnect \/ Disturbance

Spec == Init /\ [][Next]_vars

(* The flight goes on, the loop runs, and in the end nothing goes wrong.   *)
Fairness ==
  /\ WF_vars(Flight) /\ WF_vars(AnnounceCurrent) /\ WF_vars(Cycle)
  /\ WF_vars(LinkReturns \/ Reconnect)
  /\ <>[][~Disturbance]_vars

FairSpec == Spec /\ Fairness

-------------------------------------------------------------------------------
TypeOK ==
  /\ flown \in 0..4 /\ down \in BOOLEAN /\ link \in {"good", "stale", "lost"}
  /\ current \in 0..4 /\ reached \subseteq Items /\ suggested \subseteq Items
  /\ journal \in [last : 0..4, pending : 0..4, stale : BOOLEAN]
  /\ pc \in {"flush", "poll", "staleReport", "recover", "prepare", "outOfOrder",
             "telemetry", "done"}
  /\ hint \in 0..4
  /\ shown \in 0..4

(* A stage is shown only after the flight has come that far: the           *)
(* destination and the gripper are behind, the return has begun, the       *)
(* vehicle is down, whatever was lost, repeated or forgotten on the way.   *)
NeverAhead ==
  /\ shown >= 1 => flown >= 1
  /\ shown >= 2 => flown >= 2
  /\ shown = 4 => down

(* The report kept in the journal is always the one the backend waits for, *)
(* or its repetition: the retry of it is never refused.                    *)
PendingIsNext ==
  IF journal.pending = 0
  THEN shown = journal.last
  ELSE journal.pending = journal.last + 1 /\ shown \in {journal.last, journal.pending}

(* What was journalled is delivered in the end, whatever failed meanwhile:  *)
(* an outage, an overdue position, a lost link and a restart included      *)
(* (docs/DRONE_PROTOCOL.md on the journal).                                *)
PendingDelivered ==
  \A i \in Items : journal.pending = i ~> shown >= i /\ journal.last >= i

(* A flight that has been flown to its end is shown COMPLETED: after an    *)
(* outage the gateway reconciles (docs/DRONE_PROTOCOL.md, on timeouts).    *)
ProgressCatchesUp == down ~> shown = 4
==============================================================================
