------------------------- MODULE ProgressTrackerProofs -------------------------
(***************************************************************************)
(* Whatever goes wrong in a flight, and however often, the customer is     *)
(* never shown a stage the flight has not come to, and the report kept in  *)
(* the journal is the one the backend waits for.                           *)
(***************************************************************************)
EXTENDS ProgressTracker, TLAPS

(* The flight has come as far as stage n says.                             *)
Come(n) ==
  /\ n >= 1 => flown >= 1
  /\ n >= 2 => flown >= 2
  /\ n = 4 => down

(* What the adapter has collected proves what it says.                     *)
EvidenceHolds ==
  /\ down => flown = 4
  /\ \A i \in reached : i <= flown
  /\ current <= flown + 1
  /\ \A i \in suggested : Come(i)

(* A poll, the journal and the backend only repeat that evidence.          *)
ReportsHold == Come(hint) /\ Come(journal.pending) /\ Come(journal.last) /\ Come(shown)

(* Nothing is pending once a poll has begun, until it is prepared.         *)
FlushedFirst == pc \notin {"flush", "telemetry", "outOfOrder"} => journal.pending = 0

TrackerInv == TypeOK /\ EvidenceHolds /\ ReportsHold /\ PendingIsNext /\ FlushedFirst

LEMMA InitTracker == Init => TrackerInv
<1> SUFFICES ASSUME Init PROVE TrackerInv
  OBVIOUS
<1>1. TypeOK
  <2>1. journal \in [last : 0..4, pending : 0..4, stale : BOOLEAN]
    BY DEF Init
  <2> QED
    BY <2>1 DEF Init, TypeOK
<1>4. EvidenceHolds
  BY DEF Init, EvidenceHolds
<1>2. journal.last = 0 /\ journal.pending = 0 /\ shown = 0 /\ hint = 0
  BY DEF Init
<1>3. ReportsHold /\ PendingIsNext /\ FlushedFirst
  BY <1>2 DEF ReportsHold, PendingIsNext, FlushedFirst, Come
<1> QED
  BY <1>1, <1>3, <1>4 DEF TrackerInv

(* What is confirmed has happened.                                         *)
LEMMA ConfirmedHappened ==
  ASSUME TypeOK, EvidenceHolds, NEW i \in Items, Confirmed(i)
  PROVE  Come(i)
<1>1. i = 1 \/ i = 2 \/ i = 3 \/ i = 4
  BY DEF Items
<1>2. CASE i = 1
  BY <1>2 DEF Confirmed, EvidenceHolds, TypeOK, Come
<1>3. CASE i = 2
  BY <1>3 DEF Confirmed, EvidenceHolds, TypeOK, Come
<1>4. CASE i = 3
  BY <1>4 DEF Confirmed, EvidenceHolds, TypeOK, Come
<1>5. CASE i = 4
  BY <1>5 DEF Confirmed, EvidenceHolds, TypeOK, Come
<1> QED
  BY <1>1, <1>2, <1>3, <1>4, <1>5

(* A flight goes on, and what it has come to it has come to for good.      *)
LEMMA FlightTracker ==
  ASSUME TrackerInv, Flight \/ AnnounceCurrent \/ LinkWorsens \/ LinkReturns
  PROVE  TrackerInv'
<1>1. \A n \in 0..4 : Come(n) => Come(n)'
  <2>1. CASE FlyItem
    BY <2>1 DEF FlyItem, Come, TrackerInv, TypeOK
  <2>2. CASE Disarm
    BY <2>2 DEF Disarm, Come, TrackerInv, TypeOK
  <2>3. CASE AnnounceCurrent \/ LinkWorsens \/ LinkReturns
    BY <2>3 DEF AnnounceCurrent, LinkWorsens, LinkReturns, flightVars, Come
  <2> QED
    BY <2>1, <2>2, <2>3 DEF Flight
<1>2. TypeOK'
  <2>1. CASE FlyItem
    BY <2>1 DEF FlyItem, TrackerInv, TypeOK, executorVars, Items
  <2>2. CASE Disarm
    BY <2>2 DEF Disarm, TrackerInv, TypeOK, executorVars, adapterVars
  <2>3. CASE AnnounceCurrent
    BY <2>3 DEF AnnounceCurrent, TrackerInv, TypeOK, executorVars, flightVars
  <2>4. CASE LinkWorsens \/ LinkReturns
    BY <2>4 DEF LinkWorsens, LinkReturns, TrackerInv, TypeOK, executorVars, adapterVars
  <2> QED
    BY <2>1, <2>2, <2>3, <2>4 DEF Flight
<1>3. EvidenceHolds'
  <2>1. \A i \in suggested' : Come(i)'
    <3>1. suggested' = suggested
      BY DEF Flight, FlyItem, Disarm, AnnounceCurrent, LinkWorsens, LinkReturns, adapterVars
    <3>2. \A i \in suggested : i \in 0..4 /\ Come(i)
      BY DEF TrackerInv, TypeOK, EvidenceHolds, Items
    <3> QED
      BY <1>1, <3>1, <3>2
  <2>2. /\ down' => flown' = 4
        /\ \A i \in reached' : i <= flown'
        /\ current' <= flown' + 1
    <3>1. CASE FlyItem
      BY <3>1 DEF FlyItem, TrackerInv, TypeOK, EvidenceHolds, Items
    <3>2. CASE Disarm
      BY <3>2 DEF Disarm, adapterVars, TrackerInv, TypeOK, EvidenceHolds
    <3>3. CASE AnnounceCurrent
      BY <3>3 DEF AnnounceCurrent, flightVars, TrackerInv, TypeOK, EvidenceHolds
    <3>4. CASE LinkWorsens \/ LinkReturns
      BY <3>4 DEF LinkWorsens, LinkReturns, adapterVars, TrackerInv, TypeOK, EvidenceHolds
    <3> QED
      BY <3>1, <3>2, <3>3, <3>4 DEF Flight
  <2> QED
    BY <2>1, <2>2 DEF EvidenceHolds
<1>4. UNCHANGED <<journal, pc, hint, shown>>
  BY DEF Flight, FlyItem, Disarm, AnnounceCurrent, LinkWorsens, LinkReturns, executorVars
<1>5. ReportsHold'
  BY <1>1, <1>4 DEF TrackerInv, TypeOK, ReportsHold, Come
<1> QED
  BY <1>2, <1>3, <1>4, <1>5 DEF TrackerInv, PendingIsNext, FlushedFirst

(* The one status of a poll is new and has happened.                       *)
LEMMA PollTracker ==
  ASSUME TrackerInv, Poll
  PROVE  TrackerInv'
<1>1. /\ UNCHANGED <<flown, down, link, current, reached, journal, shown>>
      /\ pc = "poll" /\ pc' \in {"flush", "staleReport", "recover", "prepare"}
  BY DEF Poll, flightVars
<1>2. \A i \in 1..journal.last : i \in Items /\ Come(i)
  BY DEF TrackerInv, TypeOK, ReportsHold, EvidenceHolds, Come, Items
<1>3. Synchronized \subseteq Items /\ \A i \in Synchronized : Come(i)
  BY <1>2 DEF Synchronized, TrackerInv, TypeOK, EvidenceHolds
<1>4. /\ suggested' \subseteq Items /\ hint' \in 0..4
      /\ Come(hint')
      /\ \A i \in suggested' : Come(i)
  <2> DEFINE new == Suggestion(Synchronized)
  <2>1. new \subseteq Items /\ \A i \in new : Come(i)
    BY ConfirmedHappened DEF Suggestion, TrackerInv
  <2>2. CASE /\ suggested' = Synchronized \cup new
             /\ hint' = IF new = {} THEN 0 ELSE CHOOSE i \in new : TRUE
    <3>1. CASE new = {}
      BY <1>3, <2>2, <3>1 DEF Come
    <3>2. CASE new # {}
      <4>1. hint' \in new
        BY <2>2, <3>2
      <4>2. suggested' = Synchronized \cup new
        BY <2>2
      <4> HIDE DEF new
      <4>3. hint' \in Items /\ Come(hint')
        BY <2>1, <4>1
      <4>4. suggested' \subseteq Items /\ \A i \in suggested' : Come(i)
        BY <1>3, <2>1, <4>2
      <4> QED
        BY <4>3, <4>4 DEF Items
    <3> QED
      BY <3>1, <3>2
  <2>3. CASE suggested' \in {suggested, Synchronized} /\ hint' = hint
    BY <1>3, <2>3 DEF TrackerInv, TypeOK, EvidenceHolds, ReportsHold
  <2> QED
    BY <2>2, <2>3 DEF Poll
<1>5. \A i : Come(i)' <=> Come(i)
  BY <1>1 DEF Come
<1>6. TypeOK' /\ PendingIsNext' /\ FlushedFirst'
  BY <1>1, <1>4 DEF TrackerInv, TypeOK, PendingIsNext, FlushedFirst
<1>7. EvidenceHolds'
  BY <1>1, <1>4, <1>5 DEF TrackerInv, EvidenceHolds
<1>8. ReportsHold'
  BY <1>1, <1>4 DEF TrackerInv, ReportsHold, Come
<1> QED
  BY <1>6, <1>7, <1>8 DEF TrackerInv

(* The journal moves with the backend, and one stage at a time.            *)
LEMMA ReportTracker ==
  ASSUME TrackerInv,
         FlushPending \/ ReportStale \/ ReportRecovered \/ Prepare \/ ReportOutOfOrder
           \/ ReportTelemetry \/ CycleFails \/ FlushAnswerLost
  PROVE  TrackerInv'
<1>1. UNCHANGED <<flown, down, link, current, reached, suggested>>
  BY DEF FlushPending, ReportStale, ReportRecovered, Prepare, ReportOutOfOrder,
         ReportTelemetry, CycleFails, FlushAnswerLost, flightVars, adapterVars
<1>2. EvidenceHolds'
  BY <1>1 DEF TrackerInv, EvidenceHolds, Come
<1> USE <1>1 DEF TrackerInv, TypeOK, ReportsHold, PendingIsNext, FlushedFirst
<1>3. CASE FlushPending
  <2>1. CASE journal.pending = 0
    BY <1>2, <1>3, <2>1 DEF FlushPending, Come
  <2>2. CASE journal.pending # 0
    <3>1. /\ journal' = [journal EXCEPT !.last = journal.pending, !.pending = 0]
          /\ pc' \in {"done", "poll"} /\ hint' = hint /\ Accept
      BY <1>3, <2>2 DEF FlushPending
    <3>2. journal' = [last |-> journal.pending, pending |-> 0, stale |-> journal.stale]
      BY <3>1
    <3> HIDE DEF TrackerInv
    <3>3. journal \in [last : 0..4, pending : 0..4, stale : BOOLEAN] /\ shown \in 0..4
      BY DEF TrackerInv
    <3>4. shown' = journal.pending
      <4>1. shown \in {journal.last, journal.pending} /\ journal.pending = journal.last + 1
        BY <2>2 DEF TrackerInv
      <4> QED
        BY <3>1, <3>3, <4>1 DEF Accept
    <3> QED
      BY <1>2, <3>1, <3>2, <3>3, <3>4 DEF TrackerInv, Come
  <2> QED
    BY <2>1, <2>2
<1>4. CASE ReportStale
  BY <1>2, <1>4 DEF ReportStale, StartOver, Come
<1>5. CASE ReportRecovered
  BY <1>2, <1>5 DEF ReportRecovered, Come
<1>6. CASE Prepare
  <2>1. journal.pending = 0 /\ shown = journal.last
    BY <1>6 DEF Prepare
  <2>2. CASE journal' = journal
    BY <1>2, <1>6, <2>1, <2>2 DEF Prepare, Come
  <2>3. CASE hint = journal.last + 1 /\ journal' = [journal EXCEPT !.pending = hint]
    BY <1>2, <1>6, <2>1, <2>3 DEF Prepare, Come
  <2> QED
    BY <1>6, <2>2, <2>3 DEF Prepare
<1>7. CASE ReportOutOfOrder \/ ReportTelemetry \/ CycleFails
  BY <1>2, <1>7 DEF ReportOutOfOrder, ReportTelemetry, CycleFails, StartOver, Come
<1>8. CASE FlushAnswerLost
  BY <1>2, <1>8 DEF FlushAnswerLost, Accept, executorVars, Come
<1> QED
  BY <1>3, <1>4, <1>5, <1>6, <1>7, <1>8

(* What the adapter forgets proves no less of the rest.                    *)
LEMMA ResetTracker ==
  ASSUME TrackerInv, Reconnect \/ Restart
  PROVE  TrackerInv'
<1>1. /\ UNCHANGED <<flown, down, journal, shown>>
      /\ current' = 0 /\ reached' = {} /\ suggested' \in {suggested, {}}
      /\ pc' = "flush" /\ hint' = 0 /\ link' \in {link, "good"}
  BY DEF Reconnect, Restart, ResetLiveState, StartOver, flightVars
<1> QED
  BY <1>1 DEF TrackerInv, TypeOK, EvidenceHolds, ReportsHold, PendingIsNext,
              FlushedFirst, Come, Items

LEMMA TrackerInductive == TrackerInv /\ [Next]_vars => TrackerInv'
<1> SUFFICES ASSUME TrackerInv, [Next]_vars PROVE TrackerInv'
  OBVIOUS
<1>1. CASE Next
  BY <1>1, FlightTracker, PollTracker, ReportTracker, ResetTracker
     DEF Next, Cycle, Disturbance
<1>2. CASE UNCHANGED vars
  BY <1>2 DEF vars, flightVars, adapterVars, executorVars, TrackerInv, TypeOK,
              EvidenceHolds, ReportsHold, PendingIsNext, FlushedFirst, Come
<1> QED
  BY <1>1, <1>2

LEMMA TrackerInvariant == Spec => []TrackerInv
<1>1. Init => TrackerInv
  BY InitTracker
<1>2. TrackerInv /\ [Next]_vars => TrackerInv'
  BY TrackerInductive
<1> QED
  BY <1>1, <1>2, PTL DEF Spec

(* The adapter's memory, the journal and the backend stay within the items *)
(* and the stages of the flight (_ingest_message, _next_progress_status,   *)
(* report_status).                                                         *)
THEOREM TrackerTypeCorrect == Spec => []TypeOK
<1>1. TrackerInv => TypeOK
  BY DEF TrackerInv
<1> QED
  BY <1>1, TrackerInvariant, PTL

(* A stage is shown only after the flight has come that far                *)
(* (_next_progress_status, _continue_executing, report_status).            *)
THEOREM NeverAheadOfTheFlight == Spec => [](TypeOK /\ NeverAhead)
<1>1. TrackerInv => TypeOK /\ NeverAhead
  BY DEF TrackerInv, TypeOK, ReportsHold, Come, NeverAhead
<1> QED
  BY <1>1, TrackerInvariant, PTL

(* The report kept in the journal is the next one the backend waits for,   *)
(* or its repetition (_prepare_suggested_status, _flush_pending_status).   *)
THEOREM JournalledReportIsNext == Spec => []PendingIsNext
<1>1. TrackerInv => PendingIsNext
  BY DEF TrackerInv
<1> QED
  BY <1>1, TrackerInvariant, PTL
==============================================================================
