--------------------------- MODULE IdempotencyProofs ---------------------------
(***************************************************************************)
(* For any number of concurrent requests, keys and rows: a key has one     *)
(* effect and Idempotency implements FirstCall.                            *)
(***************************************************************************)
EXTENDS Idempotency, TLAPS

(* MoveTo changes where one request stands and nothing else of any.        *)
LEMMA Moving ==
  ASSUME TypeOK, NEW r \in Requests, NEW b \in Bodies \cup {NoBody},
         NEW at \in Open \cup {"idle", "done", "refused", "failed"},
         MoveTo(r, at, b)
  PROVE  /\ call' \in [Requests -> Call]
         /\ \A q \in Requests : /\ call'[q].slot = call[q].slot
                                /\ call'[q].payload = call[q].payload
                                /\ q # r => call'[q] = call[q]
         /\ call'[r].at = at /\ call'[r].body = b
  BY DEF TypeOK, Call, MoveTo

(* A request that moves without committing keeps the invariant unless it   *)
(* comes to act with a key that is recorded or reserved.                   *)
LEMMA MovingKeeps ==
  ASSUME Consistent, NEW r \in Requests, NEW b \in Bodies \cup {NoBody},
         NEW at \in Open \cup {"idle", "done", "refused", "failed"},
         MoveTo(r, at, b), UNCHANGED <<record, made>>,
         at = "acting" => ~Recorded(r) /\ (Keyed(r) => ~Blocked(r))
  PROVE  Consistent'
<1>1. /\ call' \in [Requests -> Call]
      /\ \A q \in Requests : /\ call'[q].slot = call[q].slot
                             /\ call'[q].payload = call[q].payload
                             /\ q # r => call'[q] = call[q]
      /\ call'[r].at = at /\ call'[r].body = b
  BY Moving DEF Consistent
<1>2. TypeOK'
  BY <1>1 DEF Consistent, TypeOK, Record
<1>3. ReservationsExclude'
  BY <1>1 DEF Consistent, ReservationsExclude, Recorded, Keyed, Blocked
<1>4. RecordsAreRows'
  BY DEF Consistent, RecordsAreRows
<1> QED
  BY <1>2, <1>3, <1>4 DEF Consistent

(* An answer from the record moves a request to a place of its own.        *)
LEMMA ReplayKeeps ==
  ASSUME Consistent, NEW r \in Requests, Replay(r)
  PROVE  Consistent'
<1>1. CASE MoveTo(r, "done", record[call[r].slot].body)
  <2>1. record[call[r].slot].body \in Bodies \cup {NoBody}
    BY DEF Consistent, TypeOK, Record, Replay, Recorded, Keyed
  <2> QED
    BY <1>1, <2>1, MovingKeeps DEF Replay
<1>2. CASE MoveTo(r, "refused", NoBody)
  BY <1>2, MovingKeeps DEF Replay
<1> QED
  BY <1>1, <1>2 DEF Replay

(* A commit adds one row and, under a key, the record that tells of it.    *)
LEMMA CompleteKeeps ==
  ASSUME Consistent, NEW r \in Requests, NEW b \in Bodies,
         ~Recorded(r), Keyed(r) => ~Blocked(r), Complete(r, b)
  PROVE  Consistent'
<1> DEFINE row == [slot |-> call[r].slot, payload |-> call[r].payload, body |-> b]
           entry == [payload |-> call[r].payload, body |-> b]
<1>1. /\ call' \in [Requests -> Call]
      /\ \A q \in Requests : /\ call'[q].slot = call[q].slot
                             /\ call'[q].payload = call[q].payload
                             /\ q # r => call'[q] = call[q]
      /\ call'[r].at = "done"
  BY Moving DEF Consistent, Complete
<1>2. /\ call[r].slot \in Slots \cup {NoSlot}
      /\ call[r].payload \in Payloads \cup {NoPayload}
  BY DEF Consistent, TypeOK, Call
<1>3. /\ made' = made \cup {row}
      /\ Keyed(r) => record' = [record EXCEPT ![call[r].slot] = entry]
      /\ ~Keyed(r) => record' = record
  BY DEF Complete
<1>4. entry \in Record /\ entry # NoRecord
  BY <1>2, NoneAssumption DEF Record, NoRecord
<1>5. TypeOK'
  <2>1. record' \in [Slots -> Record]
    BY <1>3, <1>4 DEF Consistent, TypeOK
  <2>2. made' \subseteq [slot : Slots \cup {NoSlot}, payload : Payloads \cup {NoPayload},
                         body : Bodies]
    BY <1>2, <1>3 DEF Consistent, TypeOK
  <2> QED
    BY <1>1, <2>1, <2>2 DEF TypeOK
<1>6. ReservationsExclude'
  <2>1. ASSUME NEW q \in Requests, call'[q].at = "acting"
        PROVE  q # r /\ call[q].at = "acting"
    BY <1>1, <2>1
  <2>2. ASSUME NEW q \in Requests, call'[q].at = "acting"
        PROVE  ~Recorded(q)'
    <3>1. Keyed(r) => call[q].slot # call[r].slot
      BY <2>1, <2>2 DEF Blocked, Keyed
    <3>2. ~Recorded(q)
      BY <2>1, <2>2 DEF Consistent, ReservationsExclude
    <3>3. call'[q].slot = call[q].slot
      BY <1>1
    <3>4. call[q].slot \in Slots => record'[call[q].slot] = record[call[q].slot]
      BY <1>3, <3>1 DEF Consistent, TypeOK, Keyed
    <3> QED
      BY <3>2, <3>3, <3>4 DEF Recorded, Keyed
  <2> QED
    BY <1>1, <2>1, <2>2 DEF Consistent, ReservationsExclude, Keyed
<1>7. RecordsAreRows'
  <2>1. CASE ~Keyed(r)
    BY <1>2, <1>3, <2>1, NoneAssumption DEF Consistent, RecordsAreRows, Keyed
  <2>2. CASE Keyed(r)
    <3>1. record[call[r].slot] = NoRecord
      BY <2>2 DEF Recorded
    <3>2. \A s \in Slots : record'[s] = IF s = call[r].slot THEN entry ELSE record[s]
      BY <1>3, <2>2 DEF Consistent, TypeOK, Keyed
    <3>3. ASSUME NEW e \in made', e.slot \in Slots
          PROVE  record'[e.slot] = [payload |-> e.payload, body |-> e.body]
      <4>1. CASE e = row
        BY <2>2, <3>2, <4>1 DEF Keyed
      <4>2. CASE e \in made
        <5>1. /\ record[e.slot] = [payload |-> e.payload, body |-> e.body]
              /\ e.body \in Bodies
          BY <3>3, <4>2 DEF Consistent, RecordsAreRows, TypeOK
        <5>2. e.slot # call[r].slot
          BY <3>1, <5>1, NoneAssumption DEF NoRecord
        <5> QED
          BY <3>2, <3>3, <5>1, <5>2
      <4> QED
        BY <1>3, <3>3, <4>1, <4>2
    <3>4. ASSUME NEW s \in Slots, record'[s] # NoRecord
          PROVE  [slot |-> s, payload |-> record'[s].payload,
                  body |-> record'[s].body] \in made'
      <4>1. CASE s = call[r].slot
        BY <1>3, <3>2, <4>1
      <4>2. CASE s # call[r].slot
        BY <1>3, <3>2, <3>4, <4>2 DEF Consistent, RecordsAreRows
      <4> QED
        BY <4>1, <4>2
    <3> QED
      BY <3>3, <3>4 DEF RecordsAreRows
  <2> QED
    BY <2>1, <2>2
<1> QED
  BY <1>5, <1>6, <1>7 DEF Consistent

(* Reservations exclude each other and records tell the rows: at any time, *)
(* whatever the interleaving.                                              *)
THEOREM Consistency == Spec => []Consistent
<1>1. Init => Consistent
  BY NoneAssumption DEF Init, Consistent, TypeOK, Call, Record, NoRecord, Open,
     ReservationsExclude, RecordsAreRows, Recorded, Keyed
<1>2. Consistent /\ [Next]_idempotencyVars => Consistent'
  <2> SUFFICES ASSUME Consistent, [Next]_idempotencyVars
               PROVE  Consistent'
    OBVIOUS
  <2>1. ASSUME NEW r \in Requests, NEW s \in Slots \cup {NoSlot},
               NEW p \in Payloads, Ask(r, s, p)
        PROVE  Consistent'
    <3>1. /\ call' \in [Requests -> Call]
          /\ \A q \in Requests : q # r => call'[q] = call[q]
          /\ call'[r].at = "sent"
      BY <2>1 DEF Consistent, TypeOK, Call, Open, Ask
    <3>2. record' = record /\ made' = made
      BY <2>1 DEF Ask
    <3>3. ReservationsExclude'
      BY <3>1, <3>2 DEF Consistent, ReservationsExclude, Recorded, Keyed
    <3> QED
      BY <3>1, <3>2, <3>3 DEF Consistent, TypeOK, RecordsAreRows
  <2>2. ASSUME NEW r \in Requests, Look(r)
        PROVE  Consistent'
    BY <2>2, ReplayKeeps, MovingKeeps DEF Look, Open, Recorded
  <2>3. ASSUME NEW r \in Requests, Reserve(r)
        PROVE  Consistent'
    BY <2>3, ReplayKeeps, MovingKeeps DEF Reserve, Open
  <2>4. ASSUME NEW r \in Requests, NEW b \in Fresh, Commit(r, b)
        PROVE  Consistent'
    BY <2>4, CompleteKeeps DEF Commit, Fresh, Consistent, ReservationsExclude,
       Blocked, Keyed
  <2>5. ASSUME NEW r \in Requests, NEW b \in Fresh, RunOnLoop(r, b)
        PROVE  Consistent'
    BY <2>5, CompleteKeeps DEF RunOnLoop, Fresh
  <2>6. ASSUME NEW r \in Requests, Fail(r)
        PROVE  Consistent'
    BY <2>6, MovingKeeps DEF Fail
  <2>7. CASE UNCHANGED idempotencyVars
    BY <2>7 DEF Consistent, TypeOK, ReservationsExclude, RecordsAreRows, Recorded,
       Keyed, idempotencyVars
  <2> QED
    BY <2>1, <2>2, <2>3, <2>4, <2>5, <2>6, <2>7 DEF Next
<1> QED
  BY <1>1, <1>2, PTL DEF Spec

(* Every answered copy of a request was given the one row of its key.      *)
THEOREM OneEffect == Spec => []OneEffectPerKey
<1>1. Init => AnswersAreRows
  <2> SUFFICES ASSUME Init, NEW r \in Requests
               PROVE  call[r].at = "idle" /\ call[r].body = NoBody
    BY DEF AnswersAreRows
  <2> QED
    BY DEF Init
<1>2. Consistent /\ AnswersAreRows /\ [Next]_idempotencyVars => AnswersAreRows'
  <2> SUFFICES ASSUME Consistent, AnswersAreRows, [Next]_idempotencyVars
               PROVE  AnswersAreRows'
    OBVIOUS
  <2>1. ASSUME NEW r \in Requests, NEW s \in Slots \cup {NoSlot},
               NEW p \in Payloads, Ask(r, s, p)
        PROVE  AnswersAreRows'
    BY <2>1 DEF Consistent, TypeOK, AnswersAreRows, Ask
  <2>2. ASSUME NEW r \in Requests, NEW at \in Open \cup {"refused", "failed"},
               MoveTo(r, at, NoBody), made' = made
        PROVE  AnswersAreRows'
    BY <2>2, Moving DEF Consistent, AnswersAreRows, Open
  <2>3. ASSUME NEW r \in Requests, Replay(r)
        PROVE  AnswersAreRows'
    <3>1. CASE MoveTo(r, "refused", NoBody)
      BY <2>2, <2>3, <3>1 DEF Replay
    <3>2. CASE /\ MoveTo(r, "done", record[call[r].slot].body)
               /\ record[call[r].slot].payload = call[r].payload
      <4>1. /\ record[call[r].slot].body \in Bodies \cup {NoBody}
            /\ [slot |-> call[r].slot, payload |-> call[r].payload,
                body |-> record[call[r].slot].body] \in made
        BY <2>3, <3>2 DEF Consistent, TypeOK, Record, RecordsAreRows, Replay,
           Recorded, Keyed
      <4> QED
        BY <2>3, <3>2, <4>1, Moving DEF Consistent, AnswersAreRows, Replay
    <3> QED
      BY <2>3, <3>1, <3>2 DEF Replay
  <2>4. ASSUME NEW r \in Requests, NEW b \in Fresh, Complete(r, b)
        PROVE  AnswersAreRows'
    BY <2>4, Moving DEF Consistent, AnswersAreRows, Complete, Fresh
  <2>5. ASSUME NEW r \in Requests, Look(r) \/ Reserve(r) \/ Fail(r)
        PROVE  AnswersAreRows'
    BY <2>2, <2>3, <2>5 DEF Look, Reserve, Fail, Open
  <2>6. CASE UNCHANGED idempotencyVars
    BY <2>6 DEF AnswersAreRows, idempotencyVars
  <2> QED
    BY <2>1, <2>4, <2>5, <2>6 DEF Next, Commit, RunOnLoop
<1>3. Consistent /\ AnswersAreRows => OneEffectPerKey
  <2> SUFFICES ASSUME Consistent, NEW e \in made, NEW f \in made,
                      e.slot = f.slot, e.slot # NoSlot
               PROVE  e = f
    BY DEF OneEffectPerKey
  <2>1. e.slot \in Slots /\ f.slot \in Slots
    BY DEF Consistent, TypeOK
  <2>2. /\ record[e.slot] = [payload |-> e.payload, body |-> e.body]
        /\ record[f.slot] = [payload |-> f.payload, body |-> f.body]
    BY <2>1 DEF Consistent, RecordsAreRows
  <2>3. e.payload = f.payload /\ e.body = f.body
    BY <2>2
  <2> QED
    BY <2>3 DEF Consistent, TypeOK
<1> QED
  BY <1>1, <1>2, <1>3, Consistency, PTL DEF Spec

(* Seen from outside, only the first call of a key does anything.          *)
THEOREM Implements == Spec => ImplementsFirstCall
<1>1. Init => Promise!Init
  BY DEF Init, Promise!Init, OutwardCall, Open
<1>2. ASSUME Consistent, AnswersAreRows, [Next]_idempotencyVars
      PROVE  [Promise!Next]_Promise!vars
  <2> USE <1>2
  <2> DEFINE state(at) == IF at \in Open THEN "open" ELSE at
  <2>1. ASSUME NEW r \in Requests, NEW b \in Bodies \cup {NoBody},
               NEW at \in Open \cup {"idle", "done", "refused", "failed"},
               MoveTo(r, at, b)
        PROVE  Promise!Tell(r, state(at), b)
    <3>1. OutwardCall' = [q \in Requests |->
             IF q = r THEN [slot |-> call[r].slot, payload |-> call[r].payload,
                            state |-> state(at), body |-> b]
                      ELSE OutwardCall[q]]
      BY <2>1, Moving DEF Consistent, OutwardCall
    <3> QED
      BY <3>1 DEF Promise!Tell, OutwardCall
  <2>2. ASSUME NEW r \in Requests
        PROVE  /\ OutwardCall[r].slot = call[r].slot
               /\ OutwardCall[r].payload = call[r].payload
               /\ OutwardCall[r].state = state(call[r].at)
    BY DEF OutwardCall
  <2>3. ASSUME NEW r \in Requests, NEW s \in Slots \cup {NoSlot},
               NEW p \in Payloads, Ask(r, s, p)
        PROVE  Promise!Ask(r, s, p)
    <3>1. OutwardCall' = [OutwardCall EXCEPT ![r] =
             [slot |-> s, payload |-> p, state |-> "open", body |-> NoBody]]
      BY <2>3 DEF Consistent, TypeOK, Call, Ask, OutwardCall, Open
    <3> QED
      BY <2>2, <2>3, <3>1 DEF Consistent, TypeOK, Call, Ask, Promise!Ask, Open
  <2>4. ASSUME NEW r \in Requests, call[r].at \in Open, Replay(r)
        PROVE  Promise!Next
    <3> DEFINE e == [slot |-> call[r].slot, payload |-> record[call[r].slot].payload,
                     body |-> record[call[r].slot].body]
    <3>1. e \in made /\ e.slot # NoSlot /\ e.body \in Bodies \cup {NoBody}
      BY <2>4, NoneAssumption DEF Consistent, TypeOK, Record, RecordsAreRows, Replay,
         Recorded, Keyed
    <3>2. e \in Promise!OfSlot(OutwardCall[r].slot) /\ OutwardCall[r].state = "open"
      BY <2>2, <2>4, <3>1 DEF Promise!OfSlot
    <3>3. Promise!Repeat(r, e) \/ Promise!Refuse(r, e)
      <4>1. CASE MoveTo(r, "done", e.body) /\ e.payload = call[r].payload
        BY <2>1, <2>2, <2>4, <3>1, <3>2, <4>1 DEF Promise!Repeat, Replay, Open
      <4>2. CASE MoveTo(r, "refused", NoBody) /\ e.payload # call[r].payload
        BY <2>1, <2>2, <2>4, <3>2, <4>2 DEF Promise!Refuse, Replay, Open
      <4> QED
        BY <2>4, <4>1, <4>2 DEF Replay
    <3> QED
      BY <3>1, <3>3 DEF Promise!Next
  <2>5. ASSUME NEW r \in Requests, NEW b \in Fresh, call[r].at \in Open,
               ~Recorded(r), Complete(r, b)
        PROVE  Promise!Next
    <3>1. Promise!OfSlot(OutwardCall[r].slot) = {}
      <4> SUFFICES ASSUME NEW e \in made, e.slot = call[r].slot, e.slot # NoSlot
                   PROVE  FALSE
        BY <2>2 DEF Promise!OfSlot
      <4>1. e.slot \in Slots /\ e.body \in Bodies
        BY DEF Consistent, TypeOK
      <4>2. record[e.slot] = [payload |-> e.payload, body |-> e.body]
        BY <4>1 DEF Consistent, RecordsAreRows
      <4> QED
        BY <2>5, <4>1, <4>2, NoneAssumption DEF Recorded, Keyed, NoRecord
    <3>2. Promise!Tell(r, "done", b)
      BY <2>1, <2>5 DEF Complete, Fresh, Open
    <3>3. Promise!Perform(r, b)
      BY <2>2, <2>5, <3>1, <3>2 DEF Promise!Perform, Complete, Fresh
    <3> QED
      BY <3>3 DEF Promise!Next, Fresh
  <2>6. ASSUME NEW r \in Requests, NEW at \in Open, call[r].at \in Open,
               MoveTo(r, at, NoBody), UNCHANGED <<record, made>>
        PROVE  UNCHANGED Promise!vars
    <3>1. call[r].body = NoBody
      BY <2>6 DEF AnswersAreRows, Open
    <3>2. OutwardCall' = OutwardCall
      BY <2>6, <3>1 DEF Consistent, TypeOK, Call, MoveTo, OutwardCall
    <3> QED
      BY <2>6, <3>2 DEF Promise!vars
  <2>7. ASSUME NEW r \in Requests, Fail(r)
        PROVE  Promise!Fail(r)
    BY <2>1, <2>2, <2>7 DEF Fail, Promise!Fail, Open
  <2>8. ASSUME NEW r \in Requests, Look(r) \/ Reserve(r)
        PROVE  [Promise!Next]_Promise!vars
    BY <2>4, <2>6, <2>8 DEF Look, Reserve, Open
  <2>9. ASSUME NEW r \in Requests, NEW b \in Fresh, Commit(r, b) \/ RunOnLoop(r, b)
        PROVE  Promise!Next
    BY <2>5, <2>9 DEF Commit, RunOnLoop, Open, Consistent, ReservationsExclude
  <2>10. CASE UNCHANGED idempotencyVars
    BY <2>10 DEF idempotencyVars, Promise!vars, OutwardCall
  <2> QED
    BY <2>3, <2>7, <2>8, <2>9, <2>10 DEF Next, Promise!Next
<1> QED
  BY <1>1, <1>2, Consistency, OneEffect, PTL
     DEF Spec, ImplementsFirstCall, Promise!Spec, OneEffectPerKey
==============================================================================
