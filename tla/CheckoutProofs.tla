----------------------------- MODULE CheckoutProofs -----------------------------
(***************************************************************************)
(* For any number of requests, purchases, keys and rows: an attempt to     *)
(* check out has one order and one delivery point, its repetition is never *)
(* refused, its order goes to the point confirmed for it, and the          *)
(* application shows a success once, for the order of that purchase.       *)
(*                                                                         *)
(* The invariant says what each request and row is for.  A key is used for *)
(* one content only, because the application takes a new one for another;  *)
(* a request for an order names the row of the point that was made under   *)
(* the same key, and a submission that of the order, because the           *)
(* application puts into it what it was answered under that key.  With one *)
(* row for each key and operation that leaves one payload for each, so     *)
(* that the backend meets no conflict.                                     *)
(***************************************************************************)
EXTENDS Checkout, TLAPS

Attempt == [key : Keys, content : Contents]

Statuses == {"NONE", "DRAFT", "PENDING_ADMIN_APPROVAL", "CANCELLED"}

TypeOK ==
  /\ status \in [Orders -> Statuses]
  /\ attempt \in Attempt \cup {NoAttempt}
  /\ stage \in {"idle", "point", "order", "submit"}
  /\ placed \subseteq Orders

ServerInv == Server!Consistent /\ Server!AnswersAreRows

(* A key and an operation are used by a request for them and by their row. *)
Use(s, p) == [slot |-> s, payload |-> p]

Uses == {Use(e.slot, e.payload) : e \in made}
        \cup {Use(call[r].slot, call[r].payload) :
                r \in {q \in Requests : call[q].at # "idle"}}

Row(slot, body) == \E e \in made : e.slot = slot /\ e.body = body

Derived(u) ==
  /\ u.slot \in CheckoutSlot /\ u.payload \in CheckoutPayload
  /\ u.slot.op = "point" =>
       u.payload.content \notin SavedContents /\ u.payload.point = None
  /\ u.slot.op = "order" =>
       IF u.payload.content \in SavedContents
       THEN u.payload.point = None
       ELSE Row(Slot("point", u.slot.key, None), u.payload.point)
  /\ u.slot.op = "submit" =>
       /\ u.payload = Payload(None, None)
       /\ Row(Slot("order", u.slot.key, None), u.slot.order)

UsesAreDerived == \A u \in Uses : Derived(u)

IsFor(u, a) ==
  u.slot.key = a.key /\ u.slot.op # "submit" => u.payload.content = a.content

OneContent ==
  \A u \in Uses :
    /\ IsFor(u, attempt)
    /\ \A v \in Uses : u.slot.op # "submit" =>
         IsFor(v, [key |-> u.slot.key, content |-> u.payload.content])

(* The application awaits the answer to a request of its attempt.          *)
Awaited ==
  stage # "idle" =>
    /\ attempt \in Attempt
    /\ waiting \in Requests
    /\ call[waiting].at # "idle"
    /\ call[waiting].slot.op = stage
    /\ call[waiting].slot.key = attempt.key

RowsAreOwn ==
  /\ \A e \in RowsOf("order") : status[e.body] # "NONE"
  /\ \A e \in RowsOf("submit") :
       /\ e.body = e.slot.order
       /\ status[e.body] \in {"PENDING_ADMIN_APPROVAL", "CANCELLED"}
  /\ \A e, f \in RowsOf("order") : e.body = f.body => e = f
  /\ \A e \in RowsOf("order") : e.body \in Orders
  /\ \A e \in RowsOf("point") : e.body \in Points

(* The purchases the customer was told of are over: their keys are not     *)
(* used again.                                                             *)
PlacedAreOver ==
  \A o \in placed : \E e \in RowsOf("order") : e.body = o /\ e.slot.key # attempt.key

CheckoutInv ==
  /\ TypeOK /\ ServerInv
  /\ UsesAreDerived /\ OneContent /\ Awaited /\ RowsAreOwn /\ PlacedAreOver
  /\ RetryNeverRefused

-------------------------------------------------------------------------------
(* The backend alone.  This is the invariant of Idempotency once more: the *)
(* answer to a submission names the order it submits, and not a row of its *)
(* own as each answer does in the specification of that module.            *)

At == Server!Open \cup {"idle", "done", "refused", "failed"}

(* A request moves, and nothing else about it or another request changes.  *)
Moves(r, at) ==
  /\ call' \in [Requests -> Server!Call]
  /\ \A q \in Requests : /\ call'[q].slot = call[q].slot
                         /\ call'[q].payload = call[q].payload
                         /\ q # r => call'[q] = call[q]
  /\ call'[r].at = at

LEMMA Moving ==
  ASSUME Server!TypeOK, NEW r \in Requests, NEW at \in At,
         NEW b \in Points \cup Orders \cup {None}, Server!MoveTo(r, at, b)
  PROVE  Moves(r, at) /\ call'[r].body = b
  BY DEF Server!TypeOK, Server!Call, Server!MoveTo, Moves, At

(* A request that moves without committing keeps the server's invariant    *)
(* unless it comes to act with a key that is recorded or reserved.         *)
LEMMA MovingKeeps ==
  ASSUME ServerInv, NEW r \in Requests, NEW at \in At, at # "done",
         Server!MoveTo(r, at, None), UNCHANGED <<record, made>>,
         at = "acting" => ~Server!Recorded(r) /\ (Server!Keyed(r) => ~Server!Blocked(r))
  PROVE  ServerInv' /\ Moves(r, at)
<1>1. Moves(r, at) /\ call'[r].body = None
  BY Moving DEF ServerInv, Server!Consistent
<1>2. Server!TypeOK'
  BY <1>1 DEF Moves, ServerInv, Server!Consistent, Server!TypeOK, Server!Record,
     Server!Call, Server!Open
<1>3. Server!ReservationsExclude'
  BY <1>1 DEF Moves, ServerInv, Server!Consistent, Server!ReservationsExclude,
     Server!Recorded, Server!Keyed, Server!Blocked, Server!NoRecord
<1>4. Server!RecordsAreRows'
  BY DEF ServerInv, Server!Consistent, Server!RecordsAreRows, Server!NoRecord
<1>5. Server!AnswersAreRows'
  BY <1>1 DEF Moves, ServerInv, Server!AnswersAreRows
<1> QED
  BY <1>1, <1>2, <1>3, <1>4, <1>5 DEF ServerInv, Server!Consistent

(* What is recorded is a row.                                              *)
LEMMA RecordedRow ==
  ASSUME ServerInv, NEW r \in Requests, Server!Recorded(r)
  PROVE  /\ [slot |-> call[r].slot, payload |-> record[call[r].slot].payload,
             body |-> record[call[r].slot].body] \in made
         /\ record[call[r].slot].body \in Points \cup Orders
  BY DEF ServerInv, Server!Consistent, Server!TypeOK, Server!RecordsAreRows,
     Server!Recorded, Server!Keyed

(* An answer from the record.                                              *)
LEMMA AnsweringKeeps ==
  ASSUME ServerInv, NEW r \in Requests, Server!Recorded(r),
         record[call[r].slot].payload = call[r].payload,
         Server!MoveTo(r, "done", record[call[r].slot].body),
         UNCHANGED <<record, made>>
  PROVE  ServerInv' /\ Moves(r, "done")
<1> DEFINE b == record[call[r].slot].body
<1>1. b \in Points \cup Orders
  BY RecordedRow
<1>2. Moves(r, "done") /\ call'[r].body = b
  BY <1>1, Moving DEF ServerInv, Server!Consistent, At
<1>3. Server!TypeOK'
  BY <1>2 DEF Moves, ServerInv, Server!Consistent, Server!TypeOK, Server!Record,
     Server!Call, Server!Open
<1>4. Server!ReservationsExclude'
  BY <1>2 DEF Moves, ServerInv, Server!Consistent, Server!ReservationsExclude,
     Server!Recorded, Server!Keyed, Server!NoRecord
<1>5. Server!RecordsAreRows'
  BY DEF ServerInv, Server!Consistent, Server!RecordsAreRows, Server!NoRecord
<1>6. Server!AnswersAreRows'
  BY <1>2, RecordedRow DEF Moves, ServerInv, Server!AnswersAreRows
<1> QED
  BY <1>2, <1>3, <1>4, <1>5, <1>6 DEF ServerInv, Server!Consistent

(* A commit adds one row and, under a key, the record that tells of it.    *)
LEMMA CompleteKeeps ==
  ASSUME ServerInv, NEW r \in Requests, NEW b \in Points \cup Orders,
         call[r].slot \in CheckoutSlot, call[r].payload \in CheckoutPayload,
         ~Server!Recorded(r), ~Server!Blocked(r), Server!Complete(r, b)
  PROVE  /\ ServerInv' /\ Moves(r, "done")
         /\ made' = made \cup {[slot |-> call[r].slot, payload |-> call[r].payload,
                                body |-> b]}
<1> DEFINE row == [slot |-> call[r].slot, payload |-> call[r].payload, body |-> b]
           entry == [payload |-> call[r].payload, body |-> b]
<1>1. Moves(r, "done") /\ call'[r].body = b
  BY Moving DEF ServerInv, Server!Consistent, Server!Complete, At
<1>2. /\ made' = made \cup {row}
      /\ record' = [record EXCEPT ![call[r].slot] = entry]
  BY DEF Server!Complete, Server!Keyed
<1>3. entry \in Server!Record /\ entry # Server!NoRecord
  BY AbsenceAssumption DEF Server!Record, Server!NoRecord
<1>4. record[call[r].slot] = Server!NoRecord
  BY DEF Server!Recorded, Server!Keyed
<1>5. \A s \in CheckoutSlot :
        record'[s] = IF s = call[r].slot THEN entry ELSE record[s]
  BY <1>2 DEF ServerInv, Server!Consistent, Server!TypeOK
<1>6. Server!TypeOK'
  <2>1. record' \in [CheckoutSlot -> Server!Record]
    BY <1>2, <1>3 DEF ServerInv, Server!Consistent, Server!TypeOK
  <2>2. made' \subseteq [slot : CheckoutSlot \cup {None},
                         payload : CheckoutPayload \cup {None}, body : Points \cup Orders]
    BY <1>2 DEF ServerInv, Server!Consistent, Server!TypeOK
  <2>3. call' \in [Requests -> Server!Call]
    BY <1>1 DEF Moves
  <2> QED
    BY <2>1, <2>2, <2>3 DEF Server!TypeOK, Server!Record, Server!Call, Server!Open
<1>7. Server!ReservationsExclude'
  <2>1. ASSUME NEW q \in Requests, call'[q].at = "acting"
        PROVE  q # r /\ call[q].at = "acting" /\ ~Server!Recorded(q)'
    <3>1. q # r /\ call[q].at = "acting" /\ call'[q].slot = call[q].slot
      BY <1>1, <2>1 DEF Moves
    <3>2. call[q].slot # call[r].slot
      BY <3>1 DEF Server!Blocked, Server!Keyed
    <3>3. ~Server!Recorded(q)
      BY <3>1 DEF ServerInv, Server!Consistent, Server!ReservationsExclude
    <3>4. call[q].slot \in CheckoutSlot => record'[call[q].slot] = record[call[q].slot]
      BY <1>5, <3>2
    <3> QED
      BY <3>1, <3>3, <3>4 DEF Server!Recorded, Server!Keyed, Server!NoRecord
  <2> QED
    BY <1>1, <2>1 DEF Moves, ServerInv, Server!Consistent, Server!ReservationsExclude,
       Server!Keyed
<1>8. Server!RecordsAreRows'
  <2>1. ASSUME NEW e \in made', e.slot \in CheckoutSlot
        PROVE  record'[e.slot] = [payload |-> e.payload, body |-> e.body]
    <3>1. CASE e = row
      BY <1>5, <3>1
    <3>2. CASE e \in made
      <4>1. /\ record[e.slot] = [payload |-> e.payload, body |-> e.body]
            /\ e.body \in Points \cup Orders
        BY <2>1, <3>2 DEF ServerInv, Server!Consistent, Server!RecordsAreRows,
           Server!TypeOK
      <4>2. e.slot # call[r].slot
        BY <1>4, <4>1, AbsenceAssumption DEF Server!NoRecord
      <4> QED
        BY <1>5, <2>1, <4>1, <4>2
    <3> QED
      BY <1>2, <2>1, <3>1, <3>2
  <2>2. ASSUME NEW s \in CheckoutSlot, record'[s] # Server!NoRecord
        PROVE  [slot |-> s, payload |-> record'[s].payload,
                body |-> record'[s].body] \in made'
    BY <1>2, <1>5, <2>2 DEF ServerInv, Server!Consistent, Server!RecordsAreRows
  <2> QED
    BY <2>1, <2>2 DEF Server!RecordsAreRows, Server!NoRecord
<1>9. Server!AnswersAreRows'
  BY <1>1, <1>2 DEF Moves, ServerInv, Server!AnswersAreRows
<1> QED
  BY <1>1, <1>2, <1>6, <1>7, <1>8, <1>9 DEF ServerInv, Server!Consistent

(* A new request takes a place that no running one has.                    *)
LEMMA AskKeeps ==
  ASSUME ServerInv, NEW r \in Requests, NEW s \in CheckoutSlot,
         NEW p \in CheckoutPayload, Server!Ask(r, s, p)
  PROVE  /\ ServerInv'
         /\ made' = made /\ record' = record
         /\ \A q \in Requests : q # r => call'[q] = call[q]
         /\ call'[r] = [slot |-> s, payload |-> p, at |-> "sent", body |-> None]
<1>1. /\ call' \in [Requests -> Server!Call]
      /\ \A q \in Requests : q # r => call'[q] = call[q]
      /\ call'[r] = [slot |-> s, payload |-> p, at |-> "sent", body |-> None]
      /\ record' = record /\ made' = made
  BY DEF ServerInv, Server!Consistent, Server!TypeOK, Server!Call, Server!Open, Server!Ask
<1>2. Server!TypeOK'
  BY <1>1 DEF ServerInv, Server!Consistent, Server!TypeOK, Server!Record,
     Server!Call, Server!Open
<1>3. Server!ReservationsExclude'
  BY <1>1 DEF ServerInv, Server!Consistent, Server!ReservationsExclude,
     Server!Recorded, Server!Keyed, Server!NoRecord
<1>4. Server!RecordsAreRows'
  BY <1>1 DEF ServerInv, Server!Consistent, Server!RecordsAreRows, Server!NoRecord
<1>5. Server!AnswersAreRows'
  BY <1>1 DEF ServerInv, Server!AnswersAreRows
<1> QED
  BY <1>1, <1>2, <1>3, <1>4, <1>5 DEF ServerInv, Server!Consistent

-------------------------------------------------------------------------------
(* What keys are used for. *)

LEMMA InUse ==
  /\ \A e \in made : Use(e.slot, e.payload) \in Uses
  /\ \A r \in Requests : call[r].at # "idle" =>
       Use(call[r].slot, call[r].payload) \in Uses
  BY DEF Uses

(* Under a key an operation has one row.                                   *)
LEMMA UniqueRow ==
  ASSUME ServerInv, NEW e \in made, NEW f \in made,
         e.slot = f.slot, e.slot \in CheckoutSlot
  PROVE  e = f
<1>1. /\ record[e.slot] = [payload |-> e.payload, body |-> e.body]
      /\ record[f.slot] = [payload |-> f.payload, body |-> f.body]
  BY DEF ServerInv, Server!Consistent, Server!RecordsAreRows
<1>2. e.payload = f.payload /\ e.body = f.body
  BY <1>1
<1> QED
  BY <1>2 DEF ServerInv, Server!Consistent, Server!TypeOK

(* An operation under a key is only ever asked for with one payload.       *)
LEMMA OnePayload ==
  ASSUME ServerInv, UsesAreDerived, OneContent,
         NEW u \in Uses, NEW v \in Uses, u.slot = v.slot
  PROVE  u.payload = v.payload
<1>1. Derived(u) /\ Derived(v)
  BY DEF UsesAreDerived
<1>2. u.slot.op \in {"point", "order", "submit"} /\ u.slot.key \in Keys
  BY <1>1 DEF Derived, CheckoutSlot
<1>3. u.slot.op # "submit" => u.payload.content = v.payload.content
  BY DEF OneContent, IsFor
<1>4. u.payload.point = v.payload.point /\ u.slot.op # "submit" => u.payload = v.payload
  BY <1>1, <1>3 DEF Derived, CheckoutPayload
<1>5. CASE u.slot.op = "submit"
  BY <1>1, <1>5 DEF Derived
<1>6. CASE u.slot.op = "point"
  BY <1>1, <1>4, <1>6 DEF Derived
<1>7. CASE u.slot.op = "order" /\ u.payload.content \in SavedContents
  BY <1>1, <1>3, <1>4, <1>7 DEF Derived
<1>8. CASE u.slot.op = "order" /\ u.payload.content \notin SavedContents
  <2> DEFINE s == Slot("point", u.slot.key, None)
  <2>1. Row(s, u.payload.point) /\ Row(s, v.payload.point)
    BY <1>1, <1>3, <1>8 DEF Derived
  <2>2. s \in CheckoutSlot
    BY <1>2, <1>8 DEF Slot, CheckoutSlot
  <2>3. u.payload.point = v.payload.point
    BY <2>1, <2>2, UniqueRow DEF Row
  <2> QED
    BY <1>4, <1>8, <2>3
<1> QED
  BY <1>2, <1>5, <1>6, <1>7, <1>8

LEMMA DerivedStays ==
  ASSUME NEW u, Derived(u), made \subseteq made'
  PROVE  Derived(u)'
  BY DEF Derived, Row

(* A step that brings no use with it keeps what keys are for.              *)
LEMMA UsesKept ==
  ASSUME UsesAreDerived, OneContent, Uses' \subseteq Uses, made \subseteq made',
         attempt' \in {attempt, NoAttempt}
  PROVE  UsesAreDerived' /\ OneContent'
<1>1. UsesAreDerived'
  BY DerivedStays DEF UsesAreDerived
<1>2. ASSUME NEW u \in Uses
      PROVE  IsFor(u, attempt')
  <2>1. u.slot.key \in Keys
    BY DEF UsesAreDerived, Derived, CheckoutSlot
  <2> QED
    BY <2>1, AbsenceAssumption DEF OneContent, IsFor, NoAttempt
<1>3. OneContent'
  BY <1>2 DEF OneContent, IsFor
<1> QED
  BY <1>1, <1>3

(* A step outside the backend's tables.                                    *)
LEMMA BackendKept ==
  ASSUME CheckoutInv, UNCHANGED serverVars, attempt' \in {attempt, NoAttempt}
  PROVE  ServerInv' /\ UsesAreDerived' /\ OneContent'
<1>1. call' = call /\ record' = record /\ made' = made
  BY DEF serverVars
<1>2. ServerInv'
  BY <1>1 DEF CheckoutInv, ServerInv, Server!Consistent, Server!TypeOK,
     Server!ReservationsExclude, Server!RecordsAreRows, Server!AnswersAreRows,
     Server!Recorded, Server!Keyed, Server!Record, Server!Call, Server!Open,
     Server!NoRecord
<1>3. Uses' = Uses
  BY <1>1 DEF Uses, Use
<1> QED
  BY <1>1, <1>2, <1>3, UsesKept DEF CheckoutInv

(* A request of the current attempt is a use that keeps what keys are for. *)
LEMMA AskedUse ==
  ASSUME ServerInv, UsesAreDerived, OneContent, NEW r \in Requests, NEW s, NEW p,
         NEW a \in Attempt, attempt' = a, Server!Ask(r, s, p), waiting' = r,
         stage' = s.op, Derived(Use(s, p)), s.key = a.key,
         s.op # "submit" => p.content = a.content,
         \A u \in Uses : IsFor(u, a)
  PROVE  UsesAreDerived' /\ OneContent' /\ Awaited' /\ ServerInv' /\ made' = made
         /\ \A q \in Requests : call'[q].at \in {call[q].at, "sent"}
<1>1. s \in CheckoutSlot /\ p \in CheckoutPayload
  BY DEF Derived, Use
<1>2. /\ ServerInv'
      /\ made' = made
      /\ \A q \in Requests : q # r => call'[q] = call[q]
      /\ call'[r] = [slot |-> s, payload |-> p, at |-> "sent", body |-> None]
  BY <1>1, AskKeeps
<1>3. Uses' \subseteq Uses \cup {Use(s, p)}
  BY <1>2 DEF Uses, Use
<1>4. UsesAreDerived'
  BY <1>2, <1>3, DerivedStays DEF UsesAreDerived
<1>5. IsFor(Use(s, p), a)
  BY DEF IsFor, Use
<1>6. ASSUME NEW u \in Uses \cup {Use(s, p)}, NEW v \in Uses \cup {Use(s, p)},
             u.slot.op # "submit"
      PROVE  IsFor(v, [key |-> u.slot.key, content |-> u.payload.content])
  <2>1. CASE u \in Uses /\ v \in Uses
    BY <1>6, <2>1 DEF OneContent
  <2>2. CASE u = Use(s, p)
    BY <1>5, <1>6, <2>2 DEF IsFor, Use
  <2>3. CASE u \in Uses /\ v = Use(s, p)
    BY <1>6, <2>3 DEF IsFor, Use
  <2> QED
    BY <1>6, <2>1, <2>2, <2>3
<1>7. OneContent'
  BY <1>3, <1>5, <1>6 DEF OneContent, IsFor
<1>8. Awaited'
  BY <1>2 DEF Awaited
<1> QED
  BY <1>2, <1>4, <1>7, <1>8

-------------------------------------------------------------------------------
(* The application. *)

(* A request is only sent from a place where none is under way.            *)
LEMMA Sending ==
  ASSUME NEW s, NEW p, Send(s, p)
  PROVE  \E r \in Requests : Server!Ask(r, s, p) /\ waiting' = r
  BY DEF Send, New

(* What the application adds to its own state on asking.                   *)
LEMMA AskedKeeps ==
  ASSUME CheckoutInv, NEW s, NEW p, NEW a \in Attempt, attempt' = a, Send(s, p),
         stage' = s.op, s.op \in {"point", "order", "submit"},
         Derived(Use(s, p)), s.key = a.key, s.op # "submit" => p.content = a.content,
         \A u \in Uses : IsFor(u, a),
         a = attempt \/ \A e \in made : e.slot.key # a.key,
         UNCHANGED <<placed, status>>
  PROVE  CheckoutInv'
<1>1. PICK r \in Requests : Server!Ask(r, s, p) /\ waiting' = r
  BY Sending
<1>2. /\ UsesAreDerived' /\ OneContent' /\ Awaited' /\ ServerInv'
      /\ made' = made
      /\ \A q \in Requests : call'[q].at \in {call[q].at, "sent"}
  BY <1>1, AskedUse DEF CheckoutInv
<1>3. TypeOK'
  BY DEF CheckoutInv, TypeOK
<1>4. RowsAreOwn'
  BY <1>2 DEF CheckoutInv, RowsAreOwn, RowsOf
<1>5. PlacedAreOver'
  BY <1>2 DEF CheckoutInv, PlacedAreOver, RowsOf
<1>6. RetryNeverRefused'
  BY <1>2 DEF CheckoutInv, RetryNeverRefused
<1> QED
  BY <1>2, <1>3, <1>4, <1>5, <1>6 DEF CheckoutInv

(* A new key is in no request and in no row.                               *)
LEMMA FreshKey ==
  ASSUME CheckoutInv, NEW k \in FreshKeys
  PROVE  /\ k \in Keys
         /\ \A u \in Uses : u.slot.key # k
         /\ \A e \in made : e.slot.key # k
<1>1. \A r \in Requests : call[r].at # "idle" => call[r].slot # None
  BY InUse, AbsenceAssumption DEF CheckoutInv, UsesAreDerived, Derived, Use
<1> QED
  BY <1>1 DEF FreshKeys, Uses, Use

LEMMA PayKeeps ==
  ASSUME CheckoutInv, NEW c \in Contents, Pay(c)
  PROVE  CheckoutInv'
<1>1. PICK a \in AttemptFor(c) :
        /\ attempt' = a
        /\ IF c \in SavedContents THEN SendOrder(a, None) ELSE SendPoint(a)
  BY DEF Pay
<1>2. /\ a \in Attempt /\ a.content = c
      /\ \A u \in Uses : IsFor(u, a)
      /\ a = attempt \/ \A e \in made : e.slot.key # a.key
  <2>1. CASE attempt.content = c
    <3>1. a = attempt
      BY <2>1 DEF AttemptFor
    <3>2. a \in Attempt
      BY <2>1, <3>1, AbsenceAssumption DEF CheckoutInv, TypeOK, NoAttempt
    <3> QED
      BY <2>1, <3>1, <3>2 DEF CheckoutInv, OneContent
  <2>2. CASE attempt.content # c
    <3>1. a.key \in FreshKeys /\ a.content = c /\ a = [key |-> a.key, content |-> c]
      BY <2>2 DEF AttemptFor, New
    <3>2. a.key \in Keys /\ \A u \in Uses : u.slot.key # a.key
      BY <3>1, FreshKey
    <3>3. \A e \in made : e.slot.key # a.key
      BY <3>1, FreshKey
    <3> QED
      BY <3>1, <3>2, <3>3 DEF IsFor, Attempt
  <2> QED
    BY <2>1, <2>2
<1>3. a.key \in Keys
  BY <1>2 DEF Attempt
<1>4. UNCHANGED <<placed, status>>
  BY DEF Pay
<1>5. CASE c \in SavedContents
  <2> DEFINE s == Slot("order", a.key, None)
             p == Payload(c, None)
  <2>1. s \in CheckoutSlot /\ p \in CheckoutPayload
    BY <1>3 DEF Slot, CheckoutSlot, Payload, CheckoutPayload
  <2>2. Derived(Use(s, p))
    BY <1>5, <2>1 DEF Derived, Use, Slot, Payload
  <2>3. Send(s, p) /\ stage' = s.op
    BY <1>1, <1>2, <1>5 DEF SendOrder, Slot
  <2>4. s.key = a.key /\ s.op = "order" /\ p.content = a.content
    BY <1>2 DEF Slot, Payload
  <2> QED
    BY <1>1, <1>2, <1>4, <2>2, <2>3, <2>4, AskedKeeps
<1>6. CASE c \notin SavedContents
  <2> DEFINE s == Slot("point", a.key, None)
             p == Payload(c, None)
  <2>1. s \in CheckoutSlot /\ p \in CheckoutPayload
    BY <1>3 DEF Slot, CheckoutSlot, Payload, CheckoutPayload
  <2>2. Derived(Use(s, p))
    BY <1>6, <2>1 DEF Derived, Use, Slot, Payload
  <2>3. Send(s, p) /\ stage' = s.op
    BY <1>1, <1>2, <1>6 DEF SendPoint, Slot
  <2>4. s.key = a.key /\ s.op = "point" /\ p.content = a.content
    BY <1>2 DEF Slot, Payload
  <2> QED
    BY <1>1, <1>2, <1>4, <2>2, <2>3, <2>4, AskedKeeps
<1> QED
  BY <1>5, <1>6

(* The answer that is awaited tells of the row of the current attempt.     *)
LEMMA AnswerIsOwn ==
  ASSUME CheckoutInv, NEW op \in {"point", "order", "submit"}, NEW r \in Requests,
         Answered(op, r)
  PROVE  /\ attempt \in Attempt
         /\ call[r].slot \in CheckoutSlot
         /\ call[r].slot.op = op /\ call[r].slot.key = attempt.key
         /\ [slot |-> call[r].slot, payload |-> call[r].payload,
             body |-> call[r].body] \in made
         /\ Use(call[r].slot, call[r].payload) \in Uses
         /\ Derived(Use(call[r].slot, call[r].payload))
<1>1. stage = op /\ r = waiting /\ call[r].at = "done"
  BY DEF Answered
<1>2. Use(call[r].slot, call[r].payload) \in Uses
  BY <1>1, InUse
<1>3. Derived(Use(call[r].slot, call[r].payload))
  BY <1>2 DEF CheckoutInv, UsesAreDerived
<1>4. attempt \in Attempt /\ call[r].slot.op = op /\ call[r].slot.key = attempt.key
  BY <1>1 DEF CheckoutInv, Awaited
<1> QED
  BY <1>1, <1>2, <1>3, <1>4 DEF CheckoutInv, ServerInv, Server!AnswersAreRows, Derived, Use

LEMMA GoOnToOrderKeeps ==
  ASSUME CheckoutInv, NEW r \in Requests, GoOnToOrder(r)
  PROVE  CheckoutInv'
<1> DEFINE b == call[r].body
           e == [slot |-> call[r].slot, payload |-> call[r].payload, body |-> b]
           s == Slot("order", attempt.key, None)
           p == Payload(attempt.content, b)
<1>1. /\ attempt \in Attempt
      /\ call[r].slot \in CheckoutSlot
      /\ call[r].slot.op = "point" /\ call[r].slot.key = attempt.key
      /\ e \in made
      /\ Use(call[r].slot, call[r].payload) \in Uses
      /\ Derived(Use(call[r].slot, call[r].payload))
  BY AnswerIsOwn DEF GoOnToOrder
<1>2. call[r].payload.content = attempt.content
  BY <1>1 DEF CheckoutInv, OneContent, IsFor, Use
<1>3. attempt.content \notin SavedContents
  BY <1>1, <1>2 DEF Derived, Use
<1>4. call[r].slot = Slot("point", attempt.key, None)
  BY <1>1 DEF CheckoutSlot, Slot
<1>5. b \in Points
  BY <1>1 DEF CheckoutInv, RowsAreOwn, RowsOf
<1>6. attempt.key \in Keys /\ attempt.content \in Contents
  BY <1>1 DEF Attempt
<1>7. s \in CheckoutSlot /\ p \in CheckoutPayload
  BY <1>5, <1>6 DEF Slot, CheckoutSlot, Payload, CheckoutPayload
<1>8. Row(Slot("point", attempt.key, None), b)
  BY <1>1, <1>4 DEF Row
<1>9. s.op = "order" /\ s.key = attempt.key /\ p.content = attempt.content /\ p.point = b
  BY DEF Slot, Payload
<1>10. Derived(Use(s, p))
  <2> HIDE DEF s, p
  <2> QED
    BY <1>3, <1>7, <1>8, <1>9 DEF Derived, Use
<1>11. attempt' = attempt /\ Send(s, p) /\ stage' = s.op /\ UNCHANGED <<placed, status>>
  BY <1>9 DEF GoOnToOrder, SendOrder
<1>12. \A u \in Uses : IsFor(u, attempt)
  BY DEF CheckoutInv, OneContent
<1> QED
  <2> HIDE DEF s, p
  <2> QED
    BY <1>1, <1>9, <1>10, <1>11, <1>12, AskedKeeps

LEMMA GoOnToSubmitKeeps ==
  ASSUME CheckoutInv, NEW r \in Requests, GoOnToSubmit(r)
  PROVE  CheckoutInv'
<1> DEFINE b == call[r].body
           e == [slot |-> call[r].slot, payload |-> call[r].payload, body |-> b]
           s == Slot("submit", attempt.key, b)
           p == Payload(None, None)
<1>1. /\ attempt \in Attempt
      /\ call[r].slot \in CheckoutSlot
      /\ call[r].slot.op = "order" /\ call[r].slot.key = attempt.key
      /\ e \in made
  BY AnswerIsOwn DEF GoOnToSubmit
<1>2. call[r].slot = Slot("order", attempt.key, None)
  BY <1>1 DEF CheckoutSlot, Slot
<1>3. b \in Orders
  BY <1>1 DEF CheckoutInv, RowsAreOwn, RowsOf
<1>4. s \in CheckoutSlot /\ p \in CheckoutPayload
  BY <1>1, <1>3 DEF Attempt, Slot, CheckoutSlot, Payload, CheckoutPayload
<1>5. Row(Slot("order", attempt.key, None), b)
  BY <1>1, <1>2 DEF Row
<1>6. s.op = "submit" /\ s.key = attempt.key /\ s.order = b
  BY DEF Slot
<1>7. Derived(Use(s, p))
  <2> HIDE DEF s
  <2> QED
    BY <1>4, <1>5, <1>6 DEF Derived, Use
<1>8. attempt' = attempt /\ Send(s, p) /\ stage' = s.op /\ UNCHANGED <<placed, status>>
  BY <1>6 DEF GoOnToSubmit, SendSubmit
<1>9. \A u \in Uses : IsFor(u, attempt)
  BY DEF CheckoutInv, OneContent
<1> QED
  <2> HIDE DEF s, p
  <2> QED
    BY <1>1, <1>6, <1>7, <1>8, <1>9, AskedKeeps

(* The order of an answered submission is that of the attempt.             *)
LEMMA SuccessIsOwn ==
  ASSUME CheckoutInv, NEW r \in Requests, Answered("submit", r)
  PROVE  \E e \in RowsOf("order") :
           /\ e.body = call[r].body /\ e.payload.content = attempt.content
           /\ e.slot.key = attempt.key
           /\ e.body \in Orders
           /\ e.body \notin placed
           /\ status[e.body] \in {"PENDING_ADMIN_APPROVAL", "CANCELLED"}
<1> DEFINE b == call[r].body
           f == [slot |-> call[r].slot, payload |-> call[r].payload, body |-> b]
<1>1. /\ attempt \in Attempt
      /\ call[r].slot \in CheckoutSlot
      /\ call[r].slot.op = "submit" /\ call[r].slot.key = attempt.key
      /\ f \in made
      /\ Derived(Use(call[r].slot, call[r].payload))
  BY AnswerIsOwn
<1>2. f \in RowsOf("submit")
  BY <1>1 DEF RowsOf
<1>3. b = call[r].slot.order /\ status[b] \in {"PENDING_ADMIN_APPROVAL", "CANCELLED"}
  BY <1>2 DEF CheckoutInv, RowsAreOwn
<1>4. Row(Slot("order", attempt.key, None), b)
  BY <1>1, <1>3 DEF Derived, Use
<1>5. PICK e \in made : e.slot = Slot("order", attempt.key, None) /\ e.body = b
  BY <1>4 DEF Row
<1>6. e \in RowsOf("order") /\ e.slot.key = attempt.key /\ e.slot.op = "order"
  BY <1>5 DEF RowsOf, Slot
<1>7. e.payload.content = attempt.content
  BY <1>6, InUse DEF CheckoutInv, OneContent, IsFor, Use
<1>8. e.body \in Orders
  BY <1>6 DEF CheckoutInv, RowsAreOwn
<1>9. e.body \notin placed
  <2> SUFFICES ASSUME e.body \in placed PROVE FALSE
    OBVIOUS
  <2>1. PICK g \in RowsOf("order") : g.body = e.body /\ g.slot.key # attempt.key
    BY DEF CheckoutInv, PlacedAreOver
  <2> QED
    BY <1>6, <2>1 DEF CheckoutInv, RowsAreOwn
<1> QED
  BY <1>3, <1>5, <1>6, <1>7, <1>8, <1>9

(* The end of a request as the application sees it.                        *)
LEMMA LeaveKeeps ==
  ASSUME CheckoutInv, Leave, attempt' \in {attempt, NoAttempt},
         UNCHANGED <<serverVars, status>>,
         \A o \in placed' : \E e \in RowsOf("order") :
           e.body = o /\ o \in Orders /\ e.slot.key # attempt'.key
  PROVE  CheckoutInv'
<1>1. call' = call /\ record' = record /\ made' = made /\ status' = status
  BY DEF serverVars
<1>2. ServerInv' /\ UsesAreDerived' /\ OneContent'
  BY BackendKept
<1>3. Awaited'
  BY DEF Awaited, Leave
<1>4. TypeOK'
  BY <1>1 DEF CheckoutInv, TypeOK, Leave
<1>5. RowsAreOwn' /\ RetryNeverRefused'
  BY <1>1 DEF CheckoutInv, RowsAreOwn, RowsOf, RetryNeverRefused
<1>6. PlacedAreOver'
  BY <1>1 DEF PlacedAreOver, RowsOf
<1> QED
  BY <1>2, <1>3, <1>4, <1>5, <1>6 DEF CheckoutInv

(* Rows have keys, and a purchase that is over stays so.                   *)
LEMMA PlacedKept ==
  ASSUME CheckoutInv, NEW o \in placed, attempt' \in {attempt, NoAttempt}
  PROVE  \E e \in RowsOf("order") :
           e.body = o /\ o \in Orders /\ e.slot.key # attempt'.key
<1>1. PICK e \in RowsOf("order") : e.body = o /\ e.slot.key # attempt.key
  BY DEF CheckoutInv, PlacedAreOver
<1>2. e.slot.key \in Keys
  BY <1>1, InUse DEF CheckoutInv, UsesAreDerived, Derived, Use, CheckoutSlot, RowsOf
<1>3. o \in Orders
  BY DEF CheckoutInv, TypeOK
<1> QED
  BY <1>1, <1>2, <1>3, AbsenceAssumption DEF NoAttempt

LEMMA FinishKeeps ==
  ASSUME CheckoutInv, NEW r \in Requests, Finish(r)
  PROVE  CheckoutInv'
<1>1. PICK e \in RowsOf("order") : /\ e.body = call[r].body /\ e.body \in Orders
  BY SuccessIsOwn DEF Finish
<1>2. e.slot.key \in Keys
  BY <1>1, InUse DEF CheckoutInv, UsesAreDerived, Derived, Use, CheckoutSlot, RowsOf
<1>3. attempt' = NoAttempt /\ placed' = placed \cup {call[r].body}
  BY DEF Finish
<1>4. e.slot.key # attempt'.key
  BY <1>2, <1>3, AbsenceAssumption DEF NoAttempt
<1>5. ASSUME NEW o \in placed'
      PROVE  \E g \in RowsOf("order") :
               g.body = o /\ o \in Orders /\ g.slot.key # attempt'.key
  BY <1>1, <1>3, <1>4, <1>5, PlacedKept
<1> QED
  BY <1>3, <1>5, LeaveKeeps DEF Finish

LEMMA StopKeeps ==
  ASSUME CheckoutInv, Refused \/ TimeOut \/ Restart
  PROVE  CheckoutInv'
<1>1. attempt' \in {attempt, NoAttempt} /\ placed' \subseteq placed
  BY DEF Refused, TimeOut, Restart
<1>2. \A o \in placed' : \E e \in RowsOf("order") :
        e.body = o /\ o \in Orders /\ e.slot.key # attempt'.key
  BY <1>1, PlacedKept
<1> QED
  BY <1>1, <1>2, LeaveKeeps DEF Refused, TimeOut, Restart

-------------------------------------------------------------------------------
(* The backend. *)

(* A request that moves on, and the row it commits, are the use it was.    *)
LEMMA MovedKeeps ==
  ASSUME CheckoutInv, NEW r \in Requests, call[r].at # "idle",
         NEW at \in At \ {"idle", "refused"}, Moves(r, at), ServerInv',
         made \subseteq made', UNCHANGED clientVars,
         \A e \in made' \ made : e.slot = call[r].slot /\ e.payload = call[r].payload,
         status' \in [Orders -> Statuses], RowsAreOwn'
  PROVE  CheckoutInv'
<1>1. attempt' = attempt /\ stage' = stage /\ waiting' = waiting /\ placed' = placed
  BY DEF clientVars
<1>2. \A q \in Requests : /\ call'[q].slot = call[q].slot
                          /\ call'[q].payload = call[q].payload
                          /\ call'[q].at = "idle" <=> call[q].at = "idle"
                          /\ call'[q].at = "refused" => call[q].at = "refused"
  BY DEF Moves
<1>3. Uses' \subseteq Uses
  <2>1. \A q \in Requests : call'[q].at # "idle" =>
          Use(call'[q].slot, call'[q].payload) \in Uses
    BY <1>2, InUse
  <2>2. \A e \in made' : Use(e.slot, e.payload) \in Uses
    BY InUse
  <2> QED
    BY <2>1, <2>2 DEF Uses, Use
<1>4. UsesAreDerived' /\ OneContent'
  BY <1>1, <1>3, UsesKept DEF CheckoutInv
<1>5. Awaited'
  BY <1>1, <1>2 DEF CheckoutInv, Awaited
<1>6. PlacedAreOver'
  BY <1>1 DEF CheckoutInv, PlacedAreOver, RowsOf
<1>7. RetryNeverRefused'
  BY <1>2 DEF CheckoutInv, RetryNeverRefused
<1>8. TypeOK'
  BY <1>1 DEF CheckoutInv, TypeOK
<1> QED
  BY <1>4, <1>5, <1>6, <1>7, <1>8 DEF CheckoutInv

(* A request under way has a key and a payload, and what is recorded under *)
(* its key is what it asks for.                                            *)
LEMMA UnderWay ==
  ASSUME CheckoutInv, NEW r \in Requests, call[r].at \in Server!Open
  PROVE  /\ call[r].at # "idle"
         /\ call[r].slot \in CheckoutSlot /\ call[r].payload \in CheckoutPayload
         /\ Derived(Use(call[r].slot, call[r].payload))
         /\ Server!Recorded(r) => record[call[r].slot].payload = call[r].payload
         /\ Op(r) = call[r].slot.op
<1>1. call[r].at # "idle"
  BY DEF Server!Open
<1>2. Use(call[r].slot, call[r].payload) \in Uses
  BY <1>1, InUse
<1>3. Derived(Use(call[r].slot, call[r].payload))
  BY <1>2 DEF CheckoutInv, UsesAreDerived
<1>4. call[r].slot \in CheckoutSlot /\ call[r].payload \in CheckoutPayload
  BY <1>3 DEF Derived, Use
<1>5. ASSUME Server!Recorded(r)
      PROVE  record[call[r].slot].payload = call[r].payload
  <2>1. [slot |-> call[r].slot, payload |-> record[call[r].slot].payload,
         body |-> record[call[r].slot].body] \in made
    BY <1>5, RecordedRow DEF CheckoutInv
  <2>2. Use(call[r].slot, record[call[r].slot].payload) \in Uses
    BY <2>1, InUse
  <2> QED
    BY <1>2, <2>2, OnePayload DEF CheckoutInv, Use
<1> QED
  BY <1>1, <1>3, <1>4, <1>5, AbsenceAssumption DEF Op

(* A step that makes no row.                                               *)
LEMMA SearchKeeps ==
  ASSUME CheckoutInv, NEW r \in Requests, Search(r) \/ Fail(r)
  PROVE  CheckoutInv'
<1>1. /\ Server!Look(r) \/ Server!Reserve(r) \/ Server!Fail(r)
      /\ UNCHANGED <<clientVars, status>>
  BY DEF Search, Fail
<1>2. call[r].at \in Server!Open
  BY <1>1 DEF Server!Look, Server!Reserve, Server!Fail, Server!Open
<1>3. /\ call[r].at # "idle" /\ call[r].slot \in CheckoutSlot
      /\ Server!Recorded(r) => record[call[r].slot].payload = call[r].payload
  BY <1>2, UnderWay
<1>4. record' = record /\ made' = made
  BY <1>1 DEF Server!Look, Server!Reserve, Server!Fail, Server!Replay
<1>5. \/ Server!Replay(r)
      \/ \E at \in {"inserting", "acting", "failed"} :
           /\ Server!MoveTo(r, at, None)
           /\ at = "acting" => ~Server!Recorded(r) /\ ~Server!Blocked(r)
  BY <1>1, <1>3 DEF Server!Look, Server!Reserve, Server!Fail, Server!Keyed
<1>6. \E at \in At \ {"idle", "refused"} : ServerInv' /\ Moves(r, at)
  <2>1. CASE Server!Replay(r)
    BY <1>3, <1>4, <2>1, AnsweringKeeps DEF CheckoutInv, Server!Replay, At
  <2>2. ASSUME NEW at \in {"inserting", "acting", "failed"},
               Server!MoveTo(r, at, None),
               at = "acting" => ~Server!Recorded(r) /\ ~Server!Blocked(r)
        PROVE  ServerInv' /\ Moves(r, at) /\ at \in At \ {"idle", "refused"}
    <3>1. at \in At /\ at # "done" /\ at \notin {"idle", "refused"}
      BY DEF At, Server!Open
    <3> QED
      BY <1>4, <2>2, <3>1, MovingKeeps DEF CheckoutInv
  <2> QED
    BY <1>5, <2>1, <2>2
<1>7. PICK at \in At \ {"idle", "refused"} : ServerInv' /\ Moves(r, at)
  BY <1>6
<1>8. RowsAreOwn' /\ status' \in [Orders -> Statuses] /\ UNCHANGED clientVars
  BY <1>1, <1>4 DEF CheckoutInv, RowsAreOwn, RowsOf, TypeOK
<1> QED
  BY <1>3, <1>4, <1>7, <1>8, MovedKeeps

(* A commit: what remains to be shown is that the new row is its own.      *)
LEMMA CommittedKeeps ==
  ASSUME CheckoutInv, NEW r \in Requests, NEW b \in Points \cup Orders,
         Server!Commit(r, b) \/ Server!RunOnLoop(r, b), UNCHANGED clientVars,
         status' \in [Orders -> Statuses],
         made' = made \cup {[slot |-> call[r].slot, payload |-> call[r].payload,
                             body |-> b]} => RowsAreOwn'
  PROVE  CheckoutInv'
<1>1. call[r].at \in Server!Open
  BY DEF Server!Commit, Server!RunOnLoop, Server!Open
<1>2. /\ call[r].at # "idle"
      /\ call[r].slot \in CheckoutSlot /\ call[r].payload \in CheckoutPayload
  BY <1>1, UnderWay
<1>3. Server!Complete(r, b) /\ ~Server!Recorded(r) /\ ~Server!Blocked(r)
  BY <1>2 DEF Server!Commit, Server!RunOnLoop, CheckoutInv, ServerInv,
     Server!Consistent, Server!ReservationsExclude, Server!Blocked, Server!Keyed
<1>4. /\ ServerInv' /\ Moves(r, "done")
      /\ made' = made \cup {[slot |-> call[r].slot, payload |-> call[r].payload,
                             body |-> b]}
  BY <1>2, <1>3, CompleteKeeps DEF CheckoutInv
<1>5. \A e \in made' \ made : e.slot = call[r].slot /\ e.payload = call[r].payload
  BY <1>4
<1>6. "done" \in At \ {"idle", "refused"}
  BY DEF At
<1> QED
  BY <1>2, <1>4, <1>5, <1>6, MovedKeeps

LEMMA CreatePointKeeps ==
  ASSUME CheckoutInv, NEW r \in Requests, CreatePoint(r)
  PROVE  CheckoutInv'
<1>1. PICK p \in Points \cap Server!Fresh : Server!Commit(r, p)
  BY DEF CreatePoint, New
<1>2. /\ UNCHANGED <<clientVars, status>> /\ call[r].slot.op = "point"
  BY DEF CreatePoint, Op
<1>3. ASSUME made' = made \cup {[slot |-> call[r].slot, payload |-> call[r].payload,
                                 body |-> p]}
      PROVE  RowsAreOwn'
  BY <1>1, <1>2, <1>3 DEF CheckoutInv, RowsAreOwn, RowsOf
<1> QED
  BY <1>1, <1>2, <1>3, CommittedKeeps DEF CheckoutInv, TypeOK

(* No row has the identity of a new order.                                 *)
LEMMA CreateOrderKeeps ==
  ASSUME CheckoutInv, NEW r \in Requests, CreateOrder(r)
  PROVE  CheckoutInv'
<1>1. PICK o \in Orders \cap Server!Fresh :
        /\ Server!Commit(r, o)
        /\ status' = [status EXCEPT ![o] = "DRAFT"]
  BY DEF CreateOrder, New
<1>2. UNCHANGED clientVars /\ call[r].slot.op = "order"
  BY DEF CreateOrder, Op
<1>3. \A e \in made : e.body # o
  BY <1>1 DEF Server!Fresh
<1>4. status' \in [Orders -> Statuses]
  BY <1>1 DEF CheckoutInv, TypeOK, Statuses
<1>5. \A x \in Orders \ {o} : status'[x] = status[x]
  BY <1>1 DEF CheckoutInv, TypeOK
<1>6. status'[o] = "DRAFT"
  BY <1>1 DEF CheckoutInv, TypeOK
<1>7. \A e \in RowsOf("submit") : e.body \in Orders
  BY InUse DEF CheckoutInv, RowsAreOwn, RowsOf, UsesAreDerived, Derived, Use, CheckoutSlot
<1>8. ASSUME made' = made \cup {[slot |-> call[r].slot, payload |-> call[r].payload,
                                 body |-> o]}
      PROVE  RowsAreOwn'
  BY <1>1, <1>2, <1>3, <1>5, <1>6, <1>7, <1>8 DEF CheckoutInv, RowsAreOwn, RowsOf
<1> QED
  BY <1>1, <1>2, <1>4, <1>8, CommittedKeeps

LEMMA SubmitKeeps ==
  ASSUME CheckoutInv, NEW r \in Requests, Submit(r)
  PROVE  CheckoutInv'
<1>1. PICK o : o = call[r].slot.order
  OBVIOUS
<1>2. /\ call[r].slot.op = "submit"
      /\ status[o] = "DRAFT"
      /\ Server!RunOnLoop(r, o)
      /\ status' = [status EXCEPT ![o] = "PENDING_ADMIN_APPROVAL"]
      /\ UNCHANGED clientVars
  BY <1>1 DEF Submit, Op
<1>3. call[r].slot \in CheckoutSlot
  BY <1>2, UnderWay DEF Server!RunOnLoop, Server!Open
<1>4. o \in Orders
  BY <1>1, <1>2, <1>3 DEF CheckoutSlot
<1>5. status' \in [Orders -> Statuses]
  BY <1>2 DEF CheckoutInv, TypeOK, Statuses
<1>6. \A x \in Orders : status'[x] = IF x = o THEN "PENDING_ADMIN_APPROVAL" ELSE status[x]
  BY <1>2, <1>4 DEF CheckoutInv, TypeOK
<1>7. \A e \in RowsOf("submit") : e.body \in Orders
  BY InUse DEF CheckoutInv, RowsAreOwn, RowsOf, UsesAreDerived, Derived, Use, CheckoutSlot
<1>8. ASSUME made' = made \cup {[slot |-> call[r].slot, payload |-> call[r].payload,
                                 body |-> o]}
      PROVE  RowsAreOwn'
  BY <1>1, <1>2, <1>4, <1>6, <1>7, <1>8 DEF CheckoutInv, RowsAreOwn, RowsOf
<1> QED
  BY <1>2, <1>4, <1>5, <1>8, CommittedKeeps

LEMMA CancelKeeps ==
  ASSUME CheckoutInv, NEW o \in Orders, Cancel(o)
  PROVE  CheckoutInv'
<1>1. /\ status[o] = "PENDING_ADMIN_APPROVAL"
      /\ status' = [status EXCEPT ![o] = "CANCELLED"]
      /\ call' = call /\ record' = record /\ made' = made
      /\ attempt' = attempt /\ stage' = stage /\ waiting' = waiting /\ placed' = placed
  BY DEF Cancel, serverVars, clientVars
<1>2. ServerInv' /\ UsesAreDerived' /\ OneContent'
  BY <1>1, BackendKept DEF serverVars
<1>3. TypeOK'
  BY <1>1 DEF CheckoutInv, TypeOK, Statuses
<1>4. \A x \in Orders : status'[x] = IF x = o THEN "CANCELLED" ELSE status[x]
  BY <1>1 DEF CheckoutInv, TypeOK
<1>5. \A e \in RowsOf("submit") : e.body \in Orders
  BY InUse DEF CheckoutInv, RowsAreOwn, RowsOf, UsesAreDerived, Derived, Use, CheckoutSlot
<1>6. RowsAreOwn'
  BY <1>1, <1>4, <1>5 DEF CheckoutInv, RowsAreOwn, RowsOf
<1>7. Awaited' /\ PlacedAreOver' /\ RetryNeverRefused'
  BY <1>1 DEF CheckoutInv, Awaited, PlacedAreOver, RowsOf, RetryNeverRefused
<1> QED
  BY <1>2, <1>3, <1>6, <1>7 DEF CheckoutInv

-------------------------------------------------------------------------------
LEMMA StutterKeeps ==
  ASSUME CheckoutInv, UNCHANGED vars
  PROVE  CheckoutInv'
<1>1. /\ call' = call /\ record' = record /\ made' = made /\ status' = status
      /\ attempt' = attempt /\ stage' = stage /\ waiting' = waiting /\ placed' = placed
  BY DEF vars, serverVars, clientVars
<1>2. ServerInv' /\ UsesAreDerived' /\ OneContent'
  BY <1>1, BackendKept DEF serverVars
<1> QED
  BY <1>1, <1>2 DEF CheckoutInv, TypeOK, Awaited, RowsAreOwn, PlacedAreOver,
     RowsOf, RetryNeverRefused

LEMMA CheckoutInit == Init => CheckoutInv
<1> SUFFICES ASSUME Init PROVE CheckoutInv
  OBVIOUS
<1>1. /\ call = [r \in Requests |-> [slot |-> None, payload |-> None,
                                     at |-> "idle", body |-> None]]
      /\ record = [s \in CheckoutSlot |-> Server!NoRecord]
      /\ made = {}
  BY DEF Init, Server!Init, Server!NoRecord
<1>2. ServerInv
  BY <1>1, AbsenceAssumption DEF ServerInv, Server!Consistent, Server!TypeOK,
     Server!Call, Server!Record, Server!NoRecord, Server!Open,
     Server!ReservationsExclude, Server!RecordsAreRows, Server!Recorded, Server!Keyed,
     Server!AnswersAreRows
<1>3. Uses = {} /\ \A op : RowsOf(op) = {}
  BY <1>1 DEF Uses, RowsOf
<1>4. TypeOK /\ Awaited /\ PlacedAreOver
  BY <1>3 DEF Init, TypeOK, Statuses, Awaited, PlacedAreOver
<1>5. RetryNeverRefused
  BY <1>1 DEF RetryNeverRefused
<1> QED
  BY <1>2, <1>3, <1>4, <1>5 DEF CheckoutInv, UsesAreDerived, OneContent, RowsAreOwn

LEMMA CheckoutStep == CheckoutInv /\ [Next]_vars => CheckoutInv'
<1> SUFFICES ASSUME CheckoutInv, [Next]_vars
             PROVE  CheckoutInv'
  OBVIOUS
<1>1. ASSUME NEW c \in Contents, Pay(c) PROVE CheckoutInv'
  BY <1>1, PayKeeps
<1>2. ASSUME NEW r \in Requests, GoOn(r) PROVE CheckoutInv'
  BY <1>2, GoOnToOrderKeeps, GoOnToSubmitKeeps, FinishKeeps DEF GoOn
<1>3. ASSUME NEW r \in Requests, Serve(r) \/ Fail(r) PROVE CheckoutInv'
  BY <1>3, SearchKeeps, CreatePointKeeps, CreateOrderKeeps, SubmitKeeps DEF Serve
<1>4. ASSUME NEW o \in Orders, Cancel(o) PROVE CheckoutInv'
  BY <1>4, CancelKeeps
<1>5. CASE Refused \/ TimeOut \/ Restart
  BY <1>5, StopKeeps
<1>6. CASE UNCHANGED vars
  BY <1>6, StutterKeeps
<1> QED
  BY <1>1, <1>2, <1>3, <1>4, <1>5, <1>6 DEF Next

(* What keys and rows are for holds at any time, so that every request and *)
(* every row can be traced to the one purchase whose key it has.           *)
THEOREM CheckoutIsTraceable == Spec => []CheckoutInv
  BY CheckoutInit, CheckoutStep, PTL DEF Spec

(* ApiCheckoutRepository.submit and execute_idempotently: paying again     *)
(* never makes a second order or delivery point of a purchase.             *)
THEOREM OneOrder == Spec => []OneOrderPerAttempt
<1>1. CheckoutInv => OneOrderPerAttempt
  <2> SUFFICES ASSUME CheckoutInv, NEW op \in {"point", "order"},
                      NEW e \in RowsOf(op), NEW f \in RowsOf(op),
                      e.slot.key = f.slot.key
               PROVE  e = f
    BY DEF OneOrderPerAttempt
  <2>1. e \in made /\ f \in made /\ e.slot.op = op /\ f.slot.op = op
    BY DEF RowsOf
  <2>2. e.slot \in CheckoutSlot /\ f.slot \in CheckoutSlot
    BY <2>1, InUse DEF CheckoutInv, UsesAreDerived, Derived, Use
  <2>3. e.slot = f.slot
    BY <2>1, <2>2 DEF CheckoutSlot
  <2> QED
    BY <2>1, <2>2, <2>3, UniqueRow DEF CheckoutInv
<1> QED
  BY <1>1, CheckoutIsTraceable, PTL

(* _validate_replay: what the application repeats under a key is what the  *)
(* key was first used for, so that it is answered and not refused.         *)
THEOREM RetriesAreAnswered == Spec => []RetryNeverRefused
<1>1. CheckoutInv => RetryNeverRefused
  BY DEF CheckoutInv
<1> QED
  BY <1>1, CheckoutIsTraceable, PTL

(* create_order: an order goes to the point confirmed under its own key,   *)
(* for its own content.                                                    *)
THEOREM OrdersGoToTheirPoints == Spec => []OrderGoesToItsPoint
<1>1. CheckoutInv => OrderGoesToItsPoint
  <2> SUFFICES ASSUME CheckoutInv, NEW e \in RowsOf("order"),
                      e.payload.content \notin SavedContents
               PROVE  \E f \in RowsOf("point") :
                        /\ f.body = e.payload.point
                        /\ f.payload.content = e.payload.content
                        /\ f.slot.key = e.slot.key
    BY DEF OrderGoesToItsPoint
  <2>1. e \in made /\ e.slot.op = "order" /\ Use(e.slot, e.payload) \in Uses
    BY InUse DEF RowsOf
  <2>2. Row(Slot("point", e.slot.key, None), e.payload.point)
    BY <2>1 DEF CheckoutInv, UsesAreDerived, Derived, Use
  <2>3. PICK f \in made : /\ f.slot = Slot("point", e.slot.key, None)
                          /\ f.body = e.payload.point
    BY <2>2 DEF Row
  <2>4. f.slot.op = "point" /\ f.slot.key = e.slot.key
    BY <2>3 DEF Slot
  <2>5. f \in RowsOf("point")
    BY <2>4 DEF RowsOf
  <2>6. f.payload.content = e.payload.content
    BY <2>1, <2>4, InUse DEF CheckoutInv, OneContent, IsFor, Use
  <2> QED
    BY <2>3, <2>4, <2>5, <2>6
<1> QED
  BY <1>1, CheckoutIsTraceable, PTL

(* The end of ApiCheckoutRepository.submit: each success shown is a new    *)
(* order of the content that was paid, and it has been submitted.          *)
THEOREM SuccessesAreOwn == Spec => SuccessIsItsOwnOrder
<1>1. CheckoutInv =>
        [\A r \in Requests : Finish(r) =>
           \E e \in RowsOf("order") :
             /\ e.body = call[r].body /\ e.payload.content = attempt.content
             /\ e.body \notin placed
             /\ status[e.body] \in {"PENDING_ADMIN_APPROVAL", "CANCELLED"}]_vars
  BY SuccessIsOwn DEF Finish
<1> QED
  BY <1>1, CheckoutIsTraceable, PTL DEF SuccessIsItsOwnOrder
================================================================================
