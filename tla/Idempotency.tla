------------------------------ MODULE Idempotency ------------------------------
(***************************************************************************)
(* execute_idempotently (backend/app/modules/idempotency/service.py): how  *)
(* a request with an Idempotency-Key is run at most once although several  *)
(* copies of it, sent again after a timeout, run at the same time in       *)
(* threads of the backend.                                                 *)
(*                                                                         *)
(* A slot is the unique triple (user, operation, key) of                   *)
(* idempotency_records; a request without the header has slot NoSlot.      *)
(* Each action is one database statement with what follows it: the lookup, *)
(* the flush that reserves the key, the commit.  A reservation is visible  *)
(* to others only as the wait it imposes on an insertion of the same key.  *)
(* The domain rows an action writes are kept in made with the request that *)
(* wrote them, so that properties can count them.                          *)
(***************************************************************************)
CONSTANTS
  Requests,   \* requests the server may be working on at once
  Slots,      \* (user, operation, key)
  Payloads,   \* request bodies, as told apart by request_fingerprint
  Bodies,     \* answers, each naming the row its action made
  NoSlot, NoPayload, NoBody

ASSUME NoneAssumption ==
  /\ NoSlot \notin Slots
  /\ NoPayload \notin Payloads
  /\ NoBody \notin Bodies

VARIABLES
  call,     \* call[r]: slot, payload, where it stands, the body it answered
  record,   \* record[s]: the committed IdempotencyRecord, or NoRecord
  made      \* what committed actions have written

idempotencyVars == <<call, record, made>>

Open == {"sent", "inserting", "acting"}

Call == [slot : Slots \cup {NoSlot}, payload : Payloads \cup {NoPayload},
         at : Open \cup {"idle", "done", "refused", "failed"},
         body : Bodies \cup {NoBody}]

Record == [payload : Payloads \cup {NoPayload}, body : Bodies \cup {NoBody}]

NoRecord == [payload |-> NoPayload, body |-> NoBody]

TypeOK ==
  /\ call \in [Requests -> Call]
  /\ record \in [Slots -> Record]
  /\ made \subseteq [slot : Slots \cup {NoSlot}, payload : Payloads \cup {NoPayload},
                     body : Bodies]

Init ==
  /\ call = [r \in Requests |-> [slot |-> NoSlot, payload |-> NoPayload,
                                 at |-> "idle", body |-> NoBody]]
  /\ record = [s \in Slots |-> NoRecord]
  /\ made = {}

Ask(r, s, p) ==
  /\ call[r].at \notin Open
  /\ call' = [call EXCEPT ![r] = [slot |-> s, payload |-> p,
                                  at |-> "sent", body |-> NoBody]]
  /\ UNCHANGED <<record, made>>

Keyed(r) == call[r].slot \in Slots

Recorded(r) == Keyed(r) /\ record[call[r].slot] # NoRecord

MoveTo(r, at, b) == call' = [call EXCEPT ![r] = [@ EXCEPT !.at = at, !.body = b]]

(* Mutant: the fingerprint of the recorded request is not compared.        *)
ReplayAnything(r) ==
  /\ Recorded(r)
  /\ MoveTo(r, "done", record[call[r].slot].body)
  /\ UNCHANGED <<record, made>>

(* _validate_replay *)
Replay(r) ==
  /\ Recorded(r)
  /\ \/ /\ record[call[r].slot].payload = call[r].payload
        /\ MoveTo(r, "done", record[call[r].slot].body)
     \/ /\ record[call[r].slot].payload # call[r].payload
        /\ MoveTo(r, "refused", NoBody)
  /\ UNCHANGED <<record, made>>

(* The first lookup.  Without a key there is nothing to reserve.           *)
Look(r) ==
  /\ call[r].at = "sent"
  /\ \/ Replay(r)
     \/ /\ ~Recorded(r)
        /\ MoveTo(r, IF Keyed(r) THEN "inserting" ELSE "acting", NoBody)
        /\ UNCHANGED <<record, made>>

(* The unique index lets one transaction hold an uncommitted key.          *)
Blocked(r) ==
  \E q \in Requests \ {r} :
    /\ call[q].at = "acting"
    /\ Keyed(q) /\ call[q].slot = call[r].slot

(* Mutant: the key is added to the session but not flushed.                *)
ReserveUnflushed(r) ==
  /\ call[r].at = "inserting"
  /\ MoveTo(r, "acting", NoBody)
  /\ UNCHANGED <<record, made>>

(* The flush: it inserts the key, waits while another transaction holds    *)
(* it, or fails because it is taken by now, and then looks again.          *)
Reserve(r) ==
  /\ call[r].at = "inserting"
  /\ ~Blocked(r)
  /\ \/ Replay(r)
     \/ /\ ~Recorded(r)
        /\ MoveTo(r, "acting", NoBody)
        /\ UNCHANGED <<record, made>>

(* Mutant: the record is committed before the answer is written into it.   *)
CompleteUnanswered(r, b) ==
  /\ MoveTo(r, "done", b)
  /\ record' = IF Keyed(r)
               THEN [record EXCEPT ![call[r].slot].payload = call[r].payload]
               ELSE record
  /\ made' = made \cup {[slot |-> call[r].slot, payload |-> call[r].payload, body |-> b]}

(* The action's rows and the record become visible together.               *)
Complete(r, b) ==
  /\ MoveTo(r, "done", b)
  /\ record' = IF Keyed(r)
               THEN [record EXCEPT ![call[r].slot] =
                       [payload |-> call[r].payload, body |-> b]]
               ELSE record
  /\ made' = made \cup {[slot |-> call[r].slot, payload |-> call[r].payload, body |-> b]}

Commit(r, b) == call[r].at = "acting" /\ Complete(r, b)

(* Primary keys are random: an action never makes a row that exists.       *)
Fresh == Bodies \ {e.body : e \in made}

(* An `async def' route: nothing of the event loop runs between its lookup *)
(* and its commit, and a key held by a thread makes it wait.               *)
RunOnLoop(r, b) ==
  /\ call[r].at = "sent"
  /\ ~Recorded(r) /\ ~Blocked(r)
  /\ Complete(r, b)

(* The action raises, or the connection or the process is lost: rollback.  *)
Fail(r) ==
  /\ call[r].at \in Open
  /\ MoveTo(r, "failed", NoBody)
  /\ UNCHANGED <<record, made>>

Next ==
  \E r \in Requests :
    \/ \E s \in Slots \cup {NoSlot}, p \in Payloads : Ask(r, s, p)
    \/ Look(r)
    \/ Reserve(r)
    \/ \E b \in Fresh : Commit(r, b) \/ RunOnLoop(r, b)
    \/ Fail(r)

Spec == Init /\ [][Next]_idempotencyVars

-------------------------------------------------------------------------------
(* Every success was told the row made for what it asks under its key.     *)
AnswersAreRows ==
  \A r \in Requests :
    /\ call[r].at = "done" =>
         [slot |-> call[r].slot, payload |-> call[r].payload,
          body |-> call[r].body] \in made
    /\ call[r].at # "done" => call[r].body = NoBody

(* Repeating a key with the same body returns the original result          *)
(* (docs/API.md, on the checkout): however many copies of a request run    *)
(* and however they interleave, those that were answered with success      *)
(* under one key were given the same row, and it is the only one that was  *)
(* made under that key.                                                    *)
OneEffectPerKey ==
  /\ AnswersAreRows
  /\ \A e, f \in made : e.slot = f.slot /\ e.slot # NoSlot => e = f

(* Reservations exclude each other and the record; records tell the rows.  *)
ReservationsExclude ==
  /\ \A r, q \in Requests :
       /\ call[r].at = "acting" /\ call[q].at = "acting"
       /\ Keyed(r) /\ call[r].slot = call[q].slot
       => r = q
  /\ \A r \in Requests : call[r].at = "acting" => ~Recorded(r)

RecordsAreRows ==
  /\ \A e \in made : e.slot \in Slots =>
       record[e.slot] = [payload |-> e.payload, body |-> e.body]
  /\ \A s \in Slots : record[s] # NoRecord =>
       [slot |-> s, payload |-> record[s].payload, body |-> record[s].body] \in made

(* The inductive invariant.                                                *)
Consistent == TypeOK /\ ReservationsExclude /\ RecordsAreRows

(* FirstCall sees neither reservations nor records.                        *)
OutwardCall ==
  [r \in Requests |->
     [slot |-> call[r].slot, payload |-> call[r].payload,
      state |-> IF call[r].at \in Open THEN "open" ELSE call[r].at,
      body |-> call[r].body]]

Promise == INSTANCE FirstCall WITH call <- OutwardCall, rows <- made

(* Whatever the interleaving, the server behaves as if every request ran   *)
(* by itself and only the first of its key did anything.                   *)
ImplementsFirstCall == Promise!Spec
==============================================================================
