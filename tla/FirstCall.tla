------------------------------- MODULE FirstCall -------------------------------
(***************************************************************************)
(* What an Idempotency-Key promises to a client that repeats a request: of *)
(* all the calls with one key the first to succeed has an effect, the      *)
(* others are answered with that effect or, if they ask for something      *)
(* else, refused.  No transaction, lookup or reservation is visible here.  *)
(* Idempotency implements this.                                            *)
(***************************************************************************)
CONSTANTS Requests, Slots, Payloads, Bodies, NoSlot, NoPayload, NoBody

VARIABLES
  call,   \* call[r]: the key, what is asked, and what became of it
  rows    \* the effects that exist, each with the call that made it

vars == <<call, rows>>

Init ==
  /\ call = [r \in Requests |-> [slot |-> NoSlot, payload |-> NoPayload,
                                 state |-> "idle", body |-> NoBody]]
  /\ rows = {}

Ask(r, s, p) ==
  /\ call[r].state # "open"
  /\ call' = [call EXCEPT ![r] = [slot |-> s, payload |-> p,
                                  state |-> "open", body |-> NoBody]]
  /\ UNCHANGED rows

Tell(r, state, b) ==
  call' = [call EXCEPT ![r] = [slot |-> @.slot, payload |-> @.payload,
                               state |-> state, body |-> b]]

OfSlot(s) == {e \in rows : e.slot = s /\ s # NoSlot}

Perform(r, b) ==
  /\ call[r].state = "open"
  /\ OfSlot(call[r].slot) = {}
  /\ b \notin {e.body : e \in rows}
  /\ rows' = rows \cup {[slot |-> call[r].slot, payload |-> call[r].payload, body |-> b]}
  /\ Tell(r, "done", b)

Repeat(r, e) ==
  /\ call[r].state = "open"
  /\ e \in OfSlot(call[r].slot)
  /\ e.payload = call[r].payload
  /\ Tell(r, "done", e.body)
  /\ UNCHANGED rows

Refuse(r, e) ==
  /\ call[r].state = "open"
  /\ e \in OfSlot(call[r].slot)
  /\ e.payload # call[r].payload
  /\ Tell(r, "refused", NoBody)
  /\ UNCHANGED rows

Fail(r) ==
  /\ call[r].state = "open"
  /\ Tell(r, "failed", NoBody)
  /\ UNCHANGED rows

Next ==
  \E r \in Requests :
    \/ \E s \in Slots \cup {NoSlot}, p \in Payloads : Ask(r, s, p)
    \/ \E b \in Bodies : Perform(r, b)
    \/ \E e \in rows : Repeat(r, e) \/ Refuse(r, e)
    \/ Fail(r)

Spec == Init /\ [][Next]_vars
==============================================================================
