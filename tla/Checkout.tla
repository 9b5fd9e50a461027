-------------------------------- MODULE Checkout --------------------------------
(***************************************************************************)
(* Placing an order from the mobile application: ApiCheckoutRepository     *)
(* (mobile/lib/core/repositories/checkout_repository.dart) asks the        *)
(* backend for a delivery point, an order and its submission, one request  *)
(* after the other, under keys derived from one attempt key (the           *)
(* validation before them changes nothing and is left out).  A request may *)
(* be lost, or its answer; the customer pays again, and the abandoned      *)
(* request may still be running.  The backend's side is Idempotency with   *)
(* the three actions of its routes.                                        *)
(*                                                                         *)
(* A content is what the fingerprint of the attempt covers: the cart, the  *)
(* payment method and the destination.  Contents whose destination is a    *)
(* saved location need no delivery point of their own.                     *)
(***************************************************************************)
EXTENDS FiniteSets

CONSTANTS
  Requests,        \* requests in flight or still running in the backend
  Contents, SavedContents,
  Keys,            \* attempt keys, 128 random bits each
  Points, Orders,  \* identities of delivery_points and orders rows
  None

ASSUME ContentAssumption == SavedContents \subseteq Contents

VARIABLES
  call, record, made,   \* the backend: see Idempotency
  status,    \* status[o]: status of the order row, or "NONE"
  attempt,   \* _attemptKey and _attemptFingerprint
  stage,     \* the POST that submit() awaits
  waiting,   \* the request whose answer it awaits
  placed     \* orders the application was told are placed

serverVars == <<call, record, made>>
clientVars == <<attempt, stage, waiting, placed>>
vars == <<serverVars, clientVars, status>>

Slot(op, key, o) == [op |-> op, key |-> key, order |-> o]

CheckoutSlot == [op : {"point", "order"}, key : Keys, order : {None}]
                \cup [op : {"submit"}, key : Keys, order : Orders]

Payload(c, p) == [content |-> c, point |-> p]

CheckoutPayload == [content : Contents \cup {None}, point : Points \cup {None}]

(* None is the absence of a content, a key, a row or a request.            *)
ASSUME AbsenceAssumption ==
  /\ None \notin Contents \cup Keys \cup Points \cup Orders
  /\ None \notin CheckoutSlot \cup CheckoutPayload

Server == INSTANCE Idempotency
            WITH Slots <- CheckoutSlot, Payloads <- CheckoutPayload,
                 Bodies <- Points \cup Orders,
                 NoSlot <- None, NoPayload <- None, NoBody <- None

NoAttempt == [key |-> None, content |-> None]

Init ==
  /\ Server!Init
  /\ status = [o \in Orders |-> "NONE"]
  /\ attempt = NoAttempt
  /\ stage = "idle"
  /\ waiting = None
  /\ placed = {}

-------------------------------------------------------------------------------
(* The application. *)

(* Keys and identities are random and unlike each other, and so are the    *)
(* places of requests: any new one stands for all, if there is one.        *)
New(S) == {x \in S : x = CHOOSE y \in S : TRUE}

Send(slot, payload) ==
  \E r \in New({q \in Requests : call[q].at \notin Server!Open}) :
    Server!Ask(r, slot, payload) /\ waiting' = r

SendPoint(a) ==
  /\ stage' = "point"
  /\ Send(Slot("point", a.key, None), Payload(a.content, None))

SendOrder(a, p) ==
  /\ stage' = "order"
  /\ Send(Slot("order", a.key, None), Payload(a.content, p))

SendSubmit(a, o) ==
  /\ stage' = "submit"
  /\ Send(Slot("submit", a.key, o), Payload(None, None))

(* A random key is none that any request, record or row was made with.     *)
FreshKeys ==
  Keys \ ({attempt.key} \cup {e.slot.key : e \in made}
          \cup {call[r].slot.key : r \in {q \in Requests : call[q].slot # None}})

(* Mutant: an attempt key is used up only by a success.                    *)
AttemptForAny(c) ==
  IF attempt.key # None THEN {[attempt EXCEPT !.content = c]}
  ELSE [key : New(FreshKeys), content : {c}]

(* The same content is the same attempt until it succeeds.                 *)
AttemptFor(c) ==
  IF attempt.content = c THEN {attempt} ELSE [key : New(FreshKeys), content : {c}]

Pay(c) ==
  /\ stage = "idle"
  /\ \E a \in AttemptFor(c) :
       /\ attempt' = a
       /\ IF c \in SavedContents THEN SendOrder(a, None) ELSE SendPoint(a)
  /\ UNCHANGED <<placed, status>>

(* Mutant: any answer that is not an error in transport will do.           *)
AnsweredAnyhow(op, r) == stage = op /\ r = waiting /\ call[r].at \notin Server!Open

(* Mutant: the answer of an abandoned request is taken for the awaited.    *)
AnsweredLate(op, r) == stage = op /\ call[r].at = "done" /\ call[r].slot.op = op

Answered(op, r) == stage = op /\ r = waiting /\ call[r].at = "done"

GoOnToOrder(r) ==
  /\ Answered("point", r)
  /\ SendOrder(attempt, call[r].body)
  /\ UNCHANGED <<attempt, placed, status>>

GoOnToSubmit(r) ==
  /\ Answered("order", r)
  /\ SendSubmit(attempt, call[r].body)
  /\ UNCHANGED <<attempt, placed, status>>

Leave == stage' = "idle" /\ waiting' = None

(* Mutant: the attempt outlives its success.                               *)
FinishKeepingAttempt(r) ==
  /\ Answered("submit", r)
  /\ placed' = placed \cup {call[r].body}
  /\ Leave
  /\ UNCHANGED <<attempt, serverVars, status>>

Finish(r) ==
  /\ Answered("submit", r)
  /\ attempt' = NoAttempt
  /\ placed' = placed \cup {call[r].body}
  /\ Leave
  /\ UNCHANGED <<serverVars, status>>

(* An error answer: the exception ends submit(), the attempt is kept.      *)
Refused ==
  /\ stage # "idle"
  /\ call[waiting].at \in {"refused", "failed"}
  /\ Leave
  /\ UNCHANGED <<attempt, placed, status, serverVars>>

(* No answer in twenty seconds, or none will come: the same, whatever      *)
(* becomes of the request.                                                 *)
TimeOut ==
  /\ stage # "idle"
  /\ call[waiting].at \notin {"refused", "failed"}
  /\ Leave
  /\ UNCHANGED <<attempt, placed, status, serverVars>>

(* The application is closed: the attempt was only in memory.              *)
Restart ==
  /\ attempt' = NoAttempt
  /\ placed' = {}
  /\ Leave
  /\ UNCHANGED <<status, serverVars>>

-------------------------------------------------------------------------------
(* The backend.  Two of the routes run in threads, step by step; the       *)
(* submission runs on the event loop, in one.                              *)

Op(r) == IF call[r].slot = None THEN "none" ELSE call[r].slot.op

(* Mutant: a submission that is repeated finds an order that is no draft.  *)
SearchBeforeSubmit(r) ==
  /\ IF Op(r) = "submit"
     THEN /\ Server!Recorded(r) /\ call[r].at = "sent"
          /\ Server!MoveTo(r, "refused", None)
          /\ UNCHANGED <<record, made>>
     ELSE Server!Look(r) \/ Server!Reserve(r)
  /\ UNCHANGED <<clientVars, status>>

Search(r) ==
  /\ IF Op(r) = "submit" THEN Server!Recorded(r) /\ Server!Look(r)
                         ELSE Server!Look(r) \/ Server!Reserve(r)
  /\ UNCHANGED <<clientVars, status>>

CreatePoint(r) ==
  /\ Op(r) = "point"
  /\ \E p \in New(Points \cap Server!Fresh) : Server!Commit(r, p)
  /\ UNCHANGED <<clientVars, status>>

CreateOrder(r) ==
  /\ Op(r) = "order"
  /\ \/ call[r].payload.content \in SavedContents
     \/ \E e \in made : e.body = call[r].payload.point
  /\ \E o \in New(Orders \cap Server!Fresh) :
       /\ Server!Commit(r, o)
       /\ status' = [status EXCEPT ![o] = "DRAFT"]
  /\ UNCHANGED clientVars

Submit(r) ==
  /\ Op(r) = "submit"
  /\ LET o == call[r].slot.order
     IN  /\ status[o] = "DRAFT"
         /\ Server!RunOnLoop(r, o)
         /\ status' = [status EXCEPT ![o] = "PENDING_ADMIN_APPROVAL"]
  /\ UNCHANGED clientVars

(* A product is no longer available, a confirmation is missing, the order  *)
(* is no draft; or the transaction is lost with its process.               *)
Fail(r) == Server!Fail(r) /\ UNCHANGED <<clientVars, status>>

(* Drafts are not listed, so the customer cancels submitted orders only.   *)
Cancel(o) ==
  /\ status[o] = "PENDING_ADMIN_APPROVAL"
  /\ status' = [status EXCEPT ![o] = "CANCELLED"]
  /\ UNCHANGED <<serverVars, clientVars>>

Serve(r) == Search(r) \/ CreatePoint(r) \/ CreateOrder(r) \/ Submit(r)

GoOn(r) == GoOnToOrder(r) \/ GoOnToSubmit(r) \/ Finish(r)

Next ==
  \/ \E c \in Contents : Pay(c)
  \/ \E r \in Requests : GoOn(r) \/ Serve(r) \/ Fail(r)
  \/ \E o \in Orders : Cancel(o)
  \/ Refused \/ TimeOut \/ Restart

Spec == Init /\ [][Next]_vars

(* In the end requests are answered in time and the customer who has not   *)
(* been told of the order pays for the same content again.                 *)
Disturbance ==
  \/ TimeOut \/ Restart
  \/ \E r \in Requests : Fail(r)
  \/ \E c \in Contents : attempt.content # None /\ c # attempt.content /\ Pay(c)

Fairness ==
  /\ <>[][~Disturbance]_vars
  /\ \A r \in Requests : WF_vars(Serve(r)) /\ WF_vars(GoOn(r))
  /\ WF_vars(Refused)
  /\ \A c \in Contents : WF_vars(attempt.content = c /\ Pay(c))

FairSpec == Spec /\ Fairness

-------------------------------------------------------------------------------
RowsOf(op) == {e \in made : e.slot.op = op}

(* Paying again after a timeout never makes a second order or point: an    *)
(* attempt has one of each, although an abandoned request may still run    *)
(* in a thread beside its repetition.                                      *)
OneOrderPerAttempt ==
  \A op \in {"point", "order"} : \A e, f \in RowsOf(op) :
    e.slot.key = f.slot.key => e = f

(* The application never meets the conflict of a key used with another     *)
(* content: whatever it was told before, it repeats a key only with the    *)
(* body that key was first used with.                                      *)
RetryNeverRefused == \A r \in Requests : call[r].at # "refused"

(* An order goes to the delivery point confirmed for its own content,      *)
(* however late the answers about other points come.                       *)
OrderGoesToItsPoint ==
  \A e \in RowsOf("order") :
    e.payload.content \notin SavedContents =>
      \E f \in RowsOf("point") : /\ f.body = e.payload.point
                                 /\ f.payload.content = e.payload.content
                                 /\ f.slot.key = e.slot.key

(* Each success shown to the customer is a new order, of the content that  *)
(* was paid, and submitted; it never shows an earlier purchase again.      *)
SuccessIsItsOwnOrder ==
  [][\A r \in Requests : Finish(r) =>
       \E e \in RowsOf("order") :
         /\ e.body = call[r].body /\ e.payload.content = attempt.content
         /\ e.body \notin placed
         /\ status[e.body] \in {"PENDING_ADMIN_APPROVAL", "CANCELLED"}]_vars

(* A purchase that was begun is finished once requests are answered again. *)
CheckoutCompletes == attempt.key # None ~> attempt = NoAttempt
==============================================================================
