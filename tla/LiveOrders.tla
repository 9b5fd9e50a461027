------------------------------ MODULE LiveOrders ------------------------------
(***************************************************************************)
(* How a customer's order reaches the screen of the mobile application:    *)
(* the orders controller (orders_controller.dart), the watch of one order  *)
(* over a WebSocket (order_repository.dart) and the hub of the backend     *)
(* that feeds it (core/websocket.py, routers/websockets.py).               *)
(*                                                                         *)
(* One order, at one of the stages 1 .. Ended, the last of which stands    *)
(* for every terminal status.  The application is one thread: what it does *)
(* between two awaits is one step.  Asynchronous operations (a page, a     *)
(* change of group, a logout, a detail) are `task's, and a watch is a      *)
(* generator that is suspended at an await of its own.                     *)
(*                                                                         *)
(* Cancelling the subscription of a generator does not wake it: cancel()   *)
(* completes when the generator has come to its next yield and has run its *)
(* finally blocks.  Several operations of the controller await that.       *)
(*                                                                         *)
(* Bounds: one order and one page, so loadMore has nothing to load; as     *)
(* many operations at once as there are Tasks, one detail among them.      *)
(***************************************************************************)
EXTENDS Naturals, Sequences, FiniteSets

CONSTANTS
  Ended,   \* the stage of an order that has come to its end
  Tasks    \* operations of the controller that may be under way at once

ASSUME LiveAssumption ==
  /\ Ended \in Nat /\ Ended >= 2
  /\ IsFiniteSet(Tasks)

VARIABLES
  status,    \* the order in the backend, 0 before it is submitted
  app,       \* what the controller has of the order
  view,      \* which list is chosen and whether it has been loaded
  task,      \* the operations under way
  watcher    \* the generators of watchOrder and their sockets

vars == <<status, app, view, task, watcher>>

Active == 1 .. Ended - 1
Stage == 0 .. Ended

Groups == {"all", "active", "history"}

(* What a page of group g contains of an order at stage s: s, or nothing.  *)
PageOf(g, s) == IF \/ g = "active" /\ s = Ended
                   \/ g = "history" /\ s \in Active
                THEN 0 ELSE s

(* One task waits for the cancellation of at most one watch.               *)
Watchers == 1 .. Cardinality(Tasks) + 1

(* shown: the stage in _orders, 0 when it is not there.                    *)
App == [shown : Stage,
        link : {"none", "connecting", "connected", "reconnecting", "unavailable"},
        subscribed : {0} \cup Watchers]

View == [group : Groups, hasLoaded : BOOLEAN, refreshing : BOOLEAN]

(* current: no later request has superseded it (_requestGeneration).       *)
(* from: the order when the request under way was sent, so that the answer *)
(* may be as old.  awaited: the watch whose cancellation it waits for.     *)
Task == [kind : {"none", "initial", "refresh", "select", "reset", "detail", "submit"},
         at : {"none", "cancel", "request", "sync"},
         current : BOOLEAN, from : Stage, awaited : {0} \cup Watchers]

NoTask == [kind |-> "none", at |-> "none", current |-> FALSE, from |-> 0, awaited |-> 0]

PageTask == {"initial", "refresh", "select"}

(* open: the socket is known to the hub.  queue: messages on their way to  *)
(* the application, the stage of an order.snapshot or order.status, or 0   *)
(* for a mission.status.  told: connectedReported.  from: the order when   *)
(* the GET under way, or the delay before it, began.                       *)
Watcher == [at : {"unused", "opening", "live", "refetch", "poll", "closing",
                  "over"},
            cancelled : BOOLEAN, open : BOOLEAN, told : BOOLEAN,
            queue : Seq(Stage), from : Stage]

Unused == [at |-> "unused", cancelled |-> FALSE, open |-> FALSE, told |-> FALSE,
           queue |-> <<>>, from |-> 0]
Opening == [Unused EXCEPT !.at = "opening"]

TypeOK ==
  /\ status \in Stage
  /\ app \in App
  /\ view \in View
  /\ task \in [Tasks -> Task]
  /\ watcher \in [Watchers -> Watcher]

Init ==
  /\ status \in {0, 1}
  /\ app = [shown |-> 0, link |-> "none", subscribed |-> 0]
  /\ view = [group |-> "all", hasLoaded |-> FALSE, refreshing |-> FALSE]
  /\ task = [t \in Tasks |-> NoTask]
  /\ watcher = [w \in Watchers |-> Unused]

-------------------------------------------------------------------------------
(* The backend.                                                            *)

(* A handler commits and broadcasts before anything else runs: the order   *)
(* itself, or the mission whose report moved it.                           *)
Advance ==
  /\ status \in Active
  /\ \E s \in status + 1 .. Ended : \E message \in {0, s} :
       /\ status' = s
       /\ watcher' = [w \in Watchers |->
            IF watcher[w].open THEN [watcher[w] EXCEPT !.queue = Append(@, message)]
                               ELSE watcher[w]]
  /\ UNCHANGED <<app, view, task>>

(* The connection breaks, or the backend restarts: the hub forgets the     *)
(* socket, and of what was on its way a beginning may still arrive.        *)
SocketLost(w) ==
  /\ watcher[w].open
  /\ \E n \in 0 .. Len(watcher[w].queue) :
       watcher' = [watcher EXCEPT ![w].open = FALSE, ![w].queue = SubSeq(@, 1, n)]
  /\ UNCHANGED <<status, app, view, task>>

-------------------------------------------------------------------------------
(* The watch of an order: watchOrder, _watchSocket and their listener.     *)

(* Mutant: a second watch of an order that is watched.                     *)
WatchingTwice(a, ws) ==
  IF a.shown \in Active /\ \E w \in Watchers : ws[w].at = "unused"
  THEN LET w == CHOOSE v \in Watchers : ws[v].at = "unused" IN
       /\ app' = [a EXCEPT !.link = "connecting", !.subscribed = w]
       /\ watcher' = [ws EXCEPT ![w] = Opening]
  ELSE app' = a /\ watcher' = ws

(* _ensureWatching, the controller's order being a and the watches ws.     *)
Watching(a, ws) ==
  IF a.shown \in Active /\ a.subscribed = 0
  THEN LET w == CHOOSE v \in Watchers : ws[v].at = "unused" IN
       /\ app' = [a EXCEPT !.link = "connecting", !.subscribed = w]
       /\ watcher' = [ws EXCEPT ![w] = Opening]
  ELSE app' = a /\ watcher' = ws

(* The listener's OrderSnapshotEvent.                                      *)
WithOrder(a, s) == [a EXCEPT !.shown = s, !.link = IF s = Ended THEN "none" ELSE @]

(* Mutant: the end of a watch is not told apart from the end of its order. *)
WatchEndedQuietly(a) == [a EXCEPT !.subscribed = 0, !.link = "none"]

(* The listener's onDone.                                                  *)
WatchEnded(a) ==
  [a EXCEPT !.subscribed = 0,
            !.link = IF a.shown \in Active THEN "unavailable" ELSE "none"]

(* The generator runs on to its next await, the controller having become a *)
(* in its events; when cancelled it returns at its first yield instead.    *)
RunTo(w, state, a) ==
  IF watcher[w].cancelled
  THEN watcher' = [watcher EXCEPT ![w] = [Unused EXCEPT !.at = "over", !.cancelled = TRUE]]
       /\ UNCHANGED app
  ELSE watcher' = [watcher EXCEPT ![w] = state] /\ app' = a

(* As RunTo, but with a socket to be closed before it can return.          *)
RunToOrClose(w, state, a) ==
  IF watcher[w].cancelled
  THEN watcher' = [watcher EXCEPT ![w] = [Unused EXCEPT !.at = "closing", !.cancelled = TRUE]]
       /\ UNCHANGED app
  ELSE watcher' = [watcher EXCEPT ![w] = state] /\ app' = a

(* The hub registers the socket and sends the snapshot in one step.        *)
Open(w) ==
  /\ watcher[w].at = "opening"
  /\ watcher' = [watcher EXCEPT ![w].at = "live", ![w].open = TRUE,
                                ![w].queue = <<status>>]
  /\ UNCHANGED <<status, app, view, task>>

(* Not opened, a refetch that failed, or nothing within socketIdleTimeout: *)
(* an open socket answers each ping.                                       *)
Broken(w) ==
  \/ watcher[w].at \in {"opening", "refetch"}
  \/ watcher[w].at = "live" /\ ~watcher[w].open /\ watcher[w].queue = <<>>

Fail(w) ==
  /\ Broken(w)
  /\ RunTo(w, [Unused EXCEPT !.at = "poll", !.from = status], [app EXCEPT !.link = "reconnecting"])
  /\ UNCHANGED <<status, view, task>>

(* The order s comes out of the socket's loop; a terminal one ends it.     *)
Yield(w, s, a) ==
  RunToOrClose(w, IF s = Ended THEN [Unused EXCEPT !.at = "closing"]
                  ELSE [watcher[w] EXCEPT !.at = "live", !.told = TRUE,
                          !.queue = IF watcher[w].at = "live" THEN Tail(@) ELSE @],
               WithOrder(a, s))

(* Mutant: a mission's status is not taken as a reason to read the order.  *)
ReceiveOrdersOnly(w) ==
  /\ watcher[w].at = "live" /\ watcher[w].queue # <<>>
  /\ IF Head(watcher[w].queue) = 0
     THEN watcher' = [watcher EXCEPT ![w].queue = Tail(@)] /\ UNCHANGED app
     ELSE Yield(w, Head(watcher[w].queue),
                [app EXCEPT !.link = IF watcher[w].told THEN @ ELSE "connected"])
  /\ UNCHANGED <<status, view, task>>

Receive(w) ==
  /\ watcher[w].at = "live" /\ watcher[w].queue # <<>>
  /\ LET a == [app EXCEPT !.link = IF watcher[w].told THEN @ ELSE "connected"]
     IN IF Head(watcher[w].queue) = 0
        THEN RunToOrClose(w, [watcher[w] EXCEPT !.at = "refetch", !.told = TRUE,
                                !.queue = Tail(@), !.from = status], a)
        ELSE Yield(w, Head(watcher[w].queue), a)
  /\ UNCHANGED <<status, view, task>>

(* What a GET returns may be as old as its request.                        *)
Refetched(w) ==
  /\ watcher[w].at = "refetch"
  /\ \E s \in watcher[w].from .. status : Yield(w, s, app)
  /\ UNCHANGED <<status, view, task>>

(* After the retry delay the order is fetched over HTTP.                   *)
Polled(w) ==
  /\ watcher[w].at = "poll"
  /\ \E s \in watcher[w].from .. status :
       IF s = Ended THEN RunTo(w, Unused, WatchEnded(WithOrder(app, s)))
       ELSE RunTo(w, Opening, [app EXCEPT !.shown = s, !.link = "connecting"])
  /\ UNCHANGED <<status, view, task>>

(* 401, 403 and 404 end the watch; anything else is tried again.           *)
PollFails(w) ==
  /\ watcher[w].at = "poll"
  /\ \/ RunTo(w, Opening, [app EXCEPT !.link = "reconnecting"])
     \/ RunTo(w, Unused, WatchEnded([app EXCEPT !.link = "unavailable"]))
  /\ UNCHANGED <<status, view, task>>

Closed(w) ==
  /\ watcher[w].at = "closing"
  /\ RunTo(w, Unused, WatchEnded(app))
  /\ UNCHANGED <<status, view, task>>

-------------------------------------------------------------------------------
(* The operations of the controller.                                       *)

Free(t) == task[t].kind = "none"

(* ++_requestGeneration, then the operation of task t.  The answer to a    *)
(* page that is not current any more changes nothing, so its task is       *)
(* forgotten here, unless it is waiting for a watch.                       *)
Superseding(t, new) ==
  [u \in Tasks |->
     IF u = t THEN new
     ELSE IF task[u].kind \in PageTask /\ task[u].at = "request" THEN NoTask
     ELSE [task[u] EXCEPT !.current = FALSE]]

Request(kind) ==
  [NoTask EXCEPT !.kind = kind, !.at = "request", !.current = TRUE, !.from = status]

(* A pending initial load of the same generation is shared.                *)
LoadInitial(t) ==
  /\ Free(t) /\ ~view.hasLoaded
  /\ \A u \in Tasks : ~(task[u].kind = "initial" /\ task[u].current)
  /\ task' = [task EXCEPT ![t] = Request("initial")]
  /\ UNCHANGED <<status, app, view, watcher>>

(* loadInitial with force: the retry button, and a login.                  *)
Reload(t) ==
  /\ Free(t)
  /\ task' = Superseding(t, Request("initial"))
  /\ view' = [view EXCEPT !.refreshing = FALSE]
  /\ UNCHANGED <<status, app, watcher>>

Refresh(t) ==
  /\ Free(t) /\ ~view.refreshing
  /\ task' = Superseding(t, Request("refresh"))
  /\ view' = [view EXCEPT !.refreshing = TRUE]
  /\ UNCHANGED <<status, app, watcher>>

(* The subscription is cancelled; what its events would carry is moot.     *)
CancelSubscribed ==
  watcher' = IF app.subscribed = 0 THEN watcher
             ELSE [watcher EXCEPT ![app.subscribed].cancelled = TRUE,
                                  ![app.subscribed].told = FALSE,
                                  ![app.subscribed].from = 0]

Awaiting(kind) ==
  [NoTask EXCEPT !.kind = kind, !.at = "cancel", !.current = TRUE,
                 !.awaited = app.subscribed]

SelectGroup(t, g) ==
  /\ Free(t)
  /\ ~(view.group = g /\ view.hasLoaded)
  /\ app' = [shown |-> 0, link |-> "none", subscribed |-> 0]
  /\ CancelSubscribed
  /\ task' = Superseding(t, IF app.subscribed = 0 THEN Request("select")
                            ELSE Awaiting("select"))
  /\ view' = [group |-> g, hasLoaded |-> FALSE, refreshing |-> FALSE]
  /\ UNCHANGED status

(* reset, when a customer logs out: everything is forgotten, but only once *)
(* the watch has been cancelled.                                           *)
Forget(t) ==
  /\ view' = [group |-> "all", hasLoaded |-> FALSE, refreshing |-> FALSE]
  /\ task' = Superseding(t, NoTask)

Reset(t) ==
  /\ Free(t)
  /\ CancelSubscribed
  /\ IF app.subscribed = 0
     THEN Forget(t) /\ app' = [app EXCEPT !.shown = 0, !.link = "none"]
     ELSE /\ app' = [app EXCEPT !.link = "none", !.subscribed = 0]
          /\ task' = [task EXCEPT ![t] = Awaiting("reset")]
          /\ UNCHANGED view
  /\ UNCHANGED status

Done(t) == task' = [task EXCEPT ![t] = NoTask]

Released(t) == [watcher EXCEPT ![task[t].awaited] = Unused]

(* The rest of selectGroup or reset, once the watch has been cancelled.    *)
WatchCancelled(t) ==
  /\ task[t].at = "cancel" /\ watcher[task[t].awaited].at = "over"
  /\ watcher' = Released(t)
  /\ \/ /\ task[t].kind = "select" /\ task[t].current
        /\ task' = [task EXCEPT ![t] = Request("select")]
        /\ UNCHANGED <<app, view>>
     \/ /\ task[t].kind = "select" /\ ~task[t].current
        /\ Done(t) /\ UNCHANGED <<app, view>>
     \/ /\ task[t].kind = "reset"
        /\ Forget(t) /\ app' = [app EXCEPT !.shown = 0]
  /\ UNCHANGED status

(* Mutant: an answer may be older than its request.                        *)
AnswersCached(t) == task[t].from - 1 .. status

(* The stages an answer may show.                                          *)
Answers(t) == task[t].from .. status

(* The finally block of _loadFirstPage.                                    *)
Finally(t, loaded) ==
  view' = [view EXCEPT !.hasLoaded = @ \/ loaded,
                       !.refreshing = @ /\ ~task[t].current]

RequestFails(t) ==
  /\ task[t].at = "request"
  /\ Done(t)
  /\ IF task[t].kind \in PageTask THEN Finally(t, FALSE) ELSE UNCHANGED view
  /\ UNCHANGED <<status, app, watcher>>

(* The first page replaces the list, and _syncWatchers begins: the watch   *)
(* of an order that is no longer active is cancelled, and that awaited.    *)
PageArrives(t) ==
  /\ task[t].at = "request" /\ task[t].kind \in PageTask
  /\ \E s \in Answers(t) :
       LET page == PageOf(view.group, s)
           a == [app EXCEPT !.shown = page]
       IN IF app.subscribed = 0 \/ page \in Active
          THEN Watching(a, watcher) /\ Done(t) /\ Finally(t, TRUE)
          ELSE /\ CancelSubscribed
               /\ app' = [a EXCEPT !.subscribed = 0]
               /\ task' = [task EXCEPT ![t].at = "sync", ![t].awaited = app.subscribed,
                                       ![t].from = 0]
               /\ view' = [view EXCEPT !.hasLoaded = TRUE]
  /\ UNCHANGED status

(* The rest of _syncWatchers, on the list as it is by then.                *)
WatchersSynced(t) ==
  /\ task[t].at = "sync" /\ watcher[task[t].awaited].at = "over"
  /\ Watching([app EXCEPT !.link = "none"], Released(t))
  /\ Done(t)
  /\ Finally(t, FALSE)
  /\ UNCHANGED status

(* loadDetails, of an order that has to be fetched or that is there.       *)
LoadDetails(t) ==
  /\ Free(t) /\ status # 0
  /\ \A u \in Tasks : task[u].kind # "detail"
  /\ task' = [task EXCEPT ![t] = Request("detail")]
  /\ UNCHANGED <<status, app, view, watcher>>

ReopenDetails ==
  /\ app.shown # 0
  /\ Watching(app, watcher)
  /\ UNCHANGED <<status, view, task>>

DetailArrives(t) ==
  /\ task[t].kind = "detail"
  /\ \E s \in Answers(t) : Watching([app EXCEPT !.shown = s], watcher)
  /\ Done(t)
  /\ UNCHANGED <<status, view>>

(* The checkout submits the order; its answer goes to upsertSubmitted.     *)
Submit(t) ==
  /\ Free(t) /\ status = 0
  /\ status' = 1
  /\ task' = [task EXCEPT ![t] = Request("submit")]
  /\ UNCHANGED <<app, view, watcher>>

SubmittedArrives(t) ==
  /\ task[t].kind = "submit"
  /\ Watching([app EXCEPT !.shown = 1], watcher)
  /\ Done(t)
  /\ view' = [view EXCEPT !.hasLoaded = TRUE]
  /\ UNCHANGED status

-------------------------------------------------------------------------------
WatchStep(w) ==
  \/ Open(w) \/ Fail(w) \/ Receive(w) \/ Refetched(w)
  \/ Polled(w) \/ PollFails(w) \/ Closed(w)

TaskStep(t) ==
  \/ WatchCancelled(t) \/ RequestFails(t) \/ PageArrives(t)
  \/ WatchersSynced(t) \/ DetailArrives(t) \/ SubmittedArrives(t)

CustomerStep(t) ==
  \/ LoadInitial(t) \/ Reload(t) \/ Refresh(t) \/ Reset(t)
  \/ LoadDetails(t) \/ Submit(t)
  \/ \E g \in Groups : SelectGroup(t, g)

Next ==
  \/ Advance
  \/ ReopenDetails
  \/ \E w \in Watchers : WatchStep(w) \/ SocketLost(w)
  \/ \E t \in Tasks : TaskStep(t) \/ CustomerStep(t)

Spec == Init /\ [][Next]_vars

-------------------------------------------------------------------------------
(* Every watch has one keeper: the watch that has not been cancelled is    *)
(* the one in _subscriptions, so that an order is never watched twice, no  *)
(* watch runs on unseen and onDone removes the subscription it belongs to; *)
(* and a cancelled one is awaited by one operation, so that none waits for *)
(* a watch that is gone (_ensureWatching, _syncWatchers and                *)
(* _cancelAllWatchers, across the awaits between them).                    *)
OneKeeper ==
  \A w \in Watchers :
    LET keepers == {t \in Tasks : task[t].awaited = w}
    IN /\ watcher[w].at # "unused" /\ ~watcher[w].cancelled <=> app.subscribed = w
       /\ IF watcher[w].cancelled THEN Cardinality(keepers) = 1 ELSE keepers = {}

(* An order shown as under way is being watched, or the screen says that   *)
(* updates are unavailable, or the controller has yet to finish a logout   *)
(* or a page.                                                              *)
ActiveIsWatched ==
  app.shown \in Active =>
    \/ app.subscribed # 0
    \/ app.link = "unavailable"
    \/ \E t \in Tasks : task[t].at \in {"cancel", "sync"}

(* Once the order has ended, no open socket is silent about it: the news,  *)
(* or a mission's status that makes the application read the order, is on  *)
(* its way.  With ActiveIsWatched this is why an order that has ended does *)
(* not stay under way on the screen, and why what awaits a cancelled watch *)
(* goes on (docs/API.md: the snapshot is fetched again after each loss).   *)
EndIsTold ==
  \A w \in Watchers :
    status = Ended /\ watcher[w].at = "live" /\ watcher[w].open =>
      \E i \in 1 .. Len(watcher[w].queue) : watcher[w].queue[i] \in {0, Ended}
==============================================================================
