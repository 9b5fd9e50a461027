---------------------------- MODULE LiveOrdersProofs ----------------------------
(***************************************************************************)
(* Theorems about the live list of orders, for any number of stages of an  *)
(* order and any number of operations of the controller at once.           *)
(***************************************************************************)
EXTENDS LiveOrders, SequenceTheorems, FiniteSetTheorems, TLAPS

(* What an operation waits for fits what it is.                            *)
TaskOK(r) ==
  /\ r.kind = "none" => r.at = "none"
  /\ r.kind \in {"detail", "submit"} => r.at = "request"
  /\ r.at = "sync" => r.kind \in PageTask
  /\ r.at = "cancel" => r.kind \in {"select", "reset"}
  /\ r.awaited # 0 <=> r.at \in {"cancel", "sync"}

TasksOK == \A t \in Tasks : TaskOK(task[t])

(* OneKeeper, and that no two operations await one watch: of the watch     *)
(* that is subscribed to, the watches and the operations.                  *)
KeptOf(subscribed, ws, ts) ==
  /\ \A w \in Watchers :
       /\ ws[w].at # "unused" /\ ~ws[w].cancelled <=> subscribed = w
       /\ ws[w].at = "unused" => ~ws[w].cancelled
       /\ ws[w].cancelled => \E t \in Tasks : ts[t].awaited = w
       /\ \A t \in Tasks : ts[t].awaited = w => ws[w].cancelled
  /\ \A t, u \in Tasks : ts[t].awaited = ts[u].awaited /\ ts[t].awaited # 0 => t = u

Kept == KeptOf(app.subscribed, watcher, task)

(* A change of group is not what an unwatched order waits for: it has      *)
(* emptied the list.                                                       *)
Pursued ==
  app.shown \in Active =>
    \/ app.subscribed # 0
    \/ app.link = "unavailable"
    \/ \E t \in Tasks : \/ task[t].at = "sync"
                        \/ task[t].at = "cancel" /\ task[t].kind = "reset"

(* Watch r has the news of an order at its end, or will read it.           *)
Tells(r) ==
  /\ r.open
  /\ \/ r.at = "live"
     \/ r.at = "refetch" /\ ~r.cancelled /\ r.from # Ended
  => \E i \in 1 .. Len(r.queue) : r.queue[i] \in {0, Ended}

Told == status = Ended => \A w \in Watchers : Tells(watcher[w])

LiveInv == TypeOK /\ TasksOK /\ Kept /\ Pursued /\ Told

LEMMA Sets ==
  /\ Watchers \subseteq Nat \ {0} /\ IsFiniteSet(Watchers)
  /\ Cardinality(Watchers) = Cardinality(Tasks) + 1
  /\ Stage \subseteq Nat /\ Active \subseteq Stage /\ 0 \in Stage /\ 1 \in Active
  /\ Ended \in Stage /\ Ended \notin Active /\ 0 \notin Active /\ Ended # 0
<1>1. Cardinality(Tasks) \in Nat
  BY LiveAssumption, FS_CardinalityType
<1>2. IsFiniteSet(1 .. Cardinality(Tasks) + 1)
      /\ Cardinality(1 .. Cardinality(Tasks) + 1) = Cardinality(Tasks) + 1
  BY <1>1, FS_Interval
<1> QED
  BY <1>1, <1>2, LiveAssumption DEF Watchers, Stage, Active

(* There is a place for a watch whenever none is subscribed to: of those   *)
(* that are taken each has an operation of its own that awaits it.         *)
LEMMA FreePlace ==
  ASSUME NEW ws, NEW ts, KeptOf(0, ws, ts)
  PROVE  \E w \in Watchers : ws[w].at = "unused"
<1> SUFFICES ASSUME \A w \in Watchers : ws[w].at # "unused"
             PROVE  FALSE
  OBVIOUS
<1>1. \A w \in Watchers : \E t \in Tasks : ts[t].awaited = w
  <2> SUFFICES ASSUME NEW w \in Watchers PROVE \E t \in Tasks : ts[t].awaited = w
    OBVIOUS
  <2>1. 0 # w
    BY Sets
  <2> QED
    BY <2>1 DEF KeptOf
<1> DEFINE f == [w \in Watchers |-> CHOOSE t \in Tasks : ts[t].awaited = w]
<1>2. f \in [Watchers -> Tasks]
  BY <1>1
<1>3. \A w \in Watchers : ts[f[w]].awaited = w
  BY <1>1
<1> HIDE DEF f
<1>4. IsFiniteSet(Tasks) /\ Cardinality(Tasks) \in Nat
  BY LiveAssumption, FS_CardinalityType
<1>5. IsFiniteSet(Watchers) /\ Cardinality(Tasks) < Cardinality(Watchers)
  BY <1>4, Sets
<1>6. PICK x, y \in Watchers : x # y /\ f[x] = f[y]
  BY <1>2, <1>4, <1>5, FS_PigeonHole
<1> QED
  BY <1>3, <1>6

LEMMA KeptIsOneKeeper == TypeOK /\ Kept => OneKeeper
<1> SUFFICES ASSUME TypeOK, Kept, NEW w \in Watchers
             PROVE  LET keepers == {t \in Tasks : task[t].awaited = w}
                    IN /\ watcher[w].at # "unused" /\ ~watcher[w].cancelled
                            <=> app.subscribed = w
                       /\ IF watcher[w].cancelled THEN Cardinality(keepers) = 1
                          ELSE keepers = {}
  BY DEF OneKeeper
<1> DEFINE keepers == {t \in Tasks : task[t].awaited = w}
<1>1. w # 0
  BY Sets
<1>2. CASE watcher[w].cancelled
  <2>1. PICK t \in Tasks : task[t].awaited = w
    BY <1>2 DEF Kept, KeptOf
  <2>2. keepers = {t}
    BY <1>1, <2>1 DEF Kept, KeptOf
  <2>3. Cardinality(keepers) = 1
    BY <2>2, FS_Singleton
  <2> QED
    BY <1>2, <2>3 DEF Kept, KeptOf
<1>3. CASE ~watcher[w].cancelled
  BY <1>3 DEF Kept, KeptOf
<1> QED
  BY <1>2, <1>3

LEMMA RecordsMade ==
  /\ \A a \in {"unused", "opening", "live", "refetch", "poll", "closing", "over"} :
       \A c, o, k \in BOOLEAN : \A q \in Seq(Stage) : \A s \in Stage :
         [at |-> a, cancelled |-> c, open |-> o, told |-> k, queue |-> q, from |-> s]
           \in Watcher
  /\ Unused \in Watcher /\ Opening \in Watcher
  /\ Unused.at = "unused" /\ ~Unused.cancelled /\ ~Unused.open
  /\ Opening.at = "opening" /\ ~Opening.cancelled /\ ~Opening.open
<1>1. \A a \in {"unused", "opening", "live", "refetch", "poll", "closing", "over"} :
       \A c, o, k \in BOOLEAN : \A q \in Seq(Stage) : \A s \in Stage :
         [at |-> a, cancelled |-> c, open |-> o, told |-> k, queue |-> q, from |-> s]
           \in Watcher
  BY DEF Watcher
<1>2. << >> \in Seq(Stage) /\ 0 \in Stage /\ FALSE \in BOOLEAN
  BY EmptySeq, Sets
<1>3. Unused \in Watcher
  BY <1>1, <1>2, Zenon DEF Unused
<1>4. Opening \in Watcher /\ Opening.at = "opening" /\ ~Opening.cancelled /\ ~Opening.open
  <2>1. [Unused EXCEPT !.at = "opening"] \in Watcher
    BY <1>3 DEF Watcher
  <2> QED
    BY <2>1 DEF Opening, Unused
<1> QED
  BY <1>1, <1>3, <1>4 DEF Unused

(* _ensureWatching leaves an active order watched, and every watch with    *)
(* its one keeper.                                                         *)
LEMMA WatchingKept ==
  ASSUME NEW a \in App, NEW ws \in [Watchers -> Watcher], NEW ts,
         KeptOf(a.subscribed, ws, ts), Watching(a, ws)
  PROVE  /\ app' \in App /\ watcher' \in [Watchers -> Watcher]
         /\ KeptOf(app'.subscribed, watcher', ts)
         /\ app'.shown = a.shown
         /\ app'.shown \in Active => app'.subscribed # 0
         /\ \A w \in Watchers : watcher'[w] = ws[w] \/ watcher'[w] = Opening
<1>1. CASE ~(a.shown \in Active /\ a.subscribed = 0)
  BY <1>1 DEF Watching
<1>2. CASE a.shown \in Active /\ a.subscribed = 0
  <2> DEFINE w == CHOOSE v \in Watchers : ws[v].at = "unused"
  <2>1. w \in Watchers /\ ws[w].at = "unused"
    BY <1>2, FreePlace
  <2>2. /\ app' = [a EXCEPT !.link = "connecting", !.subscribed = w]
        /\ watcher' = [ws EXCEPT ![w] = Opening]
    BY <1>2 DEF Watching
  <2> HIDE DEF w
  <2>3. app' \in App /\ app'.shown = a.shown /\ app'.subscribed = w
    BY <2>1, <2>2 DEF App
  <2>4. watcher' \in [Watchers -> Watcher]
    BY <2>1, <2>2, RecordsMade
  <2>5. w # 0
    BY <2>1, Sets
  <2>6. KeptOf(w, watcher', ts)
    BY <1>2, <2>1, <2>2, <2>5, RecordsMade DEF KeptOf
  <2> QED
    BY <2>1, <2>2, <2>3, <2>4, <2>5, <2>6
<1> QED
  BY <1>1, <1>2

(* One watch goes on, to a record r.                                       *)
LEMMA StepKept ==
  ASSUME TypeOK, Kept, NEW w \in Watchers, NEW r,
         watcher[w].at # "unused", watcher' = [watcher EXCEPT ![w] = r], task' = task,
         \/ watcher[w].cancelled /\ r.cancelled /\ r.at # "unused" /\ app' = app
         \/ /\ ~watcher[w].cancelled /\ ~r.cancelled /\ r.at # "unused"
            /\ app'.subscribed = app.subscribed
         \/ ~watcher[w].cancelled /\ r = Unused /\ app'.subscribed = 0
  PROVE  Kept'
<1>1. /\ \A v \in Watchers : watcher'[v] = IF v = w THEN r ELSE watcher[v]
      /\ \A v \in Watchers : v # 0
  BY Sets DEF TypeOK
<1>2. CASE watcher[w].cancelled /\ r.cancelled /\ r.at # "unused" /\ app' = app
  BY <1>1, <1>2 DEF Kept, KeptOf
<1>3. CASE /\ ~watcher[w].cancelled /\ ~r.cancelled /\ r.at # "unused"
           /\ app'.subscribed = app.subscribed
  BY <1>1, <1>3 DEF Kept, KeptOf
<1>4. CASE ~watcher[w].cancelled /\ r = Unused /\ app'.subscribed = 0
  BY <1>1, <1>4, RecordsMade DEF Kept, KeptOf
<1> QED
  BY <1>2, <1>3, <1>4

(* What becomes of a cancelled watch.                                      *)
LEMMA CancelledMade ==
  /\ [Unused EXCEPT !.at = "over", !.cancelled = TRUE] \in Watcher
  /\ [Unused EXCEPT !.at = "closing", !.cancelled = TRUE] \in Watcher
  /\ [Unused EXCEPT !.at = "closing"] \in Watcher
<1>1. \A r \in Watcher : /\ [r EXCEPT !.at = "over", !.cancelled = TRUE] \in Watcher
                         /\ [r EXCEPT !.at = "closing", !.cancelled = TRUE] \in Watcher
                         /\ [r EXCEPT !.at = "closing"] \in Watcher
  BY DEF Watcher
<1> QED
  BY <1>1, RecordsMade, Zenon

(* A watch that runs on to a record r with the controller's state a.       *)
LEMMA RunKeeps ==
  ASSUME LiveInv, NEW w \in Watchers, watcher[w].at # "unused", NEW r \in Watcher,
         NEW a \in App, RunTo(w, r, a) \/ RunToOrClose(w, r, a),
         UNCHANGED <<status, view, task>>,
         ~watcher[w].cancelled =>
           /\ ~r.cancelled
           /\ \/ r.at # "unused" /\ a.subscribed = app.subscribed
              \/ r = Unused /\ a.subscribed = 0 /\ (a.shown \in Active => a.link = "unavailable")
           /\ status = Ended => Tells(r)
  PROVE  LiveInv'
<1> USE DEF LiveInv
<1>1. w # 0 /\ (~watcher[w].cancelled => app.subscribed = w)
  BY Sets DEF Kept, KeptOf
<1>2. TasksOK' 
  BY DEF TasksOK
<1>3. CASE watcher[w].cancelled
  <2>1. PICK q \in {[Unused EXCEPT !.at = "over", !.cancelled = TRUE],
                    [Unused EXCEPT !.at = "closing", !.cancelled = TRUE]} :
           watcher' = [watcher EXCEPT ![w] = q]
    BY <1>3 DEF RunTo, RunToOrClose
  <2>2. app' = app
    BY <1>3 DEF RunTo, RunToOrClose
  <2>3. q \in Watcher /\ q.cancelled /\ q.at # "unused" /\ ~q.open
    BY CancelledMade DEF Unused
  <2>4. Kept'
    BY <1>3, <2>1, <2>2, <2>3, StepKept
  <2>5. TypeOK' /\ Pursued'
    BY <2>1, <2>2, <2>3 DEF TypeOK, Pursued
  <2>6. Told'
    BY <2>1, <2>3 DEF Told, Tells, TypeOK
  <2> QED
    BY <1>2, <2>4, <2>5, <2>6
<1>4. CASE ~watcher[w].cancelled
  <2>1. watcher' = [watcher EXCEPT ![w] = r] /\ app' = a
    BY <1>4 DEF RunTo, RunToOrClose
  <2>2. Kept'
    BY <1>4, <2>1, StepKept
  <2>3. TypeOK'
    BY <2>1 DEF TypeOK
  <2>4. Pursued'
    BY <1>1, <1>4, <2>1 DEF Pursued
  <2>5. Told'
    BY <1>4, <2>1 DEF Told, TypeOK
  <2> QED
    BY <1>2, <2>2, <2>3, <2>4, <2>5
<1> QED
  BY <1>3, <1>4

LEMMA AppMade ==
  ASSUME NEW a \in App
  PROVE  /\ \A l \in {"none", "connecting", "connected", "reconnecting", "unavailable"} :
              /\ [a EXCEPT !.link = l] \in App
              /\ \A s \in Stage : [a EXCEPT !.shown = s, !.link = l] \in App
         /\ \A s \in Stage : [a EXCEPT !.shown = s] \in App
         /\ \A s \in Stage : /\ WithOrder(a, s) \in App /\ WithOrder(a, s).shown = s
                             /\ WithOrder(a, s).subscribed = a.subscribed
         /\ WatchEnded(a) \in App /\ WatchEnded(a).subscribed = 0
         /\ WatchEnded(a).shown = a.shown
         /\ a.shown \in Active => WatchEnded(a).link = "unavailable"
<1>1. \A l \in {"none", "connecting", "connected", "reconnecting", "unavailable"} :
        /\ [a EXCEPT !.link = l] \in App
        /\ \A s \in Stage : [a EXCEPT !.shown = s, !.link = l] \in App
  BY DEF App
<1>2. \A s \in Stage : [a EXCEPT !.shown = s] \in App
  BY DEF App
<1>3. \A s \in Stage : /\ WithOrder(a, s) \in App /\ WithOrder(a, s).shown = s
                       /\ WithOrder(a, s).subscribed = a.subscribed
  BY DEF App, WithOrder
<1>4. /\ WatchEnded(a) \in App /\ WatchEnded(a).subscribed = 0
      /\ WatchEnded(a).shown = a.shown
      /\ a.shown \in Active => WatchEnded(a).link = "unavailable"
  BY DEF App, WatchEnded
<1> QED
  BY <1>1, <1>2, <1>3, <1>4

(* An order that comes out of the socket.                                  *)
LEMMA YieldKeeps ==
  ASSUME LiveInv, NEW w \in Watchers, watcher[w].at \in {"live", "refetch"},
         watcher[w].at = "live" => watcher[w].queue # << >>,
         NEW s \in Stage, NEW a \in App, a.subscribed = app.subscribed, Yield(w, s, a),
         UNCHANGED <<status, view, task>>,
         status = Ended /\ ~watcher[w].cancelled /\ s # Ended =>
           /\ Tells(watcher[w])
           /\ watcher[w].at = "live" => Head(watcher[w].queue) = s /\ s # 0
           /\ watcher[w].at = "refetch" => watcher[w].from # Ended
  PROVE  LiveInv'
<1> DEFINE q == IF watcher[w].at = "live" THEN Tail(watcher[w].queue) ELSE watcher[w].queue
           r == IF s = Ended THEN [Unused EXCEPT !.at = "closing"]
                ELSE [watcher[w] EXCEPT !.at = "live", !.told = TRUE, !.queue = q]
<1>1. RunToOrClose(w, r, WithOrder(a, s))
  BY DEF Yield
<1>2. watcher[w] \in Watcher /\ watcher[w].queue \in Seq(Stage) /\ watcher[w].at # "unused"
  BY DEF LiveInv, TypeOK, Watcher
<1>3. q \in Seq(Stage)
  BY <1>2, HeadTailProperties
<1>4. CASE s = Ended
  <2>1. /\ r \in Watcher /\ ~r.cancelled /\ r.at # "unused" /\ ~r.open
    BY <1>4, CancelledMade DEF Unused
  <2> HIDE DEF r
  <2>2. WithOrder(a, s) \in App /\ WithOrder(a, s).subscribed = app.subscribed
    BY AppMade
  <2> QED
    BY <1>1, <1>2, <2>1, <2>2, RunKeeps DEF Tells
<1>5. CASE s # Ended
  <2>1. /\ r.at = "live" /\ r.queue = q /\ r.open = watcher[w].open
        /\ r.cancelled = watcher[w].cancelled
    BY <1>2, <1>5 DEF Watcher
  <2>2. r \in Watcher
    <3> HIDE DEF q
    <3>1. [watcher[w] EXCEPT !.at = "live", !.told = TRUE, !.queue = q] \in Watcher
      BY <1>2, <1>3 DEF Watcher
    <3> QED
      BY <1>5, <3>1
  <2>3. ASSUME status = Ended, ~watcher[w].cancelled PROVE Tells(r)
    <3>1. CASE watcher[w].at = "refetch"
      BY <1>5, <2>1, <2>3, <3>1 DEF Tells
    <3>2. CASE watcher[w].at = "live" /\ r.open
      <4>1. PICK i \in 1 .. Len(watcher[w].queue) : watcher[w].queue[i] \in {0, Ended}
        BY <1>5, <2>1, <2>3, <3>2 DEF Tells
      <4>2. Head(watcher[w].queue) \notin {0, Ended} /\ watcher[w].queue # << >>
        BY <1>5, <2>3, <3>2
      <4>3. /\ Len(watcher[w].queue) \in Nat \ {0}
            /\ Head(watcher[w].queue) = watcher[w].queue[1]
            /\ Len(q) = Len(watcher[w].queue) - 1
            /\ \A j \in 1 .. Len(q) : q[j] = watcher[w].queue[j + 1]
        BY <1>2, <3>2, <4>2, HeadTailProperties, EmptySeq
      <4>4. i - 1 \in 1 .. Len(q) /\ q[i - 1] \in {0, Ended}
        BY <4>1, <4>2, <4>3
      <4> QED
        BY <2>1, <4>4 DEF Tells
    <3> QED
      BY <3>1, <3>2 DEF Tells
  <2> HIDE DEF r
  <2>4. WithOrder(a, s) \in App /\ WithOrder(a, s).subscribed = app.subscribed
    BY AppMade
  <2> QED
    BY <1>1, <1>2, <2>1, <2>2, <2>3, <2>4, RunKeeps
<1> QED
  BY <1>4, <1>5

LEMMA WatchKeeps ==
  ASSUME LiveInv, NEW w \in Watchers, WatchStep(w)
  PROVE  LiveInv'
<1>1. /\ watcher[w] \in Watcher /\ watcher[w].queue \in Seq(Stage) /\ app \in App
      /\ watcher[w].from \in Stage /\ status \in Stage
  BY DEF LiveInv, TypeOK, Watcher
<1>2. /\ \A l \in {"none", "connecting", "connected", "reconnecting", "unavailable"} :
           /\ [app EXCEPT !.link = l] \in App
           /\ [app EXCEPT !.link = l].subscribed = app.subscribed
           /\ [app EXCEPT !.link = l].shown = app.shown
  <2>1. \A a \in App : \A l : /\ [a EXCEPT !.link = l].subscribed = a.subscribed
                             /\ [a EXCEPT !.link = l].shown = a.shown
    BY DEF App
  <2> QED
    BY <1>1, <2>1, AppMade
<1>3. CASE Open(w)
  <2> DEFINE r == [watcher[w] EXCEPT !.at = "live", !.open = TRUE, !.queue = <<status>>]
  <2>1. watcher' = [watcher EXCEPT ![w] = r] /\ UNCHANGED <<status, app, view, task>>
    BY <1>1, <1>3 DEF Open, LiveInv, TypeOK
  <2>2. <<status>> \in Seq(Stage) /\ Len(<<status>>) = 1 /\ <<status>>[1] = status
    BY <1>1
  <2>3. r \in Watcher /\ r.cancelled = watcher[w].cancelled /\ r.at = "live"
        /\ r.queue = <<status>>
    <3> DEFINE one == <<status>>
    <3>1. one \in Seq(Stage)
      BY <2>2
    <3> HIDE DEF one
    <3>2. [watcher[w] EXCEPT !.at = "live", !.open = TRUE, !.queue = one] \in Watcher
      BY <1>1, <3>1 DEF Watcher
    <3> QED
      BY <1>1, <3>2 DEF one, Watcher
  <2>4. status = Ended => Tells(r)
    BY <2>2, <2>3 DEF Tells
  <2> HIDE DEF r
  <2>5. watcher[w].at # "unused"
    BY <1>3 DEF Open
  <2>6. Kept'
    BY <2>1, <2>3, <2>5, StepKept DEF LiveInv
  <2> QED
    BY <2>1, <2>3, <2>4, <2>6 DEF LiveInv, TypeOK, TasksOK, Pursued, Told
<1>4. CASE Fail(w)
  <2> DEFINE r == [Unused EXCEPT !.at = "poll", !.from = status]
  <2>1. r \in Watcher
    <3>1. \A q \in Watcher : \A s \in Stage : [q EXCEPT !.at = "poll", !.from = s] \in Watcher
      BY DEF Watcher
    <3> QED
      BY <1>1, <3>1, RecordsMade, Zenon
  <2>3. ~r.cancelled /\ r.at = "poll" /\ ~r.open
    BY DEF Unused
  <2>2. /\ RunTo(w, r, [app EXCEPT !.link = "reconnecting"])
        /\ UNCHANGED <<status, view, task>> /\ watcher[w].at # "unused"
    BY <1>4 DEF Fail, Broken
  <2> HIDE DEF r
  <2> QED
    BY <1>2, <2>1, <2>2, <2>3, RunKeeps DEF Tells
<1>5. CASE Receive(w)
  <2> DEFINE a == [app EXCEPT !.link = IF watcher[w].told THEN @ ELSE "connected"]
  <2>1. a \in App /\ a.subscribed = app.subscribed
    BY <1>1 DEF App
  <2>2. /\ watcher[w].at = "live" /\ watcher[w].queue # << >>
        /\ UNCHANGED <<status, view, task>>
    BY <1>5 DEF Receive
  <2>3. Head(watcher[w].queue) \in Stage /\ Tail(watcher[w].queue) \in Seq(Stage)
    BY <1>1, <2>2, HeadTailProperties
  <2>4. CASE Head(watcher[w].queue) = 0
    <3> DEFINE q == Tail(watcher[w].queue)
               r == [watcher[w] EXCEPT !.at = "refetch", !.told = TRUE, !.queue = q,
                                       !.from = status]
    <3>1. RunToOrClose(w, r, a)
      BY <1>5, <2>4 DEF Receive
    <3>2. q \in Seq(Stage)
      BY <2>3
    <3> HIDE DEF q, a
    <3>3. r \in Watcher /\ r.at = "refetch" /\ r.from = status
          /\ r.cancelled = watcher[w].cancelled
      BY <1>1, <3>2 DEF Watcher
    <3> HIDE DEF r
    <3> QED
      BY <2>1, <2>2, <3>1, <3>3, RunKeeps DEF Tells
  <2>5. CASE Head(watcher[w].queue) # 0
    <3>1. Yield(w, Head(watcher[w].queue), a)
      BY <1>5, <2>5 DEF Receive
    <3>2. status = Ended => Tells(watcher[w])
      BY DEF LiveInv, Told
    <3> HIDE DEF a
    <3> QED
      BY <2>1, <2>2, <2>3, <2>5, <3>1, <3>2, YieldKeeps
  <2> QED
    BY <2>4, <2>5
<1>6. CASE Refetched(w)
  <2>1. PICK s \in watcher[w].from .. status : Yield(w, s, app)
    BY <1>6 DEF Refetched
  <2>2. s \in Stage /\ (watcher[w].from = Ended => s = Ended)
    BY <1>1, <2>1, LiveAssumption DEF Stage
  <2>3. watcher[w].at = "refetch" /\ UNCHANGED <<status, view, task>>
    BY <1>6 DEF Refetched
  <2>4. status = Ended => Tells(watcher[w])
    BY DEF LiveInv, Told
  <2> QED
    BY <1>1, <2>1, <2>2, <2>3, <2>4, YieldKeeps
<1>7. CASE Polled(w)
  <2>1. PICK s \in watcher[w].from .. status :
          IF s = Ended THEN RunTo(w, Unused, WatchEnded(WithOrder(app, s)))
          ELSE RunTo(w, Opening, [app EXCEPT !.shown = s, !.link = "connecting"])
    BY <1>7 DEF Polled
  <2>2. s \in Stage
    BY <1>1, <2>1, LiveAssumption DEF Stage
  <2>3. watcher[w].at # "unused" /\ UNCHANGED <<status, view, task>>
    BY <1>7 DEF Polled
  <2>4. CASE s = Ended
    <3> DEFINE a == WatchEnded(WithOrder(app, s))
    <3>1. a \in App /\ a.subscribed = 0 /\ a.shown = Ended
      <4> DEFINE b == WithOrder(app, s)
      <4>1. b \in App /\ b.shown = Ended
        BY <1>1, <2>2, <2>4, AppMade
      <4> HIDE DEF b
      <4>2. WatchEnded(b) \in App /\ WatchEnded(b).subscribed = 0 /\ WatchEnded(b).shown = Ended
        BY <4>1, AppMade
      <4> QED
        BY <4>2 DEF b
    <3>2. RunTo(w, Unused, a) /\ Ended \notin Active
      BY <2>1, <2>4, Sets
    <3> HIDE DEF a
    <3> QED
      BY <2>3, <3>1, <3>2, RecordsMade, RunKeeps DEF Tells
  <2>5. CASE s # Ended
    <3> DEFINE a == [app EXCEPT !.shown = s, !.link = "connecting"]
    <3>1. a \in App /\ a.subscribed = app.subscribed
      BY <1>1, <2>2 DEF App
    <3>2. RunTo(w, Opening, a)
      BY <2>1, <2>5
    <3> HIDE DEF a
    <3> QED
      BY <2>3, <3>1, <3>2, RecordsMade, RunKeeps DEF Tells
  <2> QED
    BY <2>4, <2>5
<1>8. CASE PollFails(w)
  <2>1. watcher[w].at # "unused" /\ UNCHANGED <<status, view, task>>
    BY <1>8 DEF PollFails
  <2>2. CASE RunTo(w, Opening, [app EXCEPT !.link = "reconnecting"])
    BY <1>2, <2>1, <2>2, RecordsMade, RunKeeps DEF Tells
  <2>3. CASE RunTo(w, Unused, WatchEnded([app EXCEPT !.link = "unavailable"]))
    <3> DEFINE b == [app EXCEPT !.link = "unavailable"]
               a == WatchEnded(b)
    <3>1. b \in App
      BY <1>2
    <3> HIDE DEF b
    <3>2. a \in App /\ a.subscribed = 0 /\ (a.shown \in Active => a.link = "unavailable")
      BY <3>1, AppMade
    <3>3. RunTo(w, Unused, a)
      BY <2>3 DEF b
    <3> HIDE DEF a
    <3> QED
      BY <2>1, <3>2, <3>3, RecordsMade, RunKeeps DEF Tells
  <2> QED
    BY <1>8, <2>2, <2>3 DEF PollFails
<1>9. CASE Closed(w)
  <2> DEFINE a == WatchEnded(app)
  <2>1. a \in App /\ a.subscribed = 0 /\ (a.shown \in Active => a.link = "unavailable")
    BY <1>1, AppMade
  <2>2. RunTo(w, Unused, a) /\ watcher[w].at # "unused" /\ UNCHANGED <<status, view, task>>
    BY <1>9 DEF Closed
  <2> HIDE DEF a
  <2> QED
    BY <2>1, <2>2, RecordsMade, RunKeeps DEF Tells
<1> QED
  BY <1>3, <1>4, <1>5, <1>6, <1>7, <1>8, <1>9 DEF WatchStep

-------------------------------------------------------------------------------
(* The operations. *)

LEMMA TaskMade ==
  /\ NoTask \in Task /\ TaskOK(NoTask) /\ NoTask.awaited = 0 /\ NoTask.at = "none"
  /\ \A k \in {"initial", "refresh", "select", "detail", "submit"} :
       TypeOK => /\ Request(k) \in Task /\ TaskOK(Request(k)) /\ Request(k).awaited = 0
  /\ \A k \in {"select", "reset"} :
       TypeOK /\ app.subscribed # 0 =>
                 /\ Awaiting(k) \in Task /\ TaskOK(Awaiting(k))
                 /\ Awaiting(k).awaited = app.subscribed
                 /\ Awaiting(k).at = "cancel" /\ Awaiting(k).kind = k
<1>1. \A k \in {"none", "initial", "refresh", "select", "reset", "detail", "submit"} :
       \A a \in {"none", "cancel", "request", "sync"} : \A c \in BOOLEAN :
       \A s \in Stage : \A w \in {0} \cup Watchers :
         [kind |-> k, at |-> a, current |-> c, from |-> s, awaited |-> w] \in Task
  BY DEF Task
<1>2. 0 \in Stage /\ 0 \in {0} \cup Watchers /\ FALSE \in BOOLEAN /\ TRUE \in BOOLEAN
  BY Sets
<1>3. NoTask \in Task
  BY <1>1, <1>2, Zenon DEF NoTask
<1>4. TaskOK(NoTask) /\ NoTask.awaited = 0 /\ NoTask.at = "none"
  BY DEF NoTask, TaskOK
<1>5. ASSUME NEW k \in {"initial", "refresh", "select", "detail", "submit"}, TypeOK
      PROVE  /\ Request(k) \in Task /\ TaskOK(Request(k)) /\ Request(k).awaited = 0
  <2>1. \A r \in Task : \A s \in Stage :
          [r EXCEPT !.kind = k, !.at = "request", !.current = TRUE, !.from = s] \in Task
    BY DEF Task
  <2>2. status \in Stage
    BY <1>5 DEF TypeOK
  <2>3. Request(k) \in Task
    BY <1>3, <2>1, <2>2, Zenon DEF Request
  <2>4. Request(k).kind = k /\ Request(k).at = "request" /\ Request(k).awaited = 0
    BY DEF Request, NoTask
  <2> QED
    BY <2>3, <2>4 DEF TaskOK
<1>6. ASSUME NEW k \in {"select", "reset"}, TypeOK, app.subscribed # 0
      PROVE  /\ Awaiting(k) \in Task /\ TaskOK(Awaiting(k))
             /\ Awaiting(k).awaited = app.subscribed
             /\ Awaiting(k).at = "cancel" /\ Awaiting(k).kind = k
  <2>1. \A r \in Task : \A w \in {0} \cup Watchers :
          [r EXCEPT !.kind = k, !.at = "cancel", !.current = TRUE, !.awaited = w] \in Task
    BY DEF Task
  <2>2. app.subscribed \in {0} \cup Watchers
    BY <1>6 DEF TypeOK, App
  <2>3. Awaiting(k) \in Task
    BY <1>3, <2>1, <2>2, Zenon DEF Awaiting
  <2>4. /\ Awaiting(k).kind = k /\ Awaiting(k).at = "cancel"
        /\ Awaiting(k).awaited = app.subscribed
    BY DEF Awaiting, NoTask
  <2> QED
    BY <1>6, <2>3, <2>4 DEF TaskOK
<1> QED
  BY <1>3, <1>4, <1>5, <1>6

(* A change of the operations that leaves the awaited watches alone.       *)
LEMMA SameAwaited ==
  ASSUME NEW s, NEW ws, NEW ts, NEW us, KeptOf(s, ws, ts),
         \A u \in Tasks : us[u].awaited = ts[u].awaited
  PROVE  KeptOf(s, ws, us)
  BY DEF KeptOf

(* A subscription is cancelled, and operation t awaits that.               *)
LEMMA CancelKept ==
  ASSUME TypeOK, Kept, CancelSubscribed, NEW t \in Tasks, task[t].awaited = 0,
         NEW us, us[t].awaited = app.subscribed,
         \A u \in Tasks \ {t} : us[u].awaited = task[u].awaited
  PROVE  /\ KeptOf(0, watcher', us)
         /\ watcher' \in [Watchers -> Watcher]
         /\ Told => \A w \in Watchers : status = Ended => Tells(watcher'[w])
<1>1. \A w \in Watchers : w # 0
  BY Sets
<1>2. CASE app.subscribed = 0
  <2>1. watcher' = watcher
    BY <1>2 DEF CancelSubscribed
  <2>2. KeptOf(0, watcher, us)
    BY <1>2, SameAwaited DEF Kept
  <2> QED
    BY <2>1, <2>2 DEF TypeOK, Told
<1>3. CASE app.subscribed # 0
  <2> DEFINE w == app.subscribed
             r == [watcher[w] EXCEPT !.cancelled = TRUE, !.told = FALSE, !.from = 0]
  <2>1. w \in Watchers
    BY <1>3 DEF TypeOK, App
  <2>2. watcher[w] \in Watcher /\ watcher[w].at # "unused" /\ ~watcher[w].cancelled
    BY <2>1 DEF TypeOK, Kept, KeptOf
  <2>3. watcher' = [watcher EXCEPT ![w] = r]
    BY <1>3, <2>1 DEF CancelSubscribed, TypeOK
  <2>4. r \in Watcher
    <3>1. \A q \in Watcher : \A s \in Stage :
            [q EXCEPT !.cancelled = TRUE, !.told = FALSE, !.from = s] \in Watcher
      BY DEF Watcher
    <3>2. 0 \in Stage
      BY Sets
    <3> QED
      BY <2>2, <3>1, <3>2, Zenon
  <2>5. /\ r.cancelled /\ r.at = watcher[w].at /\ r.open = watcher[w].open
        /\ r.queue = watcher[w].queue
    BY <2>2 DEF Watcher
  <2> HIDE DEF r
  <2>6. watcher' \in [Watchers -> Watcher]
    BY <2>1, <2>3, <2>4 DEF TypeOK
  <2>7. \A v \in Watchers : watcher'[v] = IF v = w THEN r ELSE watcher[v]
    BY <2>1, <2>3 DEF TypeOK
  <2>8. Told => \A v \in Watchers : status = Ended => Tells(watcher'[v])
    BY <2>2, <2>5, <2>7 DEF Told, Tells
  <2>9. KeptOf(0, watcher', us)
    <3>1. \A u \in Tasks \ {t} : us[u].awaited # w
      BY <2>1, <2>2 DEF Kept, KeptOf
    <3>2. \A v \in Watchers : v # w =>
             (watcher[v].at = "unused" \/ watcher[v].cancelled)
      BY DEF Kept, KeptOf
    <3>3. \A v \in Watchers :
            /\ ~(watcher'[v].at # "unused" /\ ~watcher'[v].cancelled) /\ 0 # v
            /\ watcher'[v].at = "unused" => ~watcher'[v].cancelled
      BY <1>1, <2>2, <2>5, <2>7, <3>2 DEF Kept, KeptOf
    <3>4. \A v \in Watchers :
            /\ watcher'[v].cancelled => \E u \in Tasks : us[u].awaited = v
            /\ \A u \in Tasks : us[u].awaited = v => watcher'[v].cancelled
      BY <1>1, <2>5, <2>7, <3>1 DEF Kept, KeptOf
    <3>5. \A u, x \in Tasks : us[u].awaited = us[x].awaited /\ us[u].awaited # 0 => u = x
      BY <3>1 DEF Kept, KeptOf
    <3> QED
      BY <3>3, <3>4, <3>5 DEF KeptOf
  <2> QED
    BY <2>6, <2>8, <2>9
<1> QED
  BY <1>2, <1>3

(* The awaited watch is over, and operation t waits no more.               *)
LEMMA ReleaseKept ==
  ASSUME TypeOK, Kept, NEW t \in Tasks, task[t].awaited # 0, NEW us, us[t].awaited = 0,
         \A u \in Tasks \ {t} : us[u].awaited = task[u].awaited
  PROVE  /\ KeptOf(app.subscribed, Released(t), us)
         /\ Released(t) \in [Watchers -> Watcher]
         /\ Told => \A w \in Watchers : status = Ended => Tells(Released(t)[w])
<1> DEFINE w == task[t].awaited
<1>1. w \in Watchers /\ \A v \in Watchers : v # 0
  BY Sets DEF TypeOK, Task
<1>2. watcher[w].cancelled /\ app.subscribed # w
  BY <1>1 DEF Kept, KeptOf
<1>3. \A v \in Watchers : Released(t)[v] = IF v = w THEN Unused ELSE watcher[v]
  BY <1>1 DEF Released, TypeOK
<1>4. Released(t) \in [Watchers -> Watcher]
  BY <1>1, RecordsMade DEF Released, TypeOK
<1>5. Told => \A v \in Watchers : status = Ended => Tells(Released(t)[v])
  BY <1>3, RecordsMade DEF Told, Tells
<1>6. \A u \in Tasks \ {t} : us[u].awaited # w
  BY <1>1 DEF Kept, KeptOf
<1> HIDE DEF w
<1>7. \A v \in Watchers :
        /\ Released(t)[v].at # "unused" /\ ~Released(t)[v].cancelled <=> app.subscribed = v
        /\ Released(t)[v].at = "unused" => ~Released(t)[v].cancelled
  BY <1>2, <1>3, RecordsMade DEF Kept, KeptOf
<1>8. \A v \in Watchers :
        /\ Released(t)[v].cancelled => \E u \in Tasks : us[u].awaited = v
        /\ \A u \in Tasks : us[u].awaited = v => Released(t)[v].cancelled
  BY <1>1, <1>3, <1>6, RecordsMade DEF Kept, KeptOf, w
<1>9. \A u, x \in Tasks : us[u].awaited = us[x].awaited /\ us[u].awaited # 0 => u = x
  BY DEF Kept, KeptOf
<1> QED
  BY <1>4, <1>5, <1>7, <1>8, <1>9 DEF KeptOf

(* A later request: the others go on, or are forgotten.                    *)
LEMMA SupersedingOK ==
  ASSUME TypeOK, TasksOK, NEW t \in Tasks, NEW r \in Task, TaskOK(r)
  PROVE  /\ Superseding(t, r) \in [Tasks -> Task]
         /\ \A u \in Tasks : TaskOK(Superseding(t, r)[u])
         /\ Superseding(t, r)[t] = r
         /\ \A u \in Tasks \ {t} :
              /\ Superseding(t, r)[u].awaited = task[u].awaited
              /\ task[u].at \in {"sync", "cancel"} =>
                   /\ Superseding(t, r)[u].at = task[u].at
                   /\ Superseding(t, r)[u].kind = task[u].kind
<1> DEFINE dropped(u) == task[u].kind \in PageTask /\ task[u].at = "request"
           S == Superseding(t, r)
<1>1. \A u \in Tasks : S[u] = IF u = t THEN r ELSE IF dropped(u) THEN NoTask
                              ELSE [task[u] EXCEPT !.current = FALSE]
  BY DEF Superseding
<1>2. \A u \in Tasks :
        /\ [task[u] EXCEPT !.current = FALSE] \in Task
        /\ [task[u] EXCEPT !.current = FALSE].kind = task[u].kind
        /\ [task[u] EXCEPT !.current = FALSE].at = task[u].at
        /\ [task[u] EXCEPT !.current = FALSE].awaited = task[u].awaited
  BY DEF TypeOK, Task
<1>3. \A u \in Tasks : S[u] \in Task
  BY <1>1, <1>2, TaskMade
<1>4. S \in [Tasks -> Task]
  BY <1>3 DEF Superseding
<1> HIDE DEF S
<1>5. ASSUME NEW u \in Tasks
      PROVE  /\ TaskOK(S[u])
             /\ u # t =>
                  /\ S[u].awaited = task[u].awaited
                  /\ task[u].at \in {"sync", "cancel"} =>
                       S[u].at = task[u].at /\ S[u].kind = task[u].kind
  <2>1. TaskOK(task[u])
    BY DEF TasksOK
  <2>2. CASE u = t
    BY <1>1, <2>2
  <2>3. CASE u # t /\ dropped(u)
    <3>1. S[u] = NoTask
      BY <1>1, <2>3
    <3> QED
      BY <2>1, <2>3, <3>1, TaskMade DEF TaskOK
  <2>4. CASE u # t /\ ~dropped(u)
    <3>1. S[u] = [task[u] EXCEPT !.current = FALSE]
      BY <1>1, <2>4
    <3>2. S[u].kind = task[u].kind /\ S[u].at = task[u].at /\ S[u].awaited = task[u].awaited
      BY <1>2, <3>1
    <3> QED
      BY <2>1, <2>4, <3>2 DEF TaskOK
  <2> QED
    BY <2>2, <2>3, <2>4
<1> QED
  BY <1>1, <1>4, <1>5 DEF S

LEMMA PageStage == \A g, x : x \in Stage => PageOf(g, x) \in Stage
  BY Sets DEF PageOf

LEMMA AppCleared ==
  /\ [shown |-> 0, link |-> "none", subscribed |-> 0] \in App
  /\ \A a \in App : /\ [a EXCEPT !.shown = 0, !.link = "none"] \in App
                    /\ [a EXCEPT !.link = "none", !.subscribed = 0] \in App
                    /\ [a EXCEPT !.shown = 0] \in App
                    /\ [a EXCEPT !.subscribed = 0] \in App
                    /\ [a EXCEPT !.link = "none"] \in App
<1>1. 0 \in Stage /\ 0 \in {0} \cup Watchers
  BY Sets
<1>2. \A s \in Stage : \A w \in {0} \cup Watchers :
        [shown |-> s, link |-> "none", subscribed |-> w] \in App
  BY DEF App
<1>3. [shown |-> 0, link |-> "none", subscribed |-> 0] \in App
  BY <1>1, <1>2, Zenon
<1>4. \A a \in App : \A s \in Stage : \A w \in {0} \cup Watchers :
        /\ [a EXCEPT !.shown = s, !.link = "none"] \in App
        /\ [a EXCEPT !.link = "none", !.subscribed = w] \in App
        /\ [a EXCEPT !.shown = s] \in App
        /\ [a EXCEPT !.subscribed = w] \in App
        /\ [a EXCEPT !.link = "none"] \in App
  BY DEF App
<1> QED
  BY <1>1, <1>3, <1>4, Zenon

(* A request leaves the list and its watches as they are.                  *)
LEMMA RequestKeeps ==
  ASSUME LiveInv, NEW t \in Tasks,
         LoadInitial(t) \/ Reload(t) \/ Refresh(t) \/ LoadDetails(t) \/ Submit(t)
  PROVE  LiveInv'
<1> USE DEF LiveInv
<1>1. Free(t) /\ task[t].at = "none" /\ task[t].awaited = 0
  BY DEF LoadInitial, Reload, Refresh, LoadDetails, Submit, Free, TasksOK, TaskOK
<1>2. PICK k \in {"initial", "refresh", "detail", "submit"} :
        task' \in {[task EXCEPT ![t] = Request(k)], Superseding(t, Request(k))}
  BY DEF LoadInitial, Reload, Refresh, LoadDetails, Submit
<1>3. Request(k) \in Task /\ TaskOK(Request(k)) /\ Request(k).awaited = 0
  BY TaskMade
<1>4. /\ task' \in [Tasks -> Task] /\ TasksOK'
      /\ \A u \in Tasks : task'[u].awaited = task[u].awaited
      /\ \A u \in Tasks : task[u].at \in {"sync", "cancel"} =>
           task'[u].at = task[u].at /\ task'[u].kind = task[u].kind
  <2>1. CASE task' = [task EXCEPT ![t] = Request(k)]
    BY <1>1, <1>3, <2>1 DEF TypeOK, TasksOK
  <2>2. CASE task' = Superseding(t, Request(k))
    <3>1. /\ task' \in [Tasks -> Task] /\ TasksOK'
          /\ task'[t] = Request(k)
          /\ \A u \in Tasks \ {t} :
               /\ task'[u].awaited = task[u].awaited
               /\ task[u].at \in {"sync", "cancel"} =>
                    task'[u].at = task[u].at /\ task'[u].kind = task[u].kind
      BY <1>3, <2>2, SupersedingOK DEF TasksOK
    <3> QED
      BY <1>1, <1>3, <3>1
  <2> QED
    BY <1>2, <2>1, <2>2
<1>5. UNCHANGED <<app, watcher>>
  BY DEF LoadInitial, Reload, Refresh, LoadDetails, Submit
<1>6. view' \in View
  BY DEF LoadInitial, Reload, Refresh, LoadDetails, Submit, TypeOK, View
<1>7. status' = status \/ status' = 1
  BY DEF LoadInitial, Reload, Refresh, LoadDetails, Submit
<1>8. status' \in Stage /\ (status' = Ended => status = Ended)
  BY <1>7, Sets DEF TypeOK
<1>9. Kept'
  BY <1>4, <1>5, SameAwaited DEF Kept
<1>10. Pursued'
  BY <1>4, <1>5 DEF Pursued
<1>11. Told'
  BY <1>5, <1>8 DEF Told
<1> QED
  BY <1>4, <1>5, <1>6, <1>8, <1>9, <1>10, <1>11 DEF TypeOK

(* A change of group or a logout cancels the watch.                        *)
LEMMA CancelKeeps ==
  ASSUME LiveInv, NEW t \in Tasks, Reset(t) \/ \E g \in Groups : SelectGroup(t, g)
  PROVE  LiveInv'
<1> USE DEF LiveInv
<1>1. task[t].at = "none" /\ task[t].awaited = 0 /\ CancelSubscribed /\ status' = status
  BY DEF Reset, SelectGroup, Free, TasksOK, TaskOK
<1>2. /\ app \in App /\ NoTask \in Task /\ TaskOK(NoTask) /\ NoTask.awaited = 0
      /\ 0 \notin Active
  BY TaskMade, Sets DEF TypeOK
<1>3. ASSUME NEW g \in Groups, SelectGroup(t, g) PROVE LiveInv'
  <2> DEFINE r == IF app.subscribed = 0 THEN Request("select") ELSE Awaiting("select")
  <2>1. r \in Task /\ TaskOK(r) /\ r.awaited = app.subscribed
    BY TaskMade
  <2>2. /\ task' = Superseding(t, r)
        /\ app' = [shown |-> 0, link |-> "none", subscribed |-> 0]
        /\ view' = [group |-> g, hasLoaded |-> FALSE, refreshing |-> FALSE]
    BY <1>3 DEF SelectGroup
  <2> HIDE DEF r
  <2>3. app' \in App /\ app'.shown = 0 /\ app'.subscribed = 0 /\ view' \in View
    BY <1>3, <2>2, AppCleared DEF View
  <2>4. /\ task' \in [Tasks -> Task] /\ TasksOK'
        /\ task'[t].awaited = app.subscribed
        /\ \A u \in Tasks \ {t} : task'[u].awaited = task[u].awaited
    BY <2>1, <2>2, SupersedingOK DEF TasksOK
  <2>5. /\ KeptOf(0, watcher', task') /\ watcher' \in [Watchers -> Watcher]
        /\ \A w \in Watchers : status = Ended => Tells(watcher'[w])
    BY <1>1, <2>4, CancelKept
  <2> QED
    BY <1>1, <1>2, <2>3, <2>4, <2>5 DEF TypeOK, Kept, Pursued, Told
<1>4. CASE Reset(t) /\ app.subscribed = 0
  <2>1. /\ task' = Superseding(t, NoTask)
        /\ app' = [app EXCEPT !.shown = 0, !.link = "none"]
        /\ view' = [group |-> "all", hasLoaded |-> FALSE, refreshing |-> FALSE]
    BY <1>4 DEF Reset, Forget
  <2>2. app' \in App /\ app'.shown = 0 /\ app'.subscribed = 0 /\ view' \in View
    <3>1. \A a \in App : /\ [a EXCEPT !.shown = 0, !.link = "none"].shown = 0
                         /\ [a EXCEPT !.shown = 0, !.link = "none"].subscribed = a.subscribed
      BY DEF App
    <3> QED
      BY <1>2, <1>4, <2>1, <3>1, AppCleared DEF View, Groups
  <2>3. /\ task' \in [Tasks -> Task] /\ TasksOK'
        /\ task'[t].awaited = app.subscribed
        /\ \A u \in Tasks \ {t} : task'[u].awaited = task[u].awaited
    BY <1>2, <1>4, <2>1, SupersedingOK DEF TasksOK
  <2>4. /\ KeptOf(0, watcher', task') /\ watcher' \in [Watchers -> Watcher]
        /\ \A w \in Watchers : status = Ended => Tells(watcher'[w])
    BY <1>1, <2>3, CancelKept
  <2> QED
    BY <1>1, <1>2, <2>2, <2>3, <2>4 DEF TypeOK, Kept, Pursued, Told
<1>5. CASE Reset(t) /\ app.subscribed # 0
  <2>1. /\ task' = [task EXCEPT ![t] = Awaiting("reset")] /\ view' = view
        /\ app' = [app EXCEPT !.link = "none", !.subscribed = 0]
    BY <1>5 DEF Reset
  <2>2. app' \in App /\ app'.subscribed = 0
    <3>1. \A a \in App : [a EXCEPT !.link = "none", !.subscribed = 0].subscribed = 0
      BY DEF App
    <3> QED
      BY <1>2, <2>1, <3>1, AppCleared
  <2>3. /\ task' \in [Tasks -> Task] /\ TasksOK'
        /\ task'[t].awaited = app.subscribed
        /\ task'[t].at = "cancel" /\ task'[t].kind = "reset"
        /\ \A u \in Tasks \ {t} : task'[u].awaited = task[u].awaited
    BY <1>5, <2>1, TaskMade DEF TypeOK, TasksOK
  <2>4. /\ KeptOf(0, watcher', task') /\ watcher' \in [Watchers -> Watcher]
        /\ \A w \in Watchers : status = Ended => Tells(watcher'[w])
    BY <1>1, <2>3, CancelKept
  <2> QED
    BY <1>1, <2>1, <2>2, <2>3, <2>4 DEF TypeOK, Kept, Pursued, Told
<1> QED
  BY <1>3, <1>4, <1>5

LEMMA FinallyType ==
  ASSUME TypeOK, NEW t \in Tasks, Finally(t, TRUE) \/ Finally(t, FALSE)
  PROVE  view' \in View
  BY DEF Finally, TypeOK, View

LEMMA DoneOK ==
  ASSUME TypeOK, TasksOK, NEW t \in Tasks, Done(t)
  PROVE  /\ task' \in [Tasks -> Task] /\ TasksOK' /\ task'[t].awaited = 0
         /\ \A u \in Tasks \ {t} : task'[u] = task[u]
  BY TaskMade DEF Done, TypeOK, TasksOK

(* An answer that leads to no more than a watch of the order it shows.     *)
LEMMA AnswerKeeps ==
  ASSUME LiveInv, NEW a \in App, a.subscribed = app.subscribed, Watching(a, watcher),
         status' = status, view' \in View, task' \in [Tasks -> Task], TasksOK',
         \A u \in Tasks : task'[u].awaited = task[u].awaited
  PROVE  LiveInv'
<1> USE DEF LiveInv
<1>1. KeptOf(a.subscribed, watcher, task')
  BY SameAwaited DEF Kept
<1>2. /\ app' \in App /\ watcher' \in [Watchers -> Watcher]
      /\ KeptOf(app'.subscribed, watcher', task')
      /\ app'.shown \in Active => app'.subscribed # 0
      /\ \A w \in Watchers : watcher'[w] = watcher[w] \/ watcher'[w] = Opening
  BY <1>1, WatchingKept DEF TypeOK
<1>3. Told'
  BY <1>2, RecordsMade DEF Told, Tells
<1> QED
  BY <1>2, <1>3 DEF TypeOK, Kept, Pursued

(* The awaited watch is over: selectGroup, or reset, goes on.              *)
LEMMA CancelledKeeps ==
  ASSUME LiveInv, NEW t \in Tasks, WatchCancelled(t)
  PROVE  LiveInv'
<1> USE DEF LiveInv
<1>1. /\ app \in App /\ task[t] \in Task /\ TaskOK(task[t])
      /\ task[t].at = "cancel" /\ task[t].awaited # 0
      /\ watcher' = Released(t) /\ status' = status
  BY DEF TypeOK, TasksOK, WatchCancelled, TaskOK
<1>2. /\ NoTask \in Task /\ TaskOK(NoTask) /\ NoTask.awaited = 0
      /\ Request("select") \in Task /\ TaskOK(Request("select"))
      /\ Request("select").awaited = 0 /\ 0 \notin Active
  BY TaskMade, Sets
<1>3. ASSUME task' \in [Tasks -> Task], TasksOK', task'[t].awaited = 0,
             \A u \in Tasks \ {t} : task'[u].awaited = task[u].awaited,
             app' \in App, app'.subscribed = app.subscribed, view' \in View, Pursued'
      PROVE  LiveInv'
  <2>1. /\ KeptOf(app.subscribed, watcher', task')
        /\ watcher' \in [Watchers -> Watcher]
        /\ \A w \in Watchers : status = Ended => Tells(watcher'[w])
    BY <1>1, <1>3, ReleaseKept
  <2> QED
    BY <1>1, <1>3, <2>1 DEF TypeOK, Kept, Told
<1>4. ASSUME task[t].kind = "select", NEW r \in {NoTask, Request("select")},
             task' = [task EXCEPT ![t] = r], UNCHANGED <<app, view>>
      PROVE  LiveInv'
  <2>1. /\ task' \in [Tasks -> Task] /\ TasksOK' /\ task'[t].awaited = 0
        /\ \A u \in Tasks \ {t} : task'[u] = task[u]
    BY <1>2, <1>4 DEF TypeOK, TasksOK
  <2>2. Pursued'
    BY <1>1, <1>4, <2>1 DEF Pursued
  <2> QED
    BY <1>3, <1>4, <2>1, <2>2 DEF TypeOK
<1>5. CASE Forget(t) /\ app' = [app EXCEPT !.shown = 0]
  <2>1. /\ task' = Superseding(t, NoTask)
        /\ view' = [group |-> "all", hasLoaded |-> FALSE, refreshing |-> FALSE]
    BY <1>5 DEF Forget
  <2>2. /\ task' \in [Tasks -> Task] /\ TasksOK' /\ task'[t].awaited = 0
        /\ \A u \in Tasks \ {t} : task'[u].awaited = task[u].awaited
    BY <1>2, <2>1, SupersedingOK DEF TasksOK
  <2>3. app' \in App /\ app'.shown = 0 /\ app'.subscribed = app.subscribed
    <3>1. \A a \in App : /\ [a EXCEPT !.shown = 0].shown = 0
                         /\ [a EXCEPT !.shown = 0].subscribed = a.subscribed
      BY DEF App
    <3> QED
      BY <1>1, <1>5, <3>1, AppCleared
  <2>4. view' \in View
    BY <2>1 DEF View, Groups
  <2>5. Pursued'
    BY <1>2, <2>3 DEF Pursued
  <2> QED
    BY <1>3, <2>2, <2>3, <2>4, <2>5
<1> QED
  <2>1. \/ task[t].kind = "select" /\ task' = [task EXCEPT ![t] = Request("select")]
           /\ UNCHANGED <<app, view>>
        \/ task[t].kind = "select" /\ task' = [task EXCEPT ![t] = NoTask]
           /\ UNCHANGED <<app, view>>
        \/ Forget(t) /\ app' = [app EXCEPT !.shown = 0]
    BY DEF WatchCancelled, Done
  <2> QED
    BY <1>4, <1>5, <2>1

LEMMA SyncMade ==
  ASSUME TypeOK
  PROVE  /\ \A q \in Task : \E r \in Task :
              /\ r = [q EXCEPT !.at = "sync", !.awaited = app.subscribed, !.from = 0]
              /\ r.kind = q.kind /\ r.at = "sync" /\ r.awaited = app.subscribed
         /\ \A s \in Stage : \E a \in App :
              /\ a = [[app EXCEPT !.shown = s] EXCEPT !.subscribed = 0]
              /\ a.shown = s /\ a.subscribed = 0
<1>1. PICK z : z = 0
  OBVIOUS
<1>2. z \in Stage /\ z \in {0} \cup Watchers /\ app.subscribed \in {0} \cup Watchers
      /\ app \in App
  BY <1>1, Sets DEF TypeOK, App
<1>3. ASSUME NEW q \in Task
      PROVE  LET r == [q EXCEPT !.at = "sync", !.awaited = app.subscribed, !.from = z]
             IN r \in Task /\ r.kind = q.kind /\ r.at = "sync" /\ r.awaited = app.subscribed
  <2> DEFINE w == app.subscribed
  <2>1. w \in {0} \cup Watchers
    BY <1>2
  <2> HIDE DEF w
  <2>2. LET r == [q EXCEPT !.at = "sync", !.awaited = w, !.from = z]
        IN r \in Task /\ r.kind = q.kind /\ r.at = "sync" /\ r.awaited = w
    BY <1>2, <2>1 DEF Task
  <2> QED
    BY <2>2 DEF w
<1>4. ASSUME NEW s \in Stage
      PROVE  LET a == [[app EXCEPT !.shown = s] EXCEPT !.subscribed = z]
             IN a \in App /\ a.shown = s /\ a.subscribed = z
  BY <1>2 DEF App
<1> QED
  BY <1>1, <1>3, <1>4, Zenon

(* A page, in operation t, begins to cancel the watch of an order that is  *)
(* not active.                                                             *)
LEMMA SyncKeeps ==
  ASSUME LiveInv, NEW t \in Tasks, task[t].at = "request", task[t].kind \in PageTask,
         app.subscribed # 0, CancelSubscribed,
         app' \in App, app'.shown \notin Active, app'.subscribed = 0,
         NEW r \in Task, r.kind = task[t].kind, r.at = "sync", r.awaited = app.subscribed,
         task' = [task EXCEPT ![t] = r], view' \in View, status' = status
  PROVE  LiveInv'
<1> USE DEF LiveInv
<1>1. task[t] \in Task /\ TaskOK(task[t]) /\ task[t].awaited = 0
  BY DEF TypeOK, TasksOK, TaskOK
<1>2. TaskOK(r)
  BY <1>1 DEF TaskOK, PageTask
<1>3. /\ task' \in [Tasks -> Task] /\ TasksOK' /\ task'[t].awaited = app.subscribed
      /\ \A u \in Tasks \ {t} : task'[u].awaited = task[u].awaited
  BY <1>2 DEF TypeOK, TasksOK
<1>4. /\ KeptOf(0, watcher', task') /\ watcher' \in [Watchers -> Watcher]
      /\ \A w \in Watchers : status = Ended => Tells(watcher'[w])
  BY <1>1, <1>3, CancelKept
<1> QED
  BY <1>3, <1>4 DEF TypeOK, Kept, Pursued, Told

LEMMA PageKeeps ==
  ASSUME LiveInv, NEW t \in Tasks, PageArrives(t)
  PROVE  LiveInv'
<1> USE DEF LiveInv
<1>1. /\ app \in App /\ status \in Stage /\ task[t] \in Task /\ TaskOK(task[t])
      /\ task[t].at = "request" /\ task[t].kind \in PageTask /\ status' = status
  BY DEF TypeOK, TasksOK, PageArrives
<1>2. task[t].awaited = 0 /\ TypeOK
  BY <1>1 DEF TaskOK
<1>3. PICK s \in Answers(t) :
        LET page == PageOf(view.group, s)
            a == [app EXCEPT !.shown = page]
        IN IF app.subscribed = 0 \/ page \in Active
           THEN Watching(a, watcher) /\ Done(t) /\ Finally(t, TRUE)
           ELSE /\ CancelSubscribed
                /\ app' = [a EXCEPT !.subscribed = 0]
                /\ task' = [task EXCEPT ![t].at = "sync", ![t].awaited = app.subscribed,
                                        ![t].from = 0]
                /\ view' = [view EXCEPT !.hasLoaded = TRUE]
  BY DEF PageArrives
<1>4. s \in Stage
  BY <1>1, LiveAssumption DEF Answers, Stage, Task
<1> DEFINE page == PageOf(view.group, s)
           a == [app EXCEPT !.shown = page]
<1>5. page \in Stage
  BY <1>4, PageStage
<1>6. CASE app.subscribed = 0 \/ page \in Active
  <2>1. Watching(a, watcher) /\ Done(t) /\ Finally(t, TRUE)
    BY <1>3, <1>6
  <2> HIDE DEF page
  <2>2. a \in App /\ a.subscribed = app.subscribed
    BY <1>1, <1>5 DEF App
  <2> HIDE DEF a
  <2>3. view' \in View
    BY <2>1, FinallyType
  <2>4. /\ task' \in [Tasks -> Task] /\ TasksOK' /\ task'[t].awaited = 0
        /\ \A u \in Tasks \ {t} : task'[u] = task[u]
    BY <2>1, DoneOK
  <2> QED
    BY <1>1, <1>2, <2>1, <2>2, <2>3, <2>4, AnswerKeeps
<1>7. CASE ~(app.subscribed = 0 \/ page \in Active)
  <2>1. /\ CancelSubscribed
        /\ app' = [a EXCEPT !.subscribed = 0]
        /\ task' = [task EXCEPT ![t].at = "sync", ![t].awaited = app.subscribed,
                                ![t].from = 0]
        /\ view' = [view EXCEPT !.hasLoaded = TRUE]
    BY <1>3, <1>7
  <2> HIDE DEF page
  <2>2. app' \in App /\ app'.shown = page /\ app'.subscribed = 0
    BY <1>2, <1>5, <2>1, SyncMade, Zenon
  <2>3. PICK r \in Task :
          /\ r = [task[t] EXCEPT !.at = "sync", !.awaited = app.subscribed, !.from = 0]
          /\ r.kind = task[t].kind /\ r.at = "sync" /\ r.awaited = app.subscribed
    BY <1>1, <1>2, SyncMade, Zenon
  <2>4. task' = [task EXCEPT ![t] = r]
    BY <2>1, <2>3
  <2>5. view' \in View
    BY <2>1 DEF TypeOK, View
  <2>6. CancelSubscribed
    BY <2>1
  <2> QED
    BY <1>1, <1>7, <2>2, <2>3, <2>4, <2>5, <2>6, SyncKeeps, Zenon
<1> QED
  BY <1>6, <1>7

LEMMA SyncedKeeps ==
  ASSUME LiveInv, NEW t \in Tasks, WatchersSynced(t)
  PROVE  LiveInv'
<1> USE DEF LiveInv
<1>1. /\ app \in App /\ TaskOK(task[t]) /\ task[t].at = "sync" /\ status' = status
      /\ Done(t) /\ Finally(t, FALSE) /\ Watching([app EXCEPT !.link = "none"], Released(t))
  BY DEF TypeOK, TasksOK, WatchersSynced
<1>2. task[t].awaited # 0
  BY <1>1 DEF TaskOK
<1>3. view' \in View
  BY <1>1, FinallyType
<1>4. /\ task' \in [Tasks -> Task] /\ TasksOK' /\ task'[t].awaited = 0
      /\ \A u \in Tasks \ {t} : task'[u] = task[u]
  BY <1>1, DoneOK
<1>5. /\ KeptOf(app.subscribed, Released(t), task')
      /\ Released(t) \in [Watchers -> Watcher]
      /\ Told => \A w \in Watchers : status = Ended => Tells(Released(t)[w])
  BY <1>2, <1>4, ReleaseKept
<1> DEFINE a == [app EXCEPT !.link = "none"]
           ws == Released(t)
<1>6. a \in App /\ a.subscribed = app.subscribed
  BY <1>1 DEF App
<1>7. KeptOf(a.subscribed, ws, task') /\ ws \in [Watchers -> Watcher] /\ Watching(a, ws)
  BY <1>1, <1>5, <1>6
<1>8. Told => \A w \in Watchers : status = Ended => Tells(ws[w])
  BY <1>5
<1> HIDE DEF a, ws
<1>9. /\ app' \in App /\ watcher' \in [Watchers -> Watcher]
      /\ KeptOf(app'.subscribed, watcher', task')
      /\ app'.shown \in Active => app'.subscribed # 0
      /\ \A w \in Watchers : watcher'[w] = ws[w] \/ watcher'[w] = Opening
  BY <1>6, <1>7, WatchingKept
<1>10. Told'
  BY <1>1, <1>8, <1>9, RecordsMade DEF Told, Tells
<1> QED
  BY <1>1, <1>3, <1>4, <1>9, <1>10 DEF TypeOK, Kept, Pursued

LEMMA RequestEndsKeeps ==
  ASSUME LiveInv, NEW t \in Tasks,
         RequestFails(t) \/ DetailArrives(t) \/ SubmittedArrives(t)
  PROVE  LiveInv'
<1> USE DEF LiveInv
<1>1. /\ app \in App /\ status \in Stage /\ task[t] \in Task /\ TaskOK(task[t])
      /\ task[t].at = "request" /\ status' = status /\ Done(t)
  BY DEF TypeOK, TasksOK, TaskOK, RequestFails, DetailArrives, SubmittedArrives
<1>2. task[t].awaited = 0
  BY <1>1 DEF TaskOK
<1>3. /\ task' \in [Tasks -> Task] /\ TasksOK' /\ task'[t].awaited = 0
      /\ \A u \in Tasks \ {t} : task'[u] = task[u]
  BY <1>1, DoneOK
<1>4. \A u \in Tasks : task'[u].awaited = task[u].awaited
  BY <1>2, <1>3
<1>5. view' \in View
  BY FinallyType DEF RequestFails, DetailArrives, SubmittedArrives, TypeOK, View
<1>6. CASE RequestFails(t)
  <2>1. UNCHANGED <<status, app, watcher>>
    BY <1>6 DEF RequestFails
  <2>2. Kept'
    BY <1>4, <2>1, SameAwaited DEF Kept
  <2>3. Pursued'
    BY <1>1, <1>3, <2>1 DEF Pursued
  <2> QED
    BY <1>3, <1>5, <2>1, <2>2, <2>3 DEF TypeOK, Told
<1>7. CASE DetailArrives(t) \/ SubmittedArrives(t)
  <2>1. PICK s \in Stage : Watching([app EXCEPT !.shown = s], watcher)
    <3>1. \A s \in Answers(t) : s \in Stage
      BY <1>1, LiveAssumption DEF Answers, Stage, Task
    <3>2. 1 \in Stage
      BY Sets
    <3> QED
      BY <1>7, <3>1, <3>2 DEF DetailArrives, SubmittedArrives
  <2> DEFINE a == [app EXCEPT !.shown = s]
  <2>2. a \in App /\ a.subscribed = app.subscribed /\ Watching(a, watcher)
    BY <1>1, <2>1 DEF App
  <2> HIDE DEF a
  <2> QED
    BY <1>1, <1>3, <1>4, <1>5, <2>2, AnswerKeeps
<1> QED
  BY <1>6, <1>7

LEMMA ReopenKeeps ==
  ASSUME LiveInv, ReopenDetails
  PROVE  LiveInv'
<1>1. app \in App /\ task \in [Tasks -> Task] /\ TasksOK' /\ view' \in View
      /\ UNCHANGED <<status, view, task>> /\ Watching(app, watcher)
  BY DEF ReopenDetails, LiveInv, TypeOK, TasksOK
<1> QED
  BY <1>1, AnswerKeeps

-------------------------------------------------------------------------------
(* The backend.                                                            *)

(* Messages come and go; the watches are what they were.                   *)
LEMMA SameMarks ==
  ASSUME NEW s, NEW ws, NEW xs, NEW ts, KeptOf(s, ws, ts),
         \A w \in Watchers : xs[w].at = ws[w].at /\ xs[w].cancelled = ws[w].cancelled
  PROVE  KeptOf(s, xs, ts)
  BY DEF KeptOf

LEMMA AdvanceKeeps ==
  ASSUME LiveInv, Advance
  PROVE  LiveInv'
<1> USE DEF LiveInv
<1>1. PICK s \in status + 1 .. Ended : \E message \in {0, s} :
        /\ status' = s
        /\ watcher' = [w \in Watchers |->
             IF watcher[w].open THEN [watcher[w] EXCEPT !.queue = Append(@, message)]
                                ELSE watcher[w]]
  BY DEF Advance
<1>2. PICK message \in {0, s} :
        /\ status' = s
        /\ watcher' = [w \in Watchers |->
             IF watcher[w].open THEN [watcher[w] EXCEPT !.queue = Append(@, message)]
                                ELSE watcher[w]]
  BY <1>1
<1>3. status \in Stage /\ s \in Stage /\ message \in Stage /\ 0 \in Stage
  BY <1>2, LiveAssumption, Sets DEF TypeOK, Stage
<1>4. UNCHANGED <<app, view, task>>
  BY DEF Advance
<1>5. ASSUME NEW w \in Watchers
      PROVE  /\ watcher'[w] \in Watcher
             /\ watcher'[w].at = watcher[w].at
             /\ watcher'[w].cancelled = watcher[w].cancelled
             /\ s = Ended => Tells(watcher'[w])
  <2>1. watcher[w] \in Watcher /\ watcher[w].queue \in Seq(Stage)
    BY DEF TypeOK, Watcher
  <2>2. CASE ~watcher[w].open
    BY <1>2, <2>1, <2>2 DEF Tells
  <2>3. CASE watcher[w].open
    <3> DEFINE q == Append(watcher[w].queue, message)
    <3>1. /\ q \in Seq(Stage) /\ Len(q) \in Nat /\ Len(q) = Len(watcher[w].queue) + 1
          /\ Len(watcher[w].queue) \in Nat /\ q[Len(q)] = message
      BY <1>3, <2>1, AppendProperties
    <3>2. watcher'[w] = [watcher[w] EXCEPT !.queue = q]
      BY <1>2, <2>1, <2>3 DEF Watcher
    <3> HIDE DEF q
    <3>3. /\ watcher'[w] \in Watcher
          /\ watcher'[w].at = watcher[w].at
          /\ watcher'[w].cancelled = watcher[w].cancelled
          /\ watcher'[w].queue = q
      BY <2>1, <3>1, <3>2 DEF Watcher
    <3>4. Len(q) \in 1 .. Len(q)
      BY <3>1
    <3> QED
      BY <1>2, <3>1, <3>3, <3>4 DEF Tells
  <2> QED
    BY <2>2, <2>3
<1>6. watcher' \in [Watchers -> Watcher]
  BY <1>2, <1>5
<1>7. Kept'
  BY <1>4, <1>5, SameMarks DEF Kept
<1> QED
  BY <1>2, <1>3, <1>4, <1>5, <1>6, <1>7 DEF TypeOK, TasksOK, Pursued, Told

LEMMA LossKeeps ==
  ASSUME LiveInv, NEW w \in Watchers, SocketLost(w)
  PROVE  LiveInv'
<1> USE DEF LiveInv
<1>1. PICK n \in 0 .. Len(watcher[w].queue) :
        watcher' = [watcher EXCEPT ![w].open = FALSE, ![w].queue = SubSeq(@, 1, n)]
  BY DEF SocketLost
<1>2. UNCHANGED <<status, app, view, task>>
  BY DEF SocketLost
<1>3. watcher[w] \in Watcher /\ watcher[w].queue \in Seq(Stage)
  BY DEF TypeOK, Watcher
<1> DEFINE q == SubSeq(watcher[w].queue, 1, n)
           r == [watcher[w] EXCEPT !.open = FALSE, !.queue = q]
<1>4. q \in Seq(Stage)
  BY <1>1, <1>3, SubSeqProperties
<1>5. watcher' = [watcher EXCEPT ![w] = r]
  BY <1>1, <1>3 DEF TypeOK, Watcher
<1> HIDE DEF q
<1>6. /\ r \in Watcher /\ r.at = watcher[w].at /\ r.cancelled = watcher[w].cancelled
      /\ ~r.open
  BY <1>3, <1>4 DEF Watcher
<1> HIDE DEF r
<1>7. watcher' \in [Watchers -> Watcher]
  BY <1>5, <1>6 DEF TypeOK
<1>8. \A v \in Watchers : /\ watcher'[v].at = watcher[v].at
                          /\ watcher'[v].cancelled = watcher[v].cancelled
                          /\ watcher'[v] = watcher[v] \/ ~watcher'[v].open
  BY <1>5, <1>6 DEF TypeOK
<1>9. Kept'
  BY <1>2, <1>8, SameMarks DEF Kept
<1>10. Told'
  BY <1>2, <1>8 DEF Told, Tells
<1> QED
  BY <1>2, <1>7, <1>9, <1>10 DEF TypeOK, TasksOK, Pursued

-------------------------------------------------------------------------------
LEMMA LiveStarts == Init => LiveInv
<1> SUFFICES ASSUME Init PROVE LiveInv
  OBVIOUS
<1>1. /\ status \in {0, 1} /\ watcher = [w \in Watchers |-> Unused]
      /\ task = [t \in Tasks |-> NoTask]
      /\ app = [shown |-> 0, link |-> "none", subscribed |-> 0]
      /\ view = [group |-> "all", hasLoaded |-> FALSE, refreshing |-> FALSE]
  BY DEF Init
<1>2. status \in Stage /\ status # Ended /\ 0 \notin Active
  BY <1>1, LiveAssumption, Sets DEF Stage
<1>3. app \in App /\ view \in View /\ app.shown = 0 /\ app.subscribed = 0
  BY <1>1, AppCleared DEF View, Groups
<1>4. /\ \A w \in Watchers : watcher[w] = Unused /\ w # 0
      /\ \A t \in Tasks : task[t] = NoTask
  BY <1>1, Sets
<1>5. Kept
  BY <1>3, <1>4, RecordsMade, TaskMade DEF Kept, KeptOf
<1>6. TypeOK
  BY <1>1, <1>2, <1>3, RecordsMade, TaskMade DEF TypeOK
<1>7. TasksOK
  BY <1>4, TaskMade DEF TasksOK
<1> QED
  BY <1>2, <1>3, <1>5, <1>6, <1>7 DEF LiveInv, Pursued, Told

LEMMA LiveStep == LiveInv /\ [Next]_vars => LiveInv'
<1> SUFFICES ASSUME LiveInv, [Next]_vars PROVE LiveInv'
  OBVIOUS
<1>1. CASE Advance
  BY <1>1, AdvanceKeeps
<1>2. CASE ReopenDetails
  BY <1>2, ReopenKeeps
<1>3. ASSUME NEW w \in Watchers, WatchStep(w) \/ SocketLost(w) PROVE LiveInv'
  BY <1>3, WatchKeeps, LossKeeps
<1>4. ASSUME NEW t \in Tasks, TaskStep(t) PROVE LiveInv'
  BY <1>4, CancelledKeeps, PageKeeps, SyncedKeeps, RequestEndsKeeps DEF TaskStep
<1>5. ASSUME NEW t \in Tasks, CustomerStep(t) PROVE LiveInv'
  BY <1>5, RequestKeeps, CancelKeeps DEF CustomerStep
<1>6. CASE UNCHANGED vars
  BY <1>6 DEF vars, LiveInv, TypeOK, TasksOK, Kept, Pursued, Told
<1> QED
  BY <1>1, <1>2, <1>3, <1>4, <1>5, <1>6 DEF Next

LEMMA LiveInductive == Spec => []LiveInv
<1> QED
  BY LiveStarts, LiveStep, PTL DEF Spec

(* TypeOK of the list and its watches, for any number of stages and of     *)
(* operations under way.                                                   *)
THEOREM LiveTypeCorrect == Spec => []TypeOK
<1>1. LiveInv => TypeOK
  BY DEF LiveInv
<1> QED
  BY <1>1, LiveInductive, PTL

(* OneKeeper: an order is never watched twice, no watch outlives its       *)
(* subscription unawaited, and no operation awaits a watch that is gone,   *)
(* whatever the interleaving of pages, changes of group and logouts.       *)
THEOREM WatchesAreKept == Spec => []OneKeeper
<1>1. LiveInv => OneKeeper
  BY KeptIsOneKeeper DEF LiveInv
<1> QED
  BY <1>1, LiveInductive, PTL

(* ActiveIsWatched: an order shown as under way is watched, said to be     *)
(* unavailable, or about to be looked after by an operation under way.     *)
THEOREM ActiveOrdersAreWatched == Spec => []ActiveIsWatched
<1>1. LiveInv => ActiveIsWatched
  BY DEF LiveInv, Pursued, ActiveIsWatched
<1> QED
  BY <1>1, LiveInductive, PTL

(* EndIsTold: of an order that has ended each open socket has a message    *)
(* under way that tells the application, or makes it ask.                  *)
THEOREM EndReachesTheSocket == Spec => []EndIsTold
<1>1. LiveInv => EndIsTold
  BY DEF LiveInv, Told, Tells, EndIsTold
<1> QED
  BY <1>1, LiveInductive, PTL
==============================================================================
