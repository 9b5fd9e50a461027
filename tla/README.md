# Verification of the autonomous drone delivery system

This directory is the formal model of the repository: TLA+ modules, the TLC
instances that check them and the TLAPS proofs about them. It covers what can
go wrong *between* the parts: permissions that race with clocks, commands that
race with each other, answers that never arrive, processes that restart in the
middle of a flight. Paths below are relative to `src/`.

## 1. The system

A customer orders a product in the mobile application. An administrator
approves the order, prepares a mission for it, exports and reviews the mission,
and authorizes its flight on one vehicle. The drone gateway, a process next to
the vehicle, claims the mission, uploads it to the autopilot, waits for the
administrator's ARM and START, follows the flight and reports each stage.

| Part | State it keeps | Operations | Talks to |
|---|---|---|---|
| Orders (`backend/app/modules/orders`) | `orders` rows: status | create, submit, cancel, approve, reject | missions service (same transaction) |
| Missions (`backend/app/modules/missions`) | `missions`, `gateway_commands` rows | prepare, export, review, authorize, claim, apply status, request and acknowledge commands | orders, vehicles, system events |
| Flight authorizations (`backend/app/modules/approvals`) | `flight_authorizations` rows: status, expiry | issue, expire, revoke, consume | missions service |
| Vehicles and health (`backend/app/modules/vehicles`) | latest `vehicle_health_snapshots` row | record heartbeat, health failures | gateway API, missions service |
| Gateway API (`backend/app/api/v1/routers/gateway.py`) | none | heartbeat, listing, claim, status, commands, acknowledgements | the gateway over HTTP |
| System events (`backend/app/modules/system_events`) | recorded `event_id`s | record, recognise a replay | every report of the gateway |
| Executor (`drone_gateway/app/missions/executor.py`) | active mission and phase, in memory and in the journal | one `run_cycle` at a time | gateway API, vehicle adapter |
| Journal (`drone_gateway/app/missions/journal.py`) | one JSON file, replaced atomically | save, load, clear | executor |
| Pre-flight (`drone_gateway/app/safety/preflight.py`) | none | evaluate | executor |
| Vehicle adapters (`drone_gateway/app/mavlink`) | connection, last messages, reached items | arm, upload, verify, start, pause, continue, RTL, abort, poll | autopilot over MAVLink |
| Main loop (`drone_gateway/app/main.py`) | none | cycle for ever, back off on failure | executor |
| Idempotency keys (`backend/app/modules/idempotency`) | key rows: reserved, completed | reserve, complete, replay | order and checkout routes |
| Saved locations (`backend/app/modules/saved_locations`) | up to three rows per user | create, update, delete | mobile application |
| Telemetry (`backend/app/modules/telemetry`) | last samples per vehicle | ingest, latest | WebSocket hub |
| WebSocket hub (`backend/app/core/websocket.py`) | subscriptions | subscribe, broadcast, snapshot | panel, mobile application |
| Administration panel (`admin_web`) | cached lists, operations stream | requests, reconnection | backend |
| Delivery points (`backend/app/modules/delivery_points`) | `delivery_points` rows | validate, create | mobile application |
| Mobile application (`mobile`) | cached orders, watchers, checkout attempt | requests, reconnection | backend |

### What is hard about it

* **Concurrency.** The backend is one process with one event loop; its
  `async def` routes reach their commit without awaiting, so each is atomic
  with respect to the others. Plain `def` routes run in a thread pool, one
  database statement interleaved with another's: on the way of a flight the
  listing of authorized missions and the export of a mission, on the
  customer's side the creation of delivery points, orders and saved locations. The
  gateway is one coroutine, but between two of its awaits the backend, the
  administrator and the vehicle move on.
* **A link that loses and delays.** MAVLink messages arrive late, twice or not
  at all, and an answer names the command or the item it is about but not
  the exchange it belongs to.
* **Lost requests and lost answers.** Every call of the gateway may fail
  without having happened, or have happened and fail. Some retries carry a
  kept `event_id` (phase and progress reports), the others a fresh one.
  The mobile application gives up after twenty seconds while its request
  goes on in the backend, and the customer pays again.
* **Restarts.** The gateway resumes from its journal. What it did after its
  last journal write is unknown to it.
* **Awaits that interleave.** The mobile application is one thread, but pages,
  details, submissions, changes of group and logouts are each suspended at
  awaits of their own, while the watches of orders go on.
* **Time.** Authorizations expire, health goes stale, commands grow too old,
  at any point of any of the above.
* **Two tellers of one story.** Order, mission, authorization and command rows,
  the journal and the autopilot each record the stage of one flight.

### What makes each part correct

* Orders: the status shown to the customer is the stage of the mission.
* Missions and authorizations: one permission for one flight, used once, by
  the gateway of the authorized vehicle, and nothing that ended is reopened.
* Commands: one open critical command per mission, for its holder only.
* Executor: nothing is transmitted twice or for a command that no longer
  stands; the backend never shows a stage the vehicle has not reached; no
  flight is forgotten; every command is answered once the network recovers.
* Progress: no stage is shown before it is flown, the retry of a report is
  never refused, and a completed flight ends up shown as COMPLETED.
* Vehicle adapter: what is reported as transferred, armed or started is so; an
  armed vehicle is not commanded to arm again; only the authorized plan is
  flown; every operation comes back.
* Idempotency: of all calls with one key the first has an effect, and the
  others are answered with it or refused.
* Checkout: one order for one payment, however often it is repeated; it is
  what was paid for; and it goes to the point confirmed for it.
* Saved locations: never more than the limit, and creations that lock the same
  row never wait for each other for ever.
* Live orders: an order that is under way is watched, once, or the customer is
  told that it is not; its end reaches every socket that is open.

## 2. Modules

| Module | Models | Relation |
|---|---|---|
| `MissionStatus` | `backend/app/core/enums.py` and the two transition tables of `missions/service.py` | constants of all the others |
| `MissionLifecycle` | nothing: the promise about flights (inspect vehicles, issue, lapse, withdraw, take, end) | abstract specification |
| `MissionBackend` | the rows and handlers of the backend | implements `MissionLifecycle` (`INSTANCE ... WITH`) |
| `MissionBackendProofs` | theorems about `MissionBackend` and `ThreadedHandlers` | extends the latter with `TLAPS` |
| `ThreadedHandlers` | the two handlers that run in threads, split at their read and write | adds them to `MissionBackend` |
| `GatewayExecutor` | the executor, its journal, the vehicle, lost messages and restarts | composes with `MissionBackend` and implements it |
| `GatewayExecutorProofs` | theorems about `GatewayExecutor`, among them that it implements `MissionBackend` | extends it and `MissionBackendProofs` |
| `ProgressTracker` | `poll_mission` with its evidence, `_continue_executing` call by call, reconnection and restart | takes apart what is one step in `GatewayExecutor` |
| `ProgressTrackerProofs` | theorems about `ProgressTracker` | extends it with `TLAPS` |
| `MavlinkLink` | nothing of the repository: the link and the autopilot as the adapter takes them to be | part of `VehicleAdapter` |
| `VehicleAdapter` | mission transfer, readback, ARM and start of `pymavlink_gateway.py`, message by message | extends `MavlinkLink`; takes apart `UploadMission`, `VerifyMission`, `ArmVehicle` and the start of `GatewayExecutor` |
| `VehicleAdapterProofs` | theorems about `VehicleAdapter` | extends it with `TLAPS` |
| `FirstCall` | nothing: the promise of an Idempotency-Key | abstract specification |
| `Idempotency` | `execute_idempotently` | implements `FirstCall` (`INSTANCE ... WITH`) |
| `IdempotencyProofs` | theorems about `Idempotency` | extends it with `TLAPS` |
| `Checkout` | `ApiCheckoutRepository` and the three routes it calls | composes with `Idempotency` |
| `CheckoutProofs` | theorems about `Checkout` | extends it with `TLAPS` |
| `SavedLocations` | creation and deletion of saved locations, with their row locks | composes with `Idempotency` |
| `SavedLocationsProofs` | theorems about `SavedLocations` | extends it with `TLAPS` |
| `LiveOrders` | the orders controller of the mobile application, the watch of an order, and the sockets of the hub | composes the three |
| `LiveOrdersProofs` | theorems about `LiveOrders` | extends it with `TLAPS` |
| `MCMissionBackend`, `MCThreadedHandlers`, `MCGatewayExecutor`, `MCProgressTracker`, `MCVehicleAdapter`, `MCIdempotency`, `MCCheckout`, `MCSavedLocations`, `MCLiveOrders` | values of constants and symmetry | instances for TLC |

**How `MissionBackend` corresponds to the code.** A variable is a table reduced
to the columns the rules read. `order[m]` and `mission[m]` share the index `m`
because `missions.order_id` is unique. `auth[a]` and `cmd[c]` are rows inserted
at run time; a row still in status `"NONE"` does not exist yet. `reported[m]` is
the set of statuses whose kept `event_id` is in `system_events`; reports with a
fresh identifier can never be replays and need not be remembered. `health[v]`
is the last snapshot with `fresh` for its age and `after` for the ARM
acknowledgements its MAVLink heartbeat is later than. Each handler is one
action; a handler that raises, or answers a replay, changes no row and is a
stuttering step. Expiry of an authorization and staleness of health are actions
of their own (`ClockStep`), so they may happen between any two calls. `Redeploy`
changes `settings.gateway_id` while the rows stay.

**How `GatewayExecutor` corresponds to the code.** `pc` names the await at which
`run_cycle` stands; an action performs that call and everything up to the next
await, journal writes included. `work` holds the local variables that survive
an await, which is where stale values come from. `journal` stands for both the
file and the fields restored from it, which agree at every await. `drone` is
the autopilot and the vehicle: the plan in its memory, its mode, and of every
mission whether it has taken off and how far it got; it is armed and disarmed
by hand on the ground, and after a landing it can fly again. `sent` is read by
properties only: it counts what has been transmitted, except RTL and ABORT,
which may be sent again, and remembers the changes of a flight that the
autopilot has confirmed. `Interrupted` is a crash or a lost request: the cycle
is gone, the journal stays. `AnswerLost` performs the backend's part of the
call at `pc` and then abandons the cycle. `Samples` is what `read_health` may
answer in a state: the link and the checks may differ from one read to the next.

**How `ProgressTracker` corresponds to the code.** Items 1 to 4 are the
destination, the gripper, the return and the landing: the mission items that
carry evidence, numbered like `PROGRESS_STATUSES`. `reached`, `current` and
`suggested` are `_reached_sequences`, `_last_current_sequence` and
`_reported_progress` of the adapter: a reconnection forgets the first two, a
restart all three. `pc` stands before each call `_continue_executing` makes
that can fail; `CycleFails` is its failure, after which only the adapter and
the journal remember anything. The autopilot announces an item once, as
`MISSION_ITEM_REACHED` does, and nothing arrives while the link is lost.

**How `VehicleAdapter` corresponds to the code.** `op` is the operation in progress
with the local variables of its function: `served`, `last` and `tries` of
`_upload_sync`, the position of `_verify_mission_sync`, the attempt and what the
heartbeats have shown of `_arm_vehicle_sync`. A step receives one message or is
one wait that timed out; the pause of a wait and the deadline of the operation
may end at any moment. `uploaded` and `verified` are the dictionaries of the
session, `stage` is what the executor has made of the results, from its phases.
`up` and `down` (`MavlinkLink`) are the messages under way; any of them may be
lost when it is sent and stay under way as long as it likes. The autopilot may
refuse anything, ask again, give up a transfer, arm or disarm by its operator's
hand, and have its plan replaced by another ground station while the gateway is
not talking to it. A `START` carries its mission only for the properties.

**How `LiveOrders` corresponds to the code.** `app` is what the controller has of one
order: `shown` its stage in `_orders`, `link` its entry in `_connectionStates`,
`subscribed` the watch in `_subscriptions`. A `task` is a call of the controller
suspended at an await: at the cancellation of a watch (`cancel`, in
`_cancelAllWatchers`; `sync`, in `_syncWatchers`) or at a request; `current` is the
comparison of generations. A `watcher` is the generator `watchOrder` with its
`_watchSocket`: it stands at the opening of the socket, at its messages, at a GET
after `mission.status`, at the poll after a loss, or at the closing. The events it
yields are handled in the step that yields them. `cancel()` marks it; as Dart
defines it, the generator then ends at its next yield, after its `finally`
blocks, and only then does the future of `cancel()` complete. The stages of an
order are numbers, of which the last stands for every terminal status; what an
answer shows may be any stage between its request and its arrival.

**How `Idempotency` corresponds to the code.** `call[r].at` is the statement at
which a request stands: `"sent"` before its first lookup, `"inserting"` before
the flush that reserves the key, `"acting"` between the flush and the commit.
`record` and `made` are committed rows. A reservation is not a row others can
read: it is only the wait that the unique index imposes (`Blocked`), which
ends with the holder's commit (`Reserve` then replays) or rollback (it
reserves). The domain rows an action writes are one element of `made`.
`RunOnLoop` is the same function on an `async def` route: one step, unless a
thread holds the key.

**How `Checkout` corresponds to the code.** `attempt` is the pair of fields of
`ApiCheckoutRepository`, `stage` and `waiting` the POST `submit()` awaits. What
the application no longer awaits stays in `call` and runs on. A route is
`Idempotency` with its own action: `CreatePoint`, `CreateOrder`, `Submit`. The
`validate` request that precedes them changes no row.

**How `SavedLocations` corresponds to the code.** `held[r]` is the set of locks
that the transaction of a request has on the customer's row: the one a foreign
key takes when the record is inserted, and the one of
`saved_location_creation_lock`. Which locks exclude each other is PostgreSQL's
table; a deletion locks its own row and may run at any time.

## 3. Runs

Passing runs:

| Run | Instance | What it shows |
|---|---|---|
| `Backend` | 1 order, 2 authorizations, 2 commands of all 6 types, 2 gateways, 3 kinds of heartbeat | `TypeOK`, `OnePermissionPerFlight`, `OrderFollowsMission`, `OneOpenCommand`, `CommandsOfTheHolder`, `NoNewStranded`, `EndedRowsStay` and the refinement `ImplementsLifecycle`: issue, expiry, revocation, re-issue, claim, requests, overrides, acknowledgements and redeployment in any order. The lifecycle lets a mission be taken only on its own valid permit that has not lapsed, and with a vehicle that is fit in that step. In this run nothing overtakes a listing or an export in its thread (section 4, on threads) |
| `Executor` | 1 order, 2 commands among ARM, START, ABORT; an adapter that can abort | `ExecTypeOK`, `TransmissionIsCurrent`, `TransmittedOnce`; `CommandsAnswered` under the fairness below |
| `ExecutorFlight` | 1 order, 3 commands among START, PAUSE, CONTINUE, RTL; adapter that cannot abort; the link may be lost | `StatusIsEvidence`, `FlightIsCommanded` and `NoForgottenFlight` over a whole flight with its progress reports |
| `Progress` | all troubles: backend, position, link, restart | `TypeOK`, `NeverAhead`, `PendingIsNext`; `PendingDelivered` under the fairness below |
| `Adapter` | 2 missions of 2 items each, a foreign plan; 3 transmissions of an ARM, 1 retry of other messages; 2 messages under way each way | `TypeOK`, `FliesWhatWasAuthorized`, `ArmNotRepeated`, `ConfirmedWasArmed`, `UploadedIsComplete`; `OperationReturns` under the fairness below |
| `Idempotency` | 3 requests at once, 2 keys and none, 2 contents | `Consistent`, `OneEffectPerKey` and the refinement `ImplementsFirstCall` |
| `Checkout` | 2 purchases, one to a saved location; 2 requests at once | `OneOrderPerAttempt`, `RetryNeverRefused`, `OrderGoesToItsPoint`, `SuccessIsItsOwnOrder`; `CheckoutCompletes` under the fairness below |
| `SavedLocations` | limit 2; 2 creations at once, 2 keys and none | `LimitHolds`, `OneCounter`; `EveryCreationAnswered`: no deadlock of row locks |
| `Live` | 1 order with one stage before its end; 2 operations at once, 3 watches | `TypeOK`, `OneKeeper`, `ActiveIsWatched`, `EndIsTold` |

Runs that end in a counterexample, each a disagreement between a document and
the code:

| Run | Property | The behaviour found |
|---|---|---|
| `PauseResent` | `ConfirmedNotResent` | The executor journals `PAUSED` only after the report of it succeeded. When the report fails, the next cycle finds the command ACKNOWLEDGED and the phase unchanged, and transmits PAUSE again. `docs/DRONE_PROTOCOL.md:110-111` says the persisted phase lets it finish without sending again. |
| `ConsumedExpired` | `ConsumedForGood` | A listing in a thread has read an authorization as ACTIVE; the gateway's retry claims the mission; the listing then writes EXPIRED over CONSUMED, and READY_FOR_AUTHORIZATION over UPLOADING. `docs/DATABASE.md:63` and `docs/adr/0006-autorizacao-em-duas-etapas.md:16` call the consumption atomic and the authorization single-use. |
| `ProgressForgotten` | `ProgressCatchesUp` | The poll that follows an overdue position suggests a status, and the adapter counts it as reported. The executor first reports MISSION_TELEMETRY_RECOVERED; when that call fails, the cycle ends before the status is journalled. The adapter never suggests it again, later ones are out of order, and the flight is never COMPLETED, although every call now succeeds. `docs/DRONE_PROTOCOL.md:109` says that after an outage the gateway reconciles. |

`ProgressCatchesUp` also fails with `Troubles = {"restart"}` and with
`Troubles = {"link"}`, and holds with `Troubles = {"backend"}`: the journal keeps
the last reported status, not the items reached, so a gateway that restarts or
reconnects after MISSION_ITEM_REACHED and before the poll that journals its status,
or that was cut off when the item was announced, never confirms that stage. No
document promises that it does; the run leaves both troubles out. In `GatewayExecutor`,
`journal.pending # "NONE" ~> journal.pending = "NONE"` fails with
`RequestTypes = {"START", "RTL"}`: an RTL accepted while an older progress report
is pending takes the backend to RETURNING, where it refuses that report with
409 for ever, and `_continue_executing` tries it first in every cycle.

Other behaviours the models show and no document decides about:

* A failed check makes the executor report FAILED; the backend applies it, the
  answer is lost, and the journal still says UPLOADING. If the checks of the
  next cycle pass, a mission that has ended is uploaded (`executor.py:879-892`).
  The START it would need is refused by the backend.
* An acknowledgement of an earlier ARM that arrives during the next one ends it,
  also when it is a rejection and this ARM takes effect
  (`pymavlink_gateway.py:976-983`).
* In the mobile application, `cancel()` of a watch completes at the next event of
  its order. Until one arrives, a change of group does not load
  (`orders_controller.dart:261`), a refresh that dropped the order goes on
  refreshing (`:369`), and a logout has not cleared the list
  (`app_controller.dart:231`); when it does, it clears a list that a later login
  may have loaded. The streams of the unit tests are cancelled at once.
* An older status from a page or detail replaces a newer one on the screen until
  the next news of the order (`orders_controller.dart:169-176`).

### Bounds

* Two authorizations let a mission lose its permission and get another. The
  handlers relate a mission only to its own rows, so `Backend` has one; the
  theorems of section 4 remove this bound and the others of that run.
* Two commands are what it takes for one to overtake, follow or coexist with
  another. `ExecutorFlight` has three because PAUSE and CONTINUE come after a
  START. `Missions`, `Vehicles` and `Gateways` are singletons in the executor's
  runs: the executor holds one mission, and commands for any other are answered
  at once. The theorems of section 4 hold for any number of missions and commands,
  one mission after the other on the same vehicle.
* The vehicle is armed by hand only while a mission remains that has not flown.
* Every health read of the executor draws its condition from `Conditions`: a link
  that is `"lost"` for one read and back for the next is in `ExecutorFlight`. In
  `Executor` the pre-flight checks fail because the vehicle was armed by hand or the
  authorization ran out; a sensor that is `"faulty"` takes the same branches
  and is in no run, for the size of its state space. The theorems of section 4
  hold for all three.
* `sent` counts to two (`Again`): the properties ask whether something
  happened a second time.
* `progress` runs through the four statuses of `PROGRESS_STATUSES`.
* `KeptStatuses` are exactly the statuses the executor sends with a journalled
  `event_id`.
* Three requests at once let one hold a key, one wait for it and one come
  later; two keys and requests without one show that keys do not disturb each
  other. A request slot is used again after its answer, so the number of
  requests over time is not bounded; the number of rows is.
* In `Checkout` two requests at once are an abandoned one and its repetition,
  and two purchases are what it takes to confuse one with the other; one goes
  to a saved location, so both paths of `submit()` are taken. Random keys and
  identities are taken in one order (`New`): which one it is makes no difference.
* In `SavedLocations` two creations with different keys both hold the foreign
  key's lock when they ask for the other, with one key they wait for the key,
  and without a key they meet at the creation lock; the limit of two lets
  both succeed, one, or none.
* In `Adapter` the two missions are equally long and made of the same items, so that
  neither a count nor a number of items tells what is left of one transfer from the
  other, and the foreign plan is as long, so that only its items tell it. Two
  messages under way make an answer late by one exchange. Its safety properties
  are proved for any missions and any number of messages.
* Two assumptions about the delay of the link are not bounds: what was sent for one
  mission has arrived when the next is claimed, which is at least one cycle later
  (`NextMission`), and what the autopilot sent has arrived when the next cycle begins
  (`DrainMessages`). The code relies on both, because neither an item nor an answer of
  the readback names the exchange it belongs to. Without the first, TLC finds a
  transfer that fails while its last item is still under way, the next mission of
  the same length announced, and that item stored and accepted as one of the
  latter's; only the readback then stands between it and a flight. Without the second, answers to
  earlier readbacks could agree with a plan that is no longer stored.
* In `Live` two operations at once are one that waits and one that overtakes it,
  and each may hold a cancelled watch while a third is current. One stage before
  the end lets an answer be older than the screen. The theorems of section 4
  remove both bounds. One order suffices for what is asked of it: the
  controller's maps have one entry per order, and the awaits of one order's
  watch inside a loop over several only make an operation wait longer.
* `ProgressTracker` has no bound of its own: a mission has four items with
  evidence, and the failures are not counted.
* Symmetry is declared for commands, authorizations, requests, keys, contents,
  rows and operations of the application, in runs of safety properties only.
* Deadlock is checked in every run.

### Fairness

`Executor` uses `Fairness` of `GatewayExecutor`:

* from some moment on no request or answer is lost and the gateway does not
  restart (the property is about recovery, and nothing recovers while every
  answer is lost);
* `WF` on the executor's steps: `main.run` starts the next cycle whatever
  happened in the last, and every await has a timeout;
* `SF` on a cycle whose heartbeat is newer than the acknowledgements of the
  moment: the autopilot sends a heartbeat every second, so a cycle that begins
  late enough after an acknowledgement has one, and cycles begin for ever;
* `SF` on an acknowledgement that is accepted: a snapshot may go stale before
  ARM is completed, but not before every attempt, since the executor publishes
  the heartbeat immediately before it acknowledges.

No fairness is assumed of administrators, of the clock or of the vehicle.

`Checkout`: from some moment on requests are answered in time and the
application is not closed; threads and the event loop go on with what they have
(`WF` on `Serve`), and the customer who was not told of the order pays for the
same content again. A request that was abandoned is not assumed to end in any
particular order with its repetition.

`SavedLocations`: threads run (`WF`), and PostgreSQL serves those that wait
for a key or a row lock in turn, so that one that is again and again grantable
is granted (`SF`). No request is assumed to fail: a deadlock that PostgreSQL
resolves by an error would not count as an answer.

`Adapter`: clocks go on (`WF` on `ReadbackTimeout` and `Deadline`): every `recv_match`
has a timeout and every operation a deadline, or, for a readback, a number of
attempts at each of its messages. Nothing is assumed of the link or the autopilot.

`Live` checks no liveness, because there is none to promise: what waits for the
cancellation of a watch waits for news of an order that may rest for hours.
`EndIsTold` and `ActiveIsWatched` are the safety part of what a customer needs.

`Progress` and `ProgressForgotten`: the flight goes on, messages that are sent repeatedly arrive,
the loop runs (`WF`), the link comes back, and from some moment on nothing goes
wrong.

## 4. Theorems

`MissionBackendProofs` proves, for any finite or infinite sets of missions,
vehicles, gateways, authorizations, commands and threads:

| Theorem | Statement |
|---|---|
| `BackendTypeCorrect` | `Spec => []TypeOK` |
| `BackendInvariant` | `Spec => []Inv` |
| `PermissionSafety` | `Spec => []OnePermissionPerFlight` |
| `OrderSafety` | `Spec => []OrderFollowsMission` |
| `HolderSafety` | `Spec => []CommandsOfTheHolder` |
| `CommandSafety` | `Spec => []OneOpenCommand` |
| `StrandedSafety` | `Spec => NoNewStranded` |
| `EndedRowsSafety` | `Spec => EndedRowsStay` |
| `EndedRowsWithThreads` | `ThreadedSpec => EndedRowsStay` |
| `LifecycleRefinement` | `Spec => ImplementsLifecycle` |
| `IsolationSuffices` | `ThreadedSpec /\ [][Undisturbed]_threadedVars => Spec` |

The assumptions are those of the module: the null values are no members of
their sets (`NullAssumption`), every vehicle is registered by one gateway
(`RegistrationAssumption`), and request bodies are drawn from the vocabulary
(`BodyAssumption`).

**The argument.** The inductive invariant is

    Inv == TypeOK /\ OnePermissionPerFlight /\ CommandsOfTheHolder
                  /\ OrderFollowsMission /\ OneOpenCommand

The conjuncts are not inductive alone. That a claim consumes the *only* live
permission rests on `AUTHORIZED <=> an ACTIVE row`; that a second claim cannot
follow rests on `claimed <=> a CONSUMED row`; that an acknowledgement binds a
command to the right gateway rests on a command existing only for a claimed
mission, whose holder never changes; that a report moves the order rightly
needs the stage of the mission before it, and, for PAUSED, the statuses an order
may have been left in. `StepKinds` first reduces the many handlers to nine kinds
of step by what they change; each invariant has then one lemma (`...Step`) with
one case per kind that can disturb it. `EndsStep` shows the action property
`EndedRowsStay`, the transition tables giving no successor to an ended status; it
needs of `Inv` only the types and that a mission's order has left its first statuses
(`OrdersTaken`). `StrandedStep` shows `NoNewStranded`: a request compares the holder
with the gateway that is admitted, and the holder of a claimed mission never changes
(`HolderKept`).
`LifecycleStep` maps each kind to `Inspect`, `Issue`, `Lapse`, `Withdraw`, `Take`,
`End` or a stutter: a permit is what `LifecyclePermit` makes of an authorization and
its TTL, a vehicle is fit when `Fit` finds nothing against its last snapshot.

**Threads.** The listing of authorized missions and the export are plain `def` routes:
FastAPI runs them in threads, and each writes what it read earlier without looking
again. In `Spec` each is one step (`ListingStep`, `ExportStep`), which is what happens
when no other handler commits in between. `ThreadedSpec` takes them apart, in any number
of threads, and `IsolationSuffices` says what the difference is worth: if every thread
that writes finds what it read still standing (`Undisturbed`: the authorization ACTIVE,
the mission where an export may be), the threaded backend behaves like `Spec`, so that
every theorem about `Spec` holds of it. Without that condition:

* `OnePermissionPerFlight`, `OrderFollowsMission`, `CommandsOfTheHolder`,
  `ImplementsLifecycle` and what rests on them in the composition with the executor are
  not claimed. The run `ConsumedExpired` shows the behaviour that breaks the first.
* `EndedRowsStay` holds all the same (`EndedRowsWithThreads`). It is stated for that: no
  step, of a thread or not, makes an ended authorization usable, consumes one that was
  not ACTIVE, or changes a closed command, and no handler of the event loop rewrites the
  end of a mission or of an authorization. It says nothing of what a listing or an
  export rewrites: these may turn CONSUMED into EXPIRED, or the status of an ended
  mission back into one of planning.

`GatewayExecutorProofs` proves, for any number of missions, commands and gateways,
both adapters and all conditions of the vehicle:

| Theorem | Statement |
|---|---|
| `ExecTypeCorrect` | `ExecSpec => []ExecTypeOK` |
| `ExecutorUsesBackend` | `ExecSpec => ImplementsBackend` |
| `CompositionSafety` | `ExecSpec => []` of the backend's four invariants |
| `TransmitsOnce` | `ExecSpec => []TransmittedOnce` |
| `NothingForgotten` | `ExecSpec => []NoForgottenFlight` |
| `TransmissionsAreCurrent` | `ExecSpec => []TransmissionIsCurrent` |
| `StatusesAreEvidence` | `ExecSpec => []StatusIsEvidence` |
| `FlightsAreCommanded` | `ExecSpec => []FlightIsCommanded` |

Its assumption is `DroneAssumption`: the vehicle of the gateway is registered by it, and
its heartbeats are bodies the backend accepts. `ExecInv` adds to the backend's
`TypeOK` and `CommandsOfTheHolder` that journal, await and work of a cycle fit
together (`Fits`): what is awaited has its mission, its pending report or its command,
and the command at hand is a row of a type the await is for (`CommandAtHand`). From it
every case of `ExecNext` is an action of `MissionBackend` or leaves its rows alone
(`StepOffered`), which is the refinement, and the theorems of
`MissionBackendProofs` follow for the composition. There is one lemma (`...Leaves`) for
what each action leaves behind, stated of the rows before it, because a command that
is a row stays one, of its type, for its mission (`CommandRowsStay`).

`TransmittedOnce` needs `OnceInv`: what the journal says is still to come was not
transmitted (`Due`: no upload while the phase is before `UPLOAD_COMMAND_SENT`, no START
while it is before `START_COMMAND_SENT`), and what was transmitted is beyond
doubt (`SentIsKnown`: for a mission that is claimed, for a command that is no longer
PENDING). A claim begins with nothing transmitted because an AUTHORIZED mission
was never claimed (`UnclaimedUnsent`); an ARM is transmitted only in the cycle
that took it from PENDING; and no step takes the journal of a mission back to a
phase before a transmission (`NotEarlier`), restarts included.

`BookInv` adds what the journal and the rows know of each other, through every lost
request and answer. A mission in flight is the journalled one, and its status
allows only certain phases (`Agreed`, `PhasesOf`): a report that was applied and
whose answer was lost leaves the journal one phase behind, never more. Until a
mission is started only a VERIFIED one has an open ARM or START (`Standing`), and what
the executor has in hand when it awaits the vehicle is acknowledged by this
gateway (`InHand`). `NothingForgotten` and `TransmissionsAreCurrent` follow. The proof
needs that a mission never returns to a status it has left (`Passed` and `NeverBack`
of `MissionBackendProofs`) and one open command per mission. `RowMoves` first
reduces what a step may do to missions and commands; each action has then one
lemma (`...Booked`).

`FlightInv` adds the vehicle. It takes off only on a transmitted START, and has
progressed only on missions it took off for (`Flown`); what is in the air is what the
journal says, and what the journal says was loaded is in its memory (`OnBoard`); what
the journal has pending or last reported, and what the backend shows, has been
reached or was ordered home (`Told`, `Shown`); an action is reported after the vehicle
confirmed it (`Acted`). A step moves the vehicle in four ways only: it stays as it is,
is loaded, takes off or advances (`VehicleMove`). `StatusesAreEvidence` and
`FlightsAreCommanded` follow, the latter with `OnePermissionPerFlight` and
`TransmittedOnce`.

`IdempotencyProofs` proves, for any sets of requests, keys, contents and rows,
and from the assumption that the null values are none of them:

| Theorem | Statement |
|---|---|
| `Consistency` | `Spec => []Consistent` |
| `OneEffect` | `Spec => []OneEffectPerKey` |
| `Implements` | `Spec => ImplementsFirstCall` |

`Consistent` is inductive: two transactions never act under one key, none acts
under a key that is recorded (`ReservationsExclude`), and the records are exactly
the rows made under keys (`RecordsAreRows`). That a commit does not add a second
row for its key rests on the former, that a replay is told the row on the
latter. `MovingKeeps`, `ReplayKeeps` and `CompleteKeeps` treat the three things
an action can do; the refinement follows case by case, lookup and reservation
being stutters of `FirstCall`.

`SavedLocationsProofs` proves `Limit == Spec => []LimitHolds` and
`OneCreationCounts == Spec => []OneCounter` for any limit and any number of requests.
`OneCounter` says that one transaction at most holds the creation lock, because
that lock conflicts with itself, and that one that has counted holds it and can
rely on its count: others can only delete.

`ProgressTrackerProofs` proves, for any set of troubles:

| Theorem | Statement |
|---|---|
| `TrackerTypeCorrect` | `Spec => []TypeOK` |
| `NeverAheadOfTheFlight` | `Spec => [](TypeOK /\ NeverAhead)` |
| `JournalledReportIsNext` | `Spec => []PendingIsNext` |

That the backend is never ahead of the flight follows the evidence through all
its copies: what the adapter holds as reached was flown, what it suggests is
confirmed by what it holds, what is pending was suggested, what is reported
was pending (`EvidenceHolds`, `ReportsHold`). That a report is only prepared on top
of one that was answered rests on `FlushedFirst`: nothing is pending once a poll
has begun.

`VehicleAdapterProofs` proves, for any missions and plans, any capacity of the link
and any numbers of attempts:

| Theorem | Statement |
|---|---|
| `AdapterTypeCorrect` | `Spec => []TypeOK` |
| `ArmingNotRepeated` | `Spec => ArmNotRepeated` |
| `ConfirmedArmingHappened` | `Spec => ConfirmedWasArmed` |
| `OnlyTheAuthorizedPlanFlies` | `Spec => []FliesWhatWasAuthorized` |
| `UploadsAreComplete` | `Spec => UploadedIsComplete` |

The queue is emptied before an ARM, so every heartbeat in it is younger than the
transaction: if one says armed, the vehicle was armed since (`Witnessed`). `told`
implies `seen` while the acknowledgement is awaited (`Remembered`), and `seen` forbids
another attempt. `InPlan` keeps the numbers of items within the mission, which
the types of the messages need.

`PlanInv` follows the items of a mission into the autopilot and back. Whatever is
under way to it is about the mission in hand (`OwnMessages`), which is where the
assumption of `NextMission` enters. A transfer leaves no gap in what is stored
(`NoGap`) and is announced before its first item (`AnnouncedFirst`). Every item that was
asked for is stored, or still to come in the transfer that is open (`Served`); since
the adapter takes a transfer as done when all were asked for and one is accepted,
all of them are then stored, even if that answer belongs to another transfer than
the adapter thinks. A readback begins with an empty queue, so what it is told is
so (`ReadTruly`), and a plan that was read in full is the one that flies (`FliesThis`).

`CheckoutProofs` proves, for any requests, contents, keys, points and orders, from the
assumption that `None` is none of them (`AbsenceAssumption`):

| Theorem | Statement |
|---|---|
| `CheckoutIsTraceable` | `Spec => []CheckoutInv` |
| `OneOrder` | `Spec => []OneOrderPerAttempt` |
| `RetriesAreAnswered` | `Spec => []RetryNeverRefused` |
| `OrdersGoToTheirPoints` | `Spec => []OrderGoesToItsPoint` |
| `SuccessesAreOwn` | `Spec => SuccessIsItsOwnOrder` |

`CheckoutInv` contains the invariant of `Idempotency`, which is proved here once more:
the prover does not instantiate the theorems of another module, and a submission
answers with the order it submits, not with a row of its own. To it comes what
keys are used for. A use is a request or a row with its slot and payload. A key is
used for one content (`OneContent`), because another content takes a new key; a
request for an order names the row of the point under its own key and a
submission the row of the order (`UsesAreDerived`), because the application puts into
them what it was answered, and the answer it awaits is to a request of its
attempt (`Awaited`), however many abandoned ones still run. With one row per slot,
two uses of a slot therefore have the same payload (`OnePayload`), so that no replay is
refused. A commit adds no use, its request being one already. `SuccessesAreOwn` also
needs that the keys of purchases the customer was told of are over
(`PlacedAreOver`) and that no two orders have one identity (`RowsAreOwn`).

`LiveOrdersProofs` proves, for any number of stages and of operations at once:

| Theorem | Statement |
|---|---|
| `LiveTypeCorrect` | `Spec => []TypeOK` |
| `WatchesAreKept` | `Spec => []OneKeeper` |
| `ActiveOrdersAreWatched` | `Spec => []ActiveIsWatched` |
| `EndReachesTheSocket` | `Spec => []EndIsTold` |

The inductive invariant is

    LiveInv == TypeOK /\ TasksOK /\ Kept /\ Pursued /\ Told

`TasksOK` says where each kind of operation may stand and that one that waits for
a cancellation names a watch. `Kept` is `OneKeeper` with witnesses in place of
cardinalities: a watch that is not cancelled is the subscribed one, a cancelled one
has exactly one operation that awaits it. From it `FreePlace` concludes, by the
pigeonhole principle, that a watch place is free whenever nothing is subscribed,
which the types need. `Pursued` sharpens `ActiveIsWatched`: the operation an unwatched
order waits for is a logout or a page, never a change of group, which has emptied
the list. `Told` extends `EndIsTold` to a watch that is reading the order: unless its
request was sent after the end, the news is still in its queue.

Every safety property and action property of the passing runs, and both refinements,
are theorems. Model-checked only: the liveness properties `CommandsAnswered`,
`PendingDelivered`, `OperationReturns`, `CheckoutCompletes` and `EveryCreationAnswered` with
their fairness, which are out of reach of the prover; and the counterexamples.

## 5. What is not modelled, and assumptions

* The backend runs as one process with one event loop (`compose.yaml`, one
  uvicorn worker). With several workers the row locks of the handlers, not the
  event loop, would have to carry the atomicity.
* A success answer whose body does not validate, and a journal that does not
  parse (the gateway then refuses to start), are left out.
* The journal file is replaced with `os.replace`: no torn write.
* Thresholds, coordinates, waypoints, texts, audit contents and units are left
  out; the checks over them appear as the booleans of `HealthPost`, and the
  comparison of the mission file may fail at any claim.
* Permission switches of the configuration (`allow_...`) are taken as on; off,
  they only remove steps.
* Of the adapter, the requests for message streams, telemetry values and events
  are left out. Pause, continue and return exchange messages as the start of a
  mission does (`_command_and_wait`) and are not repeated. That an operation of
  `VehicleAdapter` is a step of `GatewayExecutor` is not checked. The latter lets each
  operation succeed, or fail with or without its effect on the vehicle; it does not let
  the effect of an operation that failed come later, after steps of other processes,
  as a message delayed on the link of `VehicleAdapter` may.
* No message outlives its mission or, of the autopilot's answers, its cycle: see the
  bounds of `Adapter` in section 3.
* A drain takes all that has arrived, of which there is never more than the fifty
  messages one drain takes (`pymavlink_gateway.py:466`). An autopilot that sends more
  in every cycle would be seen ever later.
* `LiveOrders` has one page: `loadMore` and the backtrack of its offset
  (`orders_controller.dart:204-244`) are left out, as are the mission and telemetry
  snapshots and the texts of errors. A customer who logs in again is the same
  customer. The hub registers a socket and sends its snapshot in one step
  (`websockets.py:91-97` awaits only the send).
* A broadcast reaches every open socket. `websocket.py:48` goes on after a
  `RuntimeError` only; should the web framework raise anything else for a socket
  whose peer is gone, the ones after it would not be told.
* Open sockets keep a database session each (`websockets.py:74`), so that their number
  and the connection pool limit each other; no module models the pool.
* PostgreSQL runs at its default isolation, READ COMMITTED: a statement sees
  what is committed when it runs. Its unique index and its row locks are
  modelled from their documented behaviour.
* A refusal for a reason of the business (a product that is gone, a point out of
  the area) is `Fail`: `CheckoutCompletes` speaks of purchases that are refused
  only finitely often.
* `LiveOrders` queues each news of an order once. A submission that is repeated under
  its key broadcasts its recorded, older body again
  (`backend/app/api/v1/routers/orders.py:114-115`), which a socket
  may then show until the next news.
* `ForeignWrite`: another ground station replaces the mission at any time but between
  the readback before START and the arrival of START, when nothing could notice it.
* `ProgressTracker` follows a flight along its items; where an RTL leaves the
  autopilot's current item is not known from this code.

## 6. Plan

Done: the modules of section 2 and their proofs. Next, most important first:

1. Proofs: that an operation of `VehicleAdapter` is a step that `GatewayExecutor` allows,
   by mapping the messages of an operation to its outcome. This needs late effects in
   `GatewayExecutor` (section 5) and the evidence invariants proved again over them.
2. `OneOpenCommand` and `NoNewStranded` with the threads of `ThreadedHandlers` at
   work, by an invariant that does without the stages of the mission.
3. The operations stream of the administration panel and its overlapping requests;
   further pages of `LiveOrders`; the saved-locations controller.
4. Telemetry: what a sample that is refused does to a cycle.
