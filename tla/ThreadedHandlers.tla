--------------------------- MODULE ThreadedHandlers ---------------------------
(***************************************************************************)
(* The two backend handlers that do not run on the event loop: FastAPI     *)
(* calls the plain `def' routes authorized_missions and                    *)
(* admin_export_mission in threads of its pool.  Each reads rows into its  *)
(* own session and later writes what it decided, without a lock or a       *)
(* version check, so a handler of MissionBackend may commit in between.    *)
(***************************************************************************)
EXTENDS MissionBackend

CONSTANT Threads

VARIABLE
  pool   \* pool[t]: what the request running in thread t has read

threadedVars == <<vars, pool>>

Idle == [doing |-> "nothing"]

(* A listing holds an authorization it has read as ACTIVE, an export a     *)
(* mission it has read as GENERATED.                                       *)
Request ==
  {Idle} \cup [doing : {"list"}, auth : Authorizations]
         \cup [doing : {"export"}, mission : Missions]

ThreadedInit == Init /\ pool = [t \in Threads |-> Idle]

Hold(t, request) == pool' = [pool EXCEPT ![t] = request]

ListRead(t, m, a) ==
  /\ pool[t] = Idle
  /\ mission[m].status = "AUTHORIZED"
  /\ a \in ActiveAuthorizations(m)
  /\ Hold(t, [doing |-> "list", auth |-> a])
  /\ UNCHANGED vars

(* The clock is read after the row; an expired authorization is written    *)
(* EXPIRED and its mission READY_FOR_AUTHORIZATION, whatever they are now. *)
ListWrite(t) ==
  /\ pool[t].doing = "list"
  /\ LET a == pool[t].auth
     IN  \/ auth[a].expired /\ Invalidate(auth[a].mission, a, "EXPIRED")
         \/ ~auth[a].expired /\ UNCHANGED rows
  /\ Hold(t, Idle)
  /\ UNCHANGED gatewayId

ExportRead(t, m) ==
  /\ pool[t] = Idle
  /\ mission[m].status = "GENERATED"
  /\ Hold(t, [doing |-> "export", mission |-> m])
  /\ UNCHANGED vars

ExportWrite(t) ==
  /\ pool[t].doing = "export"
  /\ mission' = [mission EXCEPT ![pool[t].mission].status = "EXPORTED_TO_MISSION_PLANNER"]
  /\ Hold(t, Idle)
  /\ UNCHANGED <<order, auth, cmd, reported, health, gatewayId>>

ThreadStep ==
  \E t \in Threads :
    \/ \E m \in Missions :
         \/ \E a \in Authorizations : ListRead(t, m, a)
         \/ ExportRead(t, m)
    \/ ListWrite(t)
    \/ ExportWrite(t)

(* A new deployment is a new process: what the threads were doing is lost. *)
ThreadedNext ==
  \/ ThreadStep
  \/ LoopStep /\ UNCHANGED <<gatewayId, pool>>
  \/ Redeploy /\ pool' = [t \in Threads |-> Idle]

ThreadedSpec == ThreadedInit /\ [][ThreadedNext]_threadedVars

(* No handler has committed over what a thread has read when it writes: a  *)
(* listing finds its authorization still ACTIVE, an export its mission     *)
(* where an export may be.                                                 *)
Undisturbed ==
  \A t \in Threads :
    /\ ListWrite(t) /\ auth[pool[t].auth].expired => auth[pool[t].auth].status = "ACTIVE"
    /\ ExportWrite(t) =>
         mission[pool[t].mission].status \in {"GENERATED", "EXPORTED_TO_MISSION_PLANNER"}

-------------------------------------------------------------------------------
(* An authorization is consumed atomically by the gateway: once CONSUMED   *)
(* it is never anything else (docs/DATABASE.md, on flight_authorizations). *)
ConsumedForGood ==
  [][\A a \in Authorizations :
       auth[a].status = "CONSUMED" => auth'[a].status = "CONSUMED"]_threadedVars
==============================================================================
