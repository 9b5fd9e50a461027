--------------------------- MODULE MissionLifecycle ---------------------------
(***************************************************************************)
(* What the backend promises about flights, without orders, reports,       *)
(* commands or clocks: a mission is planned on the ground, flies at most   *)
(* once, only on a permit that was valid and a vehicle that was fit until  *)
(* that very step, and for the one gateway that keeps this vehicle.        *)
(* MissionBackend implements this.                                         *)
(***************************************************************************)
CONSTANTS Missions, Vehicles, Permits, Gateways, KeeperOf, Nobody, Nothing, None

VARIABLES
  stage,     \* stage[m]: on the ground, permitted to fly, flying, ended
  holder,    \* holder[m]: the gateway that took the mission
  craft,     \* craft[m]: the vehicle the mission was last permitted for
  permit,    \* permit[p]: the mission it is for and what became of it
  fit        \* the vehicles known to be fit to fly

vars == <<stage, holder, craft, permit, fit>>

PermitState == {"blank", "valid", "lapsed", "used", "void"}

TypeOK ==
  /\ stage \in [Missions -> {"ground", "permitted", "flying", "ended"}]
  /\ holder \in [Missions -> Gateways \cup {Nobody}]
  /\ craft \in [Missions -> Vehicles \cup {None}]
  /\ permit \in [Permits -> [mission : Missions \cup {Nothing}, state : PermitState]]
  /\ fit \subseteq Vehicles

Init ==
  /\ stage = [m \in Missions |-> "ground"]
  /\ holder = [m \in Missions |-> Nobody]
  /\ craft = [m \in Missions |-> None]
  /\ permit = [p \in Permits |-> [mission |-> Nothing, state |-> "blank"]]
  /\ fit = {}

(* What is known of the vehicles changes, and so it does by not being      *)
(* renewed in time.                                                        *)
Inspect ==
  /\ fit' \in SUBSET Vehicles
  /\ UNCHANGED <<stage, holder, craft, permit>>

Issue(m, v, p) ==
  /\ stage[m] = "ground"
  /\ v \in fit
  /\ permit[p].state = "blank"
  /\ stage' = [stage EXCEPT ![m] = "permitted"]
  /\ craft' = [craft EXCEPT ![m] = v]
  /\ permit' = [permit EXCEPT ![p] = [mission |-> m, state |-> "valid"]]
  /\ UNCHANGED <<holder, fit>>

Lapse(p) ==
  /\ permit[p].state = "valid"
  /\ permit' = [permit EXCEPT ![p].state = "lapsed"]
  /\ UNCHANGED <<stage, holder, craft, fit>>

Withdraw(m, p) ==
  /\ stage[m] = "permitted"
  /\ permit[p].mission = m
  /\ permit[p].state \in {"valid", "lapsed"}
  /\ stage' = [stage EXCEPT ![m] = "ground"]
  /\ permit' = [permit EXCEPT ![p].state = "void"]
  /\ UNCHANGED <<holder, craft, fit>>

Take(m, p) ==
  /\ stage[m] = "permitted"
  /\ permit[p] = [mission |-> m, state |-> "valid"]
  /\ craft[m] \in fit
  /\ stage' = [stage EXCEPT ![m] = "flying"]
  /\ holder' = [holder EXCEPT ![m] = KeeperOf[craft[m]]]
  /\ permit' = [permit EXCEPT ![p].state = "used"]
  /\ UNCHANGED <<craft, fit>>

End(m) ==
  /\ stage[m] = "flying"
  /\ stage' = [stage EXCEPT ![m] = "ended"]
  /\ UNCHANGED <<holder, craft, permit, fit>>

Next ==
  \/ Inspect
  \/ \E p \in Permits : Lapse(p)
  \/ \E m \in Missions :
       \/ End(m)
       \/ \E p \in Permits :
            \/ \E v \in Vehicles : Issue(m, v, p)
            \/ Withdraw(m, p)
            \/ Take(m, p)

Spec == Init /\ [][Next]_vars
==============================================================================
