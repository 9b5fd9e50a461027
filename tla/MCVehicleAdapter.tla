---------------------------- MODULE MCVehicleAdapter ----------------------------
(***************************************************************************)
(* Instances of VehicleAdapter for TLC.                                    *)
(***************************************************************************)
EXTENDS VehicleAdapter, TLC

CONSTANTS m1, m2, a, b, c

(* As long as one another: neither a count nor the number of the last item *)
(* tells which of the two missions a transfer is of.                       *)
MCPlanOf == (m1 :> <<a, b>>) @@ (m2 :> <<b, a>>)

(* As long as the missions, and nowhere the same.                          *)
MCForeignPlans == {<<c, c>>}
==============================================================================
