------------------------------- MODULE MCFleet -------------------------------
(***************************************************************************)
(* What the service keeps about ships and devices, in parts that share no  *)
(* state: the MRV workflow, voyages and their fuel, the activity estimate  *)
(* and the CII rating, the device registry with its verifier, staged       *)
(* firmware, and vessel static data.  A behaviour is about one of them,    *)
(* which focus names.                                                      *)
(***************************************************************************)
EXTENDS MCMrvWorkflow, MrvVoyages, MrvActivity, Devices, Firmware, VesselStatic, TLC

VARIABLE focus

fleetVars == <<focus, mrvVars, voyageVars, activityVars, deviceVars, firmwareVars, staticVars>>

(* Two fuel periods that overlap. *)
MCFuelPeriods == {[from |-> 1, to |-> 3, tonnes |-> 5], [from |-> 2, to |-> 4, tonnes |-> 3]}

(* A period of less than a millisecond, one of a second, two longer than a minute. *)
MCPeriods == {[from |-> 0, to |-> 1], [from |-> 3, to |-> 7], [from |-> 0, to |-> 9], [from |-> 0, to |-> 12]}

MCDoc(cited, field, years, bounds) ==
  [cited |-> cited, field |-> field, years |-> years, bounds |-> bounds, required |-> 3]

(* A usable configuration, one without a source, one out of order. *)
MCCIIConfigs ==
  {MCDoc(TRUE, "GT", {1}, <<4, 8, 12, 16>>),
   MCDoc(FALSE, "GT", {1}, <<4, 8, 12, 16>>), MCDoc(TRUE, "GT", {1, 2}, <<8, 4, 16, 12>>)}
MCCapacityOf == [GT |-> 2, DWT |-> 0, LOA |-> 1]

FleetSymmetry == Permutations(MrvCallers)

FleetInit ==
  /\ focus \in {"workflow", "voyages", "activity", "devices", "firmware", "static"}
  /\ MrvInit /\ VoyagesInit /\ ActivityInit /\ DevicesInit /\ FirmwareInit /\ StaticInit
  /\ focus # "workflow" => ships = {}
  /\ focus # "activity" => ciiConfig = {}

FleetNext ==
  \/ /\ focus = "workflow" /\ MrvNext
     /\ UNCHANGED <<focus, voyageVars, activityVars, deviceVars, firmwareVars, staticVars>>
  \/ /\ focus = "voyages" /\ VoyagesNext
     /\ UNCHANGED <<focus, mrvVars, activityVars, deviceVars, firmwareVars, staticVars>>
  \/ /\ focus = "activity" /\ ActivityNext
     /\ UNCHANGED <<focus, mrvVars, voyageVars, deviceVars, firmwareVars, staticVars>>
  \/ /\ focus = "devices" /\ DevicesNext
     /\ UNCHANGED <<focus, mrvVars, voyageVars, activityVars, firmwareVars, staticVars>>
  \/ /\ focus = "firmware" /\ FirmwareNext
     /\ UNCHANGED <<focus, mrvVars, voyageVars, activityVars, deviceVars, staticVars>>
  \/ /\ focus = "static" /\ StaticNext
     /\ UNCHANGED <<focus, mrvVars, voyageVars, activityVars, deviceVars, firmwareVars>>

FleetSpec == FleetInit /\ [][FleetNext]_fleetVars
=============================================================================
