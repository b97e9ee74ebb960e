----------------------------- MODULE MCRegisters -----------------------------
(***************************************************************************)
(* The registers behind the API that share no state: distress alerts and   *)
(* app reports, investigation cases, the other safety registers, the       *)
(* transit registry and its feeds, the geofence registry and the stream    *)
(* hub.  A behaviour is about one of them, which focus names.              *)
(***************************************************************************)
EXTENDS MCAppReports, Investigation, SafetyRegisters, MCTransit, FenceRegistry, Hub

VARIABLE focus

registersVars ==
  <<focus, appVars, investigationVars, safetyVars, transitVars, registryVars, hubVars>>

(* Event 2 is the only one that needs the higher clearance. *)
MCLabelOf == [e \in 1 .. MaxEvents |-> IF e = 2 THEN "SECRET" ELSE "PUBLIC"]
MCClearances == {{"PUBLIC"}, {"PUBLIC", "SECRET"}}

RegistersInit ==
  /\ focus \in {"app", "investigation", "safety", "transit", "fences", "hub"}
  /\ AppInit /\ InvestigationInit /\ SafetyInit /\ TransitInit /\ RegistryInit /\ HubInit
  /\ focus # "safety" => register = "case"
  /\ focus # "fences" => ~secured

RegistersNext ==
  \/ /\ focus = "app" /\ AppNext
     /\ UNCHANGED <<focus, investigationVars, safetyVars, transitVars, registryVars, hubVars>>
  \/ /\ focus = "investigation" /\ InvestigationNext
     /\ UNCHANGED <<focus, appVars, safetyVars, transitVars, registryVars, hubVars>>
  \/ /\ focus = "safety" /\ SafetyNext
     /\ UNCHANGED <<focus, appVars, investigationVars, transitVars, registryVars, hubVars>>
  \/ /\ focus = "transit" /\ TransitNext
     /\ UNCHANGED <<focus, appVars, investigationVars, safetyVars, registryVars, hubVars>>
  \/ /\ focus = "fences" /\ RegistryNext
     /\ UNCHANGED <<focus, appVars, investigationVars, safetyVars, transitVars, hubVars>>
  \/ /\ focus = "hub" /\ HubNext
     /\ UNCHANGED <<focus, appVars, investigationVars, safetyVars, transitVars, registryVars>>

RegistersSpec == RegistersInit /\ [][RegistersNext]_registersVars
=============================================================================
