------------------------------ MODULE MCPollers ------------------------------
(***************************************************************************)
(* The two loops that move rows from a table to where they are wanted: the *)
(* PCS importer and the drain of the MRV outbox.  They share nothing, so   *)
(* one run explores the one or the other.                                  *)
(***************************************************************************)
EXTENDS PcsImporter, MrvOutbox

VARIABLE focus

pollersVars == <<focus, vars, outboxVars>>

PollersInit == focus \in {"pcs", "outbox"} /\ Init /\ OutboxInit

PollersNext ==
  \/ focus = "pcs" /\ Next /\ UNCHANGED <<focus, outboxVars>>
  \/ focus = "outbox" /\ OutboxNext /\ UNCHANGED <<focus, vars>>

(* The loop that is not explored has no rows, so its fairness asks nothing. *)
PollersSpec == PollersInit /\ [][PollersNext]_pollersVars /\ Fairness /\ OutboxFairness
=============================================================================
