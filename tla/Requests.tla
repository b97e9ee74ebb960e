------------------------------ MODULE Requests ------------------------------
(***************************************************************************)
(* What the request handlers of the services have in common: checks that   *)
(* are made in an order, of which the first that applies ends the request. *)
(***************************************************************************)
EXTENDS Naturals, Sequences

(* The error of the first check <<applies, error>> that applies, "nil" if none does. *)
FirstError(checks) ==
  LET hits == {i \in DOMAIN checks : checks[i][1]}
  IN  IF hits = {} THEN "nil" ELSE checks[CHOOSE i \in hits : \A j \in hits : i <= j][2]
=============================================================================
