---------------------------- MODULE MCFenceIngest ----------------------------
(* A small instance of FenceIngest. *)
EXTENDS FenceIngest, TLC

MCReport(vessel, inside, speed, at) ==
  [vessel |-> vessel, inside |-> inside, speed |-> speed, at |-> at]

(***************************************************************************)
(* Two positions of a vessel, in any order and three times each.  Version  *)
(* 1 of the fence holds the first, version 2 the second, version 3 both,   *)
(* and version 2 dwells later.                                             *)
(***************************************************************************)
VisitReports == {MCReport("a", {<<1, 1>>, <<1, 3>>}, 0, 1), MCReport("a", {<<1, 2>>, <<1, 3>>}, 0, 2)}

MCThreshold == [f \in {1}, n \in 1 .. 3 |-> IF n = 2 THEN 2 ELSE 1]
MCGate == [f \in {1}, n \in 1 .. 3 |-> 1]

Symmetry == Permutations(Workers)
=============================================================================
