---------------------------- MODULE MCMrvWorkflow ----------------------------
(* A small instance of MrvWorkflow. *)
EXTENDS MrvWorkflow

MCPlanForms == {[method |-> "B", grades |-> {"HFO", "LNG"}]}

MCFuel(grade, method, inYear) == [grade |-> grade, method |-> method, bdn |-> FALSE, inYear |-> inYear]

(* A report of the year and one of another year. *)
MCFuelForms == {MCFuel("HFO", "B", TRUE), MCFuel("HFO", "B", FALSE)}
=============================================================================
