\* Two overlapping confirmations leave a ship with two CONFIRMED plans.
SPECIFICATION MrvSpec
CONSTANTS
  MrvCallers = {c1, c2}
  MrvActors = {p, q}
  MrvShips = {s}
  MrvKeys = {k}
  PlanForms <- MCPlanForms
  FuelForms <- MCFuelForms
  FactorGrades = {"HFO"}
  MaxPlans = 2
  MaxRequests = 5
INVARIANTS
  OneConfirmedPlan
CHECK_DEADLOCK FALSE
