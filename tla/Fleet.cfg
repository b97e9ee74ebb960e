\* Ships, devices and their records, each under two overlapping requests.
SPECIFICATION FleetSpec
CONSTANTS
  MrvCallers = {c1, c2}
  MrvActors = {p, q}
  MrvShips = {s}
  MrvKeys = {k}
  PlanForms <- MCPlanForms
  FuelForms <- MCFuelForms
  FactorGrades = {"HFO"}
  MaxPlans = 2
  MaxRequests = 5
  Ticks = 4
  FuelPeriods <- MCFuelPeriods
  MaxVoyages = 3
  FixTimes = {0, 3, 5, 8, 9}
  Periods <- MCPeriods
  MsTicks = 2
  SecondTicks = 4
  MinuteSeconds = 2
  Positions = {0, 5}
  SegmentGap = 5
  MinCoveragePermille = 500
  TolerancePermille = 200
  Amounts = {0, 1, 2, 3}
  CIIConfigs <- MCCIIConfigs
  CapacityOf <- MCCapacityOf
  Nano = 10
  MaxU64 = 20
  MaxFixes = 3
  DeviceIds = {d}
  Makers = {u}
  Checkers = {u, v}
  AdminCallers = {c1, c2}
  Verifiers = {w}
  Grace = 1
  MaxClock = 2
  MaxAdminRequests = 3
  MaxEpoch = 2
  Fleet = {d}
  Fetches = {c1, c2}
  MaxReleases = 3
  MaxKeyEpoch = 2
  Connectors = {c1, c2}
  StaticData = {"a", "b"}
  StaticTimes = {1, 2, 3}
  MaxStatic = 4
  MaxStaticFaults = 1
SYMMETRY FleetSymmetry
INVARIANTS
  ReportingIsAnnounced
  LedgerExplainsState
  ConfirmedTogetherOverlapped
  NoFuelCountedTwice
  EstimateFollowsMethod
  RatingCountsBoundaries
  OneCurrentKey
  AcceptedWasUsable
  HistoryHoldsApplied
  OfferNeverOlder
PROPERTIES
  GraceIsKept
CHECK_DEADLOCK FALSE
