\* One worker, failures at every call, a restart, suspect reports.
SPECIFICATION Spec
CONSTANTS
  Workers = {w1}
  Reports <- FaultReports
  Zones = {"z1"}
  Sorted <- MCSorted
  Inside <- MCInside
  Principals = {"maker", "checker"}
  Maker <- MCMaker
  None = None
  MaxCalls = 1
  MaxFaults = 1
  MaxCrashes = 1
  Expiring = {}
INVARIANTS
  NoSilentDrop
  RefusedOnlyUnread
  CrossingsExplainMembership
CHECK_DEADLOCK FALSE
