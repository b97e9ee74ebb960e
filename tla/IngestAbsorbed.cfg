\* A failed report and the copy that is absorbed in its place.
SPECIFICATION Spec
CONSTANTS
  Workers = {w1, w2}
  Reports <- DuplicateReports
  Zones = {"z1"}
  Sorted <- MCSorted
  Inside <- MCInside
  Principals = {"maker", "checker"}
  Maker <- MCMaker
  None = None
  MaxCalls = 1
  MaxFaults = 1
  MaxCrashes = 0
  Expiring = {}
INVARIANTS
  AbsorbedIsDelivered
CHECK_DEADLOCK FALSE
