\* Two workers race on one vessel: duplicates, a later fix, one failing call.
SPECIFICATION Spec
CONSTANTS
  Workers = {w1, w2}
  Reports <- RaceReports
  Zones = {"z1"}
  Sorted <- MCSorted
  Inside <- MCInside
  Principals = {"maker", "checker"}
  Maker <- MCMaker
  None = None
  MaxCalls = 1
  MaxFaults = 1
  MaxCrashes = 0
  Expiring = {"dedup", "zone"}
INVARIANTS
  DeliveryOrder
  LatestCoversPublished
  AnnouncedCrossingIsStored
  OneRowPerWindow
CHECK_DEADLOCK FALSE
