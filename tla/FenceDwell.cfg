\* One vessel, two fences, tracks long enough for several stays and dwells.
SPECIFICATION TrackSpec
CONSTANTS
  Vessels = {"a"}
  Fences = {"f", "g"}
  Threshold <- MCThreshold
  Gate <- MCGate
  Speeds <- MCSpeeds
  Times = {0, 1, 2, 3}
  Churn = FALSE
  MaxReports = 4
INVARIANTS
  DwellExactlyEarned
PROPERTIES
  ImplementsStays
CHECK_DEADLOCK FALSE
