\* Two workers, redelivery, failures, a restart and fences that change.
SPECIFICATION Spec
CONSTANTS
  Workers = {w1, w2}
  Reports <- VisitReports
  Fences = {1}
  Threshold <- MCThreshold
  Gate <- MCGate
  MaxCalls = 3
  MaxVersions = 3
  MaxFaults = 1
  MaxRestarts = 1
SYMMETRY Symmetry
INVARIANTS
  PersistedWasAnnounced
  NoDuplicateTransitions
  RowsTellMembership
CHECK_DEADLOCK FALSE
