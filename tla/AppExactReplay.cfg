\* A report is sent twice without any failure.
SPECIFICATION AppSpec
CONSTANTS
  Workers = {w1, w2}
  Entries <- MixedEntries
  MaxSends = 2
  MaxSteps = 0
  MaxFaults = 0
INVARIANTS
  ConflictIsReal
CHECK_DEADLOCK FALSE
