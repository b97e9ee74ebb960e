\* Two appends overlap.
SPECIFICATION InvestigationSpec
CONSTANTS
  Callers = {a, b}
  Contents = {x, y}
  Recs = {}
  MaxStarts = 3
INVARIANTS
  ChainVerifies
CHECK_DEADLOCK FALSE
