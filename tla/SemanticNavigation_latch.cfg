SPECIFICATION NavSpec
CONSTANTS
  Run = {r1, r2}
  MaxBindings = 1
  MaxRevision = 1
  None = None
CHECK_DEADLOCK FALSE
INVARIANT SingleFlight
