SPECIFICATION StagedSpec
CONSTANTS
  Ours = "ours"
  Foreign = {}
CHECK_DEADLOCK FALSE
INVARIANT FaultedSessionFails
