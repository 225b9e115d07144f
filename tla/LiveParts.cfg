SPECIFICATION Spec
CONSTANTS
  AllowMotion = TRUE
  StateTimeout = 1
  CommandTimeout = 2
  ZeroPreparation = 2
  MaxSpeed = 3
  MaxStep = 2
  Commands <- MCCommands
  Ours = "ours"
  Foreign = {"theirs"}
  Distance = {1, 2}
  MeasurementAge = 1
INVARIANTS
  PassIsEarned
  DisarmIsFinal
  CommandsServeClaimedGoal
PROPERTIES
  SilenceStopsOutput
  SessionEnds
  ForwardIsWitnessed
CHECK_DEADLOCK FALSE
