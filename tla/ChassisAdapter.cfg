SPECIFICATION FairAdapterSpec
CONSTANTS
  AllowMotion = TRUE
  StateTimeout = 1
  CommandTimeout = 0
  ZeroPreparation = 1
  MaxSpeed = 1
  MaxStep = 1
  Commands = {0, 1}
  MotionProfile = "staged"
  PreserveClassicWalk = TRUE
  Lifetime = 1
  MaxDuration = 0
INVARIANTS
  DaemonArmIsKnown
  MoveIsFresh
PROPERTIES
  FaultStopsRobot
