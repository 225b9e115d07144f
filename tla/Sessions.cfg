SPECIFICATION AllSpec
CONSTANTS
  AllowMotion = TRUE
  RepeatableArm = TRUE
  PreserveClassicWalk = TRUE
  Watchdog = 1
  MaxMotion = 0
  MaxLifetime = 0
  Operations = {"Arm", "Disarm", "Move", "RestoreClassicWalk"}
  Packets <- MCPackets
  Session = {s1, s2}
  Backlog = 1
  MaxCommands = 2
  Nothing = Nothing
  FreshSamples = 2
  IdentitySamples = 2
  MaxSessions = 2
INVARIANTS
  UnconfirmedStopIsLatched
  AcknowledgedStopIsStopped
  AtMostTheCloudInHand
  NothingIsLeft
  OneGoalPerPermit
  SuccessIsWhole
PROPERTIES
  ImplementsSupervisor
SYMMETRY Symmetry
CONSTRAINT StreamsAreLost
VIEW SessionsView
