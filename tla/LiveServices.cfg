SPECIFICATION ServicesSpec
CONSTANTS
  AllowMotion = TRUE
  RepeatableArm = TRUE
  PreserveClassicWalk = FALSE
  Watchdog = 1
  MaxMotion = 0
  MaxLifetime = 0
  Operations = {"Arm", "Ping", "Move"}
  Packets <- MCPackets
  Session = {s1}
  Backlog = 1
  MaxCommands = 2
  Run = {r1}
  MaxBindings = 1
  MaxRevision = 3
  None = None
  Nothing = Nothing
PROPERTIES
  LostMapCancels
  SilenceStopsMotion
