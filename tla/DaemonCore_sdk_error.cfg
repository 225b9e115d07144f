SPECIFICATION Spec
CONSTANTS
  AllowMotion = TRUE
  RepeatableArm = TRUE
  PreserveClassicWalk = TRUE
  Watchdog = 2
  MaxMotion = 0
  MaxLifetime = 1
  MaxSequence = 4
  Packets <- MCPackets
INVARIANTS
  SdkErrorStopsMotion
