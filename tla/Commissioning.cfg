SPECIFICATION AllSpec
CONSTANTS
  AllowMotion = TRUE
  RepeatableArm = FALSE
  PreserveClassicWalk = FALSE
  Watchdog = 2
  MaxMotion = 3
  MaxLifetime = 1
  MaxSequence = 4
  Packets <- MCPackets
  Core = {sport, imu}
  Noncore = {cloud}
  Stale = 1
  Window = 2
  RequiredSamples = 2
  StabilitySamples = 2
  PostStopSamples = 1
  RollbackAttempts = 2
  StableObservations = 2
  SampleLimit = 3
  AuditAttempts = 3
  AuditSteady = 4
  AuditSamples = 12
  WindowLength = 3
  AfterDisable = 1
  SampleGap = 1
  Transcripts = 1
  QueueSize = 2
  MaxEvents = 3
  MaxUploads = 1
INVARIANTS
  MotionPassIsEarned
  RestorationIsTrue
  AuditLeavesNothing
  AcceptanceIsTrue
  VoiceEndIsTrue
PROPERTIES
  MotionEnds
  ResumesOnEveryStream
VIEW CommissioningView
CHECK_DEADLOCK FALSE
