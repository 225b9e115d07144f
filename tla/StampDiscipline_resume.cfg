SPECIFICATION StampSpec
CONSTANTS
  Core = {sport, imu}
  Noncore = {cloud}
  Stale = 1
  Window = 2
  RequiredSamples = 2
PROPERTY ResumesOnRequiredSamples
CHECK_DEADLOCK FALSE
