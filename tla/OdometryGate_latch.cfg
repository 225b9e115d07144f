SPECIFICATION GateSpec
CONSTANTS
  Zero = "zero"
  Marker = {"zero", "walk", "stand", "odd"}
  Reviewed = {"walk", "stand"}
  Pose = {"here", "there"}
  Profiles <- MCProfiles
  StampAge = 1
  ReceiptTimeout = 1
  StableTime = 3
  StableSamples = 3
PROPERTY LivenessLossIsLatched
