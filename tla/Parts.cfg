SPECIFICATION Spec
CONSTANTS
  Zero = "zero"
  Marker = {"zero", "walk", "stand", "odd"}
  Reviewed = {"walk", "stand"}
  Pose = {"here", "there"}
  Profiles <- MCProfiles
  StampAge = 1
  ReceiptTimeout = 1
  StableTime = 2
  StableSamples = 4
  Request = {"first", "second"}
  Plans <- MCPlans
  Person = {"ann", "bob"}
  Nobody = "nobody"
  Depth = {2, 4, 6}
  Confirmation = 3
  Memory = 3
  TrackedFrames = 3
  JumpConfirmation = 3
  Runtime = {"r1", "r2", "r3"}
  NoRuntime = "none"
  FrameAge = 1
  Connections = 2
  Records = 3
  Writer = {"w1", "w2"}
  Exact = {"w1", "w2"}
  NoWriter = "nobody"
  HeartbeatAge = 1
  GraphAge = 1
  DiscoveryTime = 1
  InitialTime = 2
  StablePolls = 2
  StableMessages = 2
  ReadySamples = 1
  Run = {r1}
  MaxBindings = 2
  MaxRevision = 3
  None = None
INVARIANTS
  RunsAreOnTheirMap
  RuntimeIsOwned
PROPERTIES
  RecoveryNeedsStableMarker
  OutputIsWitnessed
  CleanEndIsSafe
  DistanceIsEarned
  PublicationIsCurrent
  RelayedIsAttested
VIEW PartsView
CHECK_DEADLOCK FALSE
