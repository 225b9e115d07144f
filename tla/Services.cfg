SPECIFICATION AllSpec
CONSTANTS
  Run = {r1, r2}
  MaxBindings = 1
  MaxRevision = 2
  None = None
  Landmark = {door, vending}
  Ticket = {t1, t2}
  NoTicket = NoTicket
  StaleAfter = 1
  MaxDrift = 2
  MaxFrames = 3
  MaxStarts = 2
  NoFrame = NoFrame
  Chart = {lab}
  MaxGeneration = 2
  Seed = {seed1, seed2}
  RestoreQueue = 1
  NoSeed = NoSeed
  Decimation = 2
  MaxCaptured = 5
  PipeDepth = 2
  MaxFaults = 2
  Streams = {"localization"}
  Window = 1
  ReceiptFresh = 1
  SourceFresh = 1
  ReceiptLife = 1
  MaxChanges = 1
INVARIANTS
  OverlapNeedsEmptyState
  RunsAreSeenThrough
  PictureIsOfItsMetadata
  SeedsAreRecoverable
  FramesAreWhole
PROPERTIES
  LatchOpensOnEvidence
  ReadinessIsRecent
SYMMETRY Symmetry
CONSTRAINT Explored
VIEW ServicesView
CHECK_DEADLOCK FALSE
