\* As MCScheduler, checking the cap against a whole tick.
CONSTANTS
  None = None
  Text <- MCText
  Trim <- MCTrim
  Blank = ""
  Backends = {"Docker"}
  ProtectedImages = {}
  ProtectedVolumes = {}
  ProtectedLabels = {}
  MinUnusedAgeDays = 7
  RequestBackend = "Docker"
  MaxDeletePerRunGb = 2
  BytesPerGib = 2
  MaxU64 = 700
  DryRun = FALSE
  HighWatermark = 3
  TargetWatermark = 1
  MaxCycleIterations = 3
  Readings <- MCReadings
  CandidateLists <- MCCandidateLists
  TickLimit = None
SPECIFICATION Spec
INVARIANT CapPerTick
