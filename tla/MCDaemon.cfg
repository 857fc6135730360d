\* Starts of the daemon, and the ticks of a dry run of Podman.
CONSTANTS
  s1 = s1
  s2 = s2
  d1 = d1
  d2 = d2
  None = None
  Text <- MCText
  Trim <- MCTrim
  Lower <- MCLower
  Blank = ""
  Backends = {"Docker", "Podman"}
  ProtectedImages = {}
  ProtectedVolumes = {}
  ProtectedLabels = {}
  MinUnusedAgeDays = 30
  RequestBackend = "Podman"
  MaxDeletePerRunGb = 10
  BytesPerGib = 1
  MaxU64 = 10000
  MaxU8 = 255
  DryRun = TRUE
  HighWatermark = 85
  TargetWatermark = 70
  MaxCycleIterations = 3
  Readings <- MCReadings
  CandidateLists <- MCCandidateLists
  TickLimit = None
  Endpoints = {s1, s2, d1, d2}
  DesktopEndpoints = {d1, d2}
  SocketPaths = {1, 2, 3, 4}
  Boots <- MCBoots
  Edits <- MCEdits
SPECIFICATION DaemonSpec
INVARIANTS
  SettingsTakeEffect
  AssumptionsMet
  EndpointJustified
  DryRunDeletesNothing
