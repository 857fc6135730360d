\* Two workers, two entries, days of two hours, a budget of 3 bytes;
\* the sizes of 4 and 5 bytes are shown as 3 and 6.
CONSTANTS
  e1 = e1
  e2 = e2
  w1 = w1
  w2 = w2
  None = None
  Text <- MCText
  Trim <- MCTrim
  Blank = ""
  Backends = {"Docker"}
  ProtectedImages = {}
  ProtectedVolumes = {}
  ProtectedLabels = {}
  MinUnusedAgeDays = 1
  RequestBackend = "Docker"
  MaxDeletePerRunGb = 1
  BytesPerGib = 3
  MaxU64 = 15
  DryRun = FALSE
  Entries = {e1, e2}
  SizeOf <- MCSizeOf
  Units = {1, 3}
  Digits = 3
  Scopes = {"prunable", "cache"}
  Showings <- MCShowings
  Workers = {w1, w2}
  HoursPerDay = 2
  StartDates <- MCStartDates
  Horizon = 5
SPECIFICATION Spec
SYMMETRY SymmetricWorkers
INVARIANTS
  TypeOK
  CalendarExact
  PruneBounded
  MeasureAgrees
PROPERTY YoungCacheKept
\* Every worker has ended and the horizon is reached.
CHECK_DEADLOCK FALSE
