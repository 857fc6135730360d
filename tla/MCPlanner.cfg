\* Cap: 3 GiB of 2 bytes saturate at MaxU64 = 5.
CONSTANTS
  None = None
  Text <- MCText
  Trim <- MCTrim
  Blank = ""
  Backends = {"Docker", "Podman"}
  ProtectedImages = {" keep ", ""}
  ProtectedVolumes = {"keep"}
  ProtectedLabels = {"keep", " "}
  MinUnusedAgeDays = 7
  RequestBackend = "Docker"
  MaxDeletePerRunGb = 3
  BytesPerGib = 2
  MaxU64 = 5
  DryRun = FALSE
  MaxCandidates = 3
  CandidateLists <- MCCandidateLists
SPECIFICATION Spec
INVARIANTS
  TypeOK
  BudgetAccounted
  UnknownClosesBudget
  NoNeedlessSkip
  OnlySafePlanned
\* The pass ends after the last candidate.
CHECK_DEADLOCK FALSE
