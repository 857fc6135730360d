\* Two processes and two backends; growth 2 saturates u32 at 3 in the third retry.
CONSTANTS
  Procs = {p1, p2}
  None = None
  BackendCount = 2
  MaxAttempts = 4
  InitialBackoff = 1
  BackoffMultiplier = 2
  MaxBackoff = 5
  MaxU32 = 3
  MaxDuration = 6
  Reasons = {"ExecutionFailuresDetected", "CandidateDiscoveryFailed",
             "BelowHighWatermark", "NoActionableCandidates"}
SPECIFICATION Spec
INVARIANTS
  TypeOK
  MutualExclusion
  EveryBackendTried
  NoOpDeletesRetried
PROPERTIES
  BackoffGrows
  ImplementsLock
  RunEnds
