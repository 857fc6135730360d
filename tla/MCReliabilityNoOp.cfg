\* One process and one backend of two attempts, with every stop reason.
CONSTANTS
  Procs = {p1}
  None = None
  BackendCount = 1
  MaxAttempts = 2
  InitialBackoff = 1
  BackoffMultiplier = 2
  MaxBackoff = 5
  MaxU32 = 3
  MaxDuration = 6
  Reasons = {"ExecutionFailuresDetected", "HealthCheckFailed",
             "UsageCollectionFailed", "CandidateDiscoveryFailed",
             "BackendUnhealthy", "UsagePercentUnknown", "BelowHighWatermark",
             "TargetWatermarkReached", "NoActionableCandidates",
             "DeletionCapReached", "IterationLimitReached"}
SPECIFICATION Spec
INVARIANT NoOpDeletesNothing
