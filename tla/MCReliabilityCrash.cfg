\* One process and one backend, checking that a crash is recovered from.
CONSTANTS
  Procs = {p1}
  None = None
  BackendCount = 1
  MaxAttempts = 2
  InitialBackoff = 1
  BackoffMultiplier = 2
  MaxBackoff = 5
  MaxU32 = 3
  MaxDuration = 6
  Reasons = {"ExecutionFailuresDetected", "NoActionableCandidates"}
SPECIFICATION Spec
PROPERTY CrashSafe
