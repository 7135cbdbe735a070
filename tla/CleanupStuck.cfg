SPECIFICATION CleanupFairSpec
CONSTANTS
  v1 = v1
  v2 = v2
  NoVolume = NoVolume
  Volume = {v1, v2}
  Script = {"failed", "missing", "purged"}
  Quiet = TRUE
  VERBOSE = TRUE
  Simulated = FALSE
  CleanupFaults = {"crash"}
PROPERTY FailedReclaimed
CHECK_DEADLOCK FALSE
