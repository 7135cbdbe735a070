SPECIFICATION Spec
CONSTANTS
  EncJob = {"e1", "e2"}
  DumpJob = {"d1", "d2"}
  Glob <- OwnGlob
  Excluded = {"d2"}
  MaxAge = 0
  MaxDay = 2
  Serial = TRUE
  NightFaults = {"mount", "busy", "foreign", "services", "dump", "kill"}
  s1 = s1  s2 = s2  s3 = s3  NoPlace = NoPlace
  Name = {"a", "b"}
  Storage = {s1, s2, s3}
  Histories <- MCHistories
  Rules <- OrRules
  NameRule <- JobA
  StorageRule <- OnS2
  AgeRule <- Ages
  Unconfigured = {s1}
  Query = {"b"}
  ScatterJob = "a"
  Movable = {s2}
  ToolFaults = {"crash"}
  Texts <- MCTexts
  Client = {c1}
  Runner = {r1}
  DryRuns = {FALSE, TRUE}
  MaxPassword = 5
  AddFaults = {"crash", "download"}
  v1 = v1  v2 = v2  NoVolume = NoVolume  c1 = c1  r1 = r1
  Volume = {v1, v2}
  Script = {"failed", "missing", "orphans", "purged"}
  Quiet = TRUE
  VERBOSE = TRUE
  Simulated = FALSE
  CleanupFaults = {"rm", "crash", "umount"}
  Scenes = {"tools"}
INVARIANT OnlySelectedDeleted
CHECK_DEADLOCK FALSE
