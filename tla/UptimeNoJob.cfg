SPECIFICATION Spec
CONSTANTS
  a = a
  b = b
  c = c
  full = full
  daily = daily
  None = None
  Host = {a, b, c}
  HostList <- TwoListed
  Jobs <- JobsOfA
  MonitorJobs <- MonitorDaily
  DOWNTIME = 2
  DELAY_NOTIFY = 2
  LAST_BACKUP_MAX_DAYS = 1
  Faults = {"nojob"}
INVARIANT DownReported
