SPECIFICATION FairSpec
CONSTANTS
  a = a
  b = b
  c = c
  full = full
  daily = daily
  None = None
  Host = {a, b, c}
  HostList <- TwoListed
  Jobs <- JobsOfA
  MonitorJobs <- MonitorDaily
  DOWNTIME = 1
  DELAY_NOTIFY = 1
  LAST_BACKUP_MAX_DAYS = 1
  Faults = {"restart", "nojob"}
INVARIANTS TypeOK NoFalseAlarm DownReportedAlive
PROPERTIES MailsSpaced OldBackupReported
