SPECIFICATION Spec
CONSTANTS
  s1 = s1  s2 = s2  r1 = r1  r2 = r2
  MaxVol = 4
  Stream <- TwoStreams
  ChainOf <- OwnChain
  Granularity = 1
  Faults = {"host", "bls", "rm", "bconsole", "crash"}
  Runner <- OneRunner
  DryRuns = {FALSE, TRUE}
  Remote = {s1, s2}
  Offsite = {s2}
  PoolHint <- GoodHints
  DelNoMeta = TRUE
PROPERTY ImplementsRetention
