SPECIFICATION Spec
CONSTANTS
  s1 = s1  s2 = s2  r1 = r1  r2 = r2
  MaxVol = 2
  Stream <- OneStream
  ChainOf <- OwnChain
  Granularity = 1
  Faults = {"bls"}
  Runner <- OneRunner
  DryRuns = {TRUE}
  Remote = {}
  Offsite = {}
  PoolHint <- GoodHints
  DelNoMeta = TRUE
PROPERTY DryRunHarmless
