SPECIFICATION Spec
CONSTANTS
  s1 = s1  s2 = s2  r1 = r1  r2 = r2
  MaxVol = 3
  Stream <- OneStream
  ChainOf <- OwnChain
  Granularity = 1
  Faults = {"race"}
  Runner <- OneRunner
  DryRuns = {FALSE}
  Remote = {}
  Offsite = {}
  PoolHint <- GoodHints
  DelNoMeta = FALSE
INVARIANT NewestFullKept
