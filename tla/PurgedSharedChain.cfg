SPECIFICATION Spec
CONSTANTS
  s1 = s1  s2 = s2  r1 = r1  r2 = r2
  MaxVol = 5
  Stream <- TwoStreams
  ChainOf <- SharedChain
  Granularity = 1
  Faults = {}
  Runner <- OneRunner
  DryRuns = {FALSE}
  Remote = {}
  Offsite = {}
  PoolHint <- GoodHints
  DelNoMeta = FALSE
INVARIANT NoBrokenChain
