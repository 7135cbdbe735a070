SPECIFICATION Spec
CONSTANTS
  s1 = s1  s2 = s2  r1 = r1  r2 = r2
  MaxVol = 5
  Stream <- OneStream
  ChainOf <- OwnChain
  Granularity = 1
  Faults = {"crash"}
  Runner <- TwoRunners
  DryRuns = {FALSE}
  Remote = {}
  Offsite = {}
  PoolHint <- GoodHints
  DelNoMeta = FALSE
INVARIANTS TypeOK NoBrokenChain NewestFullKept ThreeFullsKept TwoDiffsKept IncsDeletedTogether
CONSTRAINT OverlapOnFulls
SYMMETRY RunnerSymmetry
