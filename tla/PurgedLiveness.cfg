SPECIFICATION FairSpec
CONSTANTS
  s1 = s1  s2 = s2  r1 = r1  r2 = r2
  MaxVol = 4
  Stream <- OneStream
  ChainOf <- OwnChain
  Granularity = 1
  Faults = {"crash", "bls", "bconsole"}
  Runner <- OneRunner
  DryRuns = {FALSE}
  Remote = {}
  Offsite = {}
  PoolHint <- GoodHints
  DelNoMeta = TRUE
INVARIANTS UnpurgedUntouched CatalogKnowsFiles
PROPERTY MissingForgotten SpaceReclaimed
