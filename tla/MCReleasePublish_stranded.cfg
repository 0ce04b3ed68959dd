SPECIFICATION FairSpec
CONSTANTS
  None = None
  d1 = d1
  d2 = d2
  r1 = r1
  r2 = r2
  Digests = {d1}
  Registries = {r1}
  MaxVersion = 1
  MaxCommits = 3
  MaxPulls = 1
  MaxCrashes = 0
CHECK_DEADLOCK FALSE
PROPERTY
  MergedPrepared
