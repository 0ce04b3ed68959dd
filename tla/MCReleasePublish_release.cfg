SPECIFICATION Spec
CONSTANTS
  None = None
  d1 = d1
  d2 = d2
  r1 = r1
  r2 = r2
  Digests = {d1, d2}
  Registries = {r1, r2}
  MaxVersion = 2
  MaxCommits = 4
  MaxPulls = 3
  MaxCrashes = 1
SYMMETRY Interchangeable
CHECK_DEADLOCK FALSE
INVARIANTS
  TypeOK
  TagExact
  VersionsIncrease
  PublishedAgrees
PROPERTIES
  LatestRises
  ImplementsChannel
