SPECIFICATION HistorySpec
CONSTANTS
  r1 = r1
  r2 = r2
  s1 = s1
  s2 = s2
  s3 = s3
  s4 = s4
  Refreshers = {r1, r2}
  Writers = {}
  Readers = {}
  MayCrash = {r1, r2}
  Sleepers = {}
  Snapshots = {s1, s2, s3, s4}
  Parts = {}
  Externals = {}
  Keys = {}
  Targets = {}
  Retention = 2
  Origins = {"fresh", "legacy", "outdated", "managed", "corrupt"}
  None = None
  Corrupt = Corrupt
SYMMETRY Symmetric
CHECK_DEADLOCK FALSE
INVARIANTS
  RecentRetained
  HistoryIsTrue
PROPERTIES
  PruningCleans
