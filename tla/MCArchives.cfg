SPECIFICATION ArchivesSpec
CONSTANTS
  r1 = r1
  r2 = r2
  s1 = s1
  s2 = s2
  s3 = s3
  d1 = d1
  d2 = d2
  Refreshers = {r1, r2}
  Writers = {}
  Readers = {}
  MayCrash = {r1, r2}
  Sleepers = {}
  Snapshots = {s1, s2, s3}
  Datasets = {d1, d2}
  Newest = 2
  Parts = {}
  Externals = {}
  Keys = {}
  Targets = {}
  Retention = 1
  Origins = {"fresh"}
  None = None
  Corrupt = Corrupt
SYMMETRY Symmetric
CHECK_DEADLOCK FALSE
INVARIANTS
  AsNewAsServed
  UnchangedIsTrue
  RepeatedAfresh
PROPERTIES
  NeverBackwards
