SPECIFICATION Spec
CONSTANTS
  r1 = r1
  r2 = r2
  w1 = w1
  c1 = c1
  s1 = s1
  s2 = s2
  s3 = s3
  p1 = p1
  e1 = e1
  Refreshers = {r1, r2}
  Writers = {w1}
  Readers = {c1}
  MayCrash = {r1, r2, w1, c1}
  Sleepers = {}
  Snapshots = {s1, s2, s3}
  Parts = {p1}
  Externals = {e1}
  Keys = {}
  Targets = {}
  Retention = 1
  Origins = {"fresh", "legacy", "outdated", "corrupt"}
  None = None
  Corrupt = Corrupt
SYMMETRY Symmetric
INVARIANTS
  TypeOK
  ActiveInstalled
  OpensActive
  WritesActive
  NoLostActivation
PROPERTIES
  ImplementsActiveCatalog
