SPECIFICATION Spec
CONSTANTS
  r1 = r1
  c1 = c1
  s1 = s1
  s2 = s2
  Refreshers = {r1}
  Writers = {}
  Readers = {c1}
  MayCrash = {}
  Sleepers = {}
  Snapshots = {s1, s2}
  Parts = {}
  Externals = {}
  Keys = {}
  Targets = {}
  Retention = 1
  Origins = {"fresh"}
  None = None
  Corrupt = Corrupt
CHECK_DEADLOCK FALSE
INVARIANTS
  OpensProtected
