SPECIFICATION Spec
CONSTANTS
  r1 = r1
  w1 = w1
  s1 = s1
  s2 = s2
  k1 = k1
  t1 = t1
  t2 = t2
  Refreshers = {r1}
  Writers = {w1}
  Readers = {}
  MayCrash = {}
  Sleepers = {}
  Snapshots = {s1, s2}
  Parts = {}
  Externals = {}
  Keys = {k1}
  Targets = {t1, t2}
  Retention = 1
  Origins = {"fresh"}
  None = None
  Corrupt = Corrupt
CHECK_DEADLOCK FALSE
PROPERTIES
  OverridesMaterialized
