SPECIFICATION DocumentsSpec
CONSTANTS
  r1 = r1
  w1 = w1
  s1 = s1
  s2 = s2
  p1 = p1
  p2 = p2
  e1 = e1
  k1 = k1
  Refreshers = {r1}
  Writers = {w1}
  Readers = {}
  MayCrash = {w1}
  Sleepers = {}
  Snapshots = {s1, s2}
  Parts = {p1, p2}
  Externals = {e1}
  Keys = {k1}
  Targets = {p1}
  Retention = 1
  Origins = {"fresh"}
  None = None
  Corrupt = Corrupt
INVARIANTS
  DocumentsTrue
PROPERTIES
  YamlFollowsDatabase
