SPECIFICATION HistorySpec
CONSTANTS
  r1 = r1
  s1 = s1
  s2 = s2
  Refreshers = {r1}
  Writers = {}
  Readers = {}
  MayCrash = {r1}
  Sleepers = {}
  Snapshots = {s1, s2}
  Parts = {}
  Externals = {}
  Keys = {}
  Targets = {}
  Retention = 1
  Origins = {"fresh"}
  None = None
  Corrupt = Corrupt
CHECK_DEADLOCK FALSE
PROPERTIES
  OrphansRemoved
