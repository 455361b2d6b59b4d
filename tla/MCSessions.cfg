SPECIFICATION SessionSpec
CONSTANTS
  r1 = r1
  c1 = c1
  s1 = s1
  s2 = s2
  t1 = t1
  t2 = t2
  Refreshers = {r1}
  Writers = {}
  Readers = {c1}
  MayCrash = {r1}
  Sleepers = {}
  Snapshots = {s1, s2}
  Parts = {}
  Externals = {}
  Keys = {}
  Targets = {}
  Retention = 1
  Origins = {"legacy"}
  None = None
  Corrupt = Corrupt
  Session = c1
  Callers = {t1}
  Closers = {t2}
INVARIANTS
  AnswersNamed
PROPERTIES
  CallsEnd
  LockReleased
  RefreshEnds
