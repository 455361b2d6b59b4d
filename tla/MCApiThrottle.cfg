SPECIFICATION Spec
CONSTANTS
  c1 = c1
  c2 = c2
  u1 = u1
  Callers = {c1, c2}
  MaxRetries = 1
  Interval = 1
  MaxRetryAfter = 2
  Delays = {0, 2, 3}
  Backoffs = {1}
  Urls = {u1}
  Items = 2
  None = None
PROPERTIES
  ThrottleHonoured
