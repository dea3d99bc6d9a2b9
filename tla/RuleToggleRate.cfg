CONSTANTS
  r1 = r1
  r2 = r2
  None = None
  Other = Other
  Rules = {r1}
  Timers = {t1, t2, t3}
  Interval = 2
  MaxRequests = 5
  MaxOthers = 0
SPECIFICATION Spec
CHECK_DEADLOCK FALSE
INVARIANTS
  RateLimited
