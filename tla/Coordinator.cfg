CONSTANTS
  d1 = d1
  d2 = d2
  Unset = Unset
  Devices = {d1, d2}
  Order <- MCOrder
  Networks = {{d1}, {d1, d2}}
  Tasks = {t1, t2}
  Holders = {h1}
  Window = 0
  Debounce = 1
  MaxDisturbances = 3
  MaxFailures = 1
  r1 = r1
  r2 = r2
  None = None
  Other = Other
  Rules = {r1, r2}
  Timers = {t1, t2, t3}
  Interval = 2
  MaxRequests = 3
  MaxOthers = 1
SPECIFICATION CoordinatorSpec
CHECK_DEADLOCK FALSE
INVARIANTS
  WaitsForATimer
  ShowsLastRequest
  RateLimitedInTurn
PROPERTIES
  HeldStaysPending
  KeepsWhatIsThere
  EveryToldChangeIsRead
  LastRequestWins
