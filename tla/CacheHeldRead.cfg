CONSTANTS
  d1 = d1
  d2 = d2
  Unset = Unset
  Devices = {d1, d2}
  Order <- MCOrder
  Networks = {{d1}, {d1, d2}}
  Tasks = {t1, t2}
  Holders = {h1}
  Window = 1
  Debounce = 1
  MaxDisturbances = 3
  MaxFailures = 0
SPECIFICATION CacheSpec
CHECK_DEADLOCK FALSE
PROPERTIES
  HeldNotRead
