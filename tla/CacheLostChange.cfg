CONSTANTS
  d1 = d1
  d2 = d2
  Unset = Unset
  Devices = {d1}
  Order <- MCOrder
  Networks = {{d1}}
  Tasks = {t1}
  Holders = {h1}
  Window = 2
  Debounce = 2
  MaxDisturbances = 3
  MaxFailures = 0
SPECIFICATION CacheFairSpec
CHECK_DEADLOCK FALSE
PROPERTIES
  ChangesReflected
