CONSTANTS
  d1 = d1
  d2 = d2
  a = a
  b = b
  c = c
  e = e
  s = s
  t = t
  u = u
  r1 = r1
  r2 = r2
  g1 = g1
  g2 = g2
  g3 = g3
  NoRule = NoRule
  Stored = Stored
  NoLink = NoLink
  NoReport = NoReport
  NoSnapshot = NoSnapshot
  Devices = {d2}
  Rules = {r1, r2}
  Groups = {g2, g3}
  SourceOf <- MCSource
  GroupOf <- MCGroup
  Capacity <- MCCapacity
  Rank <- MCRank
  RuleOf <- MCRule
  DevicesOf <- MCDevicesOf
  EndpointOf <- MCEndpoint
  SlotDevices = {d2}
  SystemLinks = {s}
  Links = {c, e, s, t}
  MaxConcurrent = 1
  Retries = 0
  Scopes <- MCScopesAll
  Selections <- NoSelection
  InitialTables = {{e, s}}
  MaxJobs = 2
  MaxDisturbances = 0
SPECIFICATION Spec
CHECK_DEADLOCK FALSE
INVARIANTS
  SystemSlotsUntouched
PROPERTIES
  KeepsContract
  RollbackRestores
