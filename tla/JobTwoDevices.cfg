CONSTANTS
  d1 = d1
  d2 = d2
  a = a
  b = b
  c = c
  e = e
  s = s
  t = t
  u = u
  r1 = r1
  r2 = r2
  g1 = g1
  g2 = g2
  g3 = g3
  NoRule = NoRule
  Stored = Stored
  NoLink = NoLink
  NoReport = NoReport
  NoSnapshot = NoSnapshot
  Devices = {d1, d2}
  Rules = {r1, r2}
  Groups = {g1, g2}
  SourceOf <- MCSource
  GroupOf <- MCGroup
  Capacity <- MCCapacity
  Rank <- MCRank
  RuleOf <- MCRule
  DevicesOf <- MCDevicesOf
  EndpointOf <- MCEndpoint
  SlotDevices = {}
  SystemLinks = {}
  Links = {a, c}
  MaxConcurrent = 1
  Retries = 1
  Scopes <- MCScopes
  Selections <- NoSelection
  InitialTables = {{}, {a}}
  MaxJobs = 1
  MaxDisturbances = 0
SPECIFICATION FairSpec
CHECK_DEADLOCK FALSE
INVARIANTS
  StoppedMeansUntouched
  StopsAgree
  QuietAfterShutdown
  AnswersAreEarned
PROPERTIES
  JobEnds
  ShutdownEnds
