CONSTANTS
  remote = remote
  bulb = bulb
  za = za
  zb = zb
  Radios = {remote}
  Battery = {remote}
  Entries = {za, zb}
  EntryNode <- AtRemote
  EntryGroup <- OneGroup
  EntryClass <- BothClasses
  EntryTarget <- OneBulb
  Lifelines = {}
  Offered = {za, zb}
  CheckAnswers = {0, 1, 5}
  Room = 2
  Callers = {runner}
  Services = {}
  Nobody = Nobody
  MaxCalls = 2
  MaxHands = 2
SPECIFICATION ZWaveSpec
CHECK_DEADLOCK FALSE
INVARIANTS
  VerifiedShowsTruth
