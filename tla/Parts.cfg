CONSTANTS
  d1 = d1
  linkA = linkA
  linkB = linkB
  linkU = linkU
  linkS = linkS
  g1 = g1
  g2 = g2
  Devices = {d1}
  Links = {linkA, linkB, linkU, linkS}
  Groups = {g1, g2}
  SourceOf <- WalkSourceOf
  GroupOf <- WalkGroupOf
  Capacity <- WalkCapacity
  Rank <- WalkRank
  SystemLinks = {linkS}
  OnOff = OnOff
  LevelHold = LevelHold
  Status = Status
  NoEndpoint = NoEndpoint
  Leave = Leave
  CompiledRules <- EveryRule
  CompileHouse <- CompiledHouse
  Relays = {1, 2, 3, 4}
  LoopInputs <- LoopQuestions
  NotShown = NotShown
  SwapHouse <- SwappedHouse
  BackendOf <- SwappedBackend
  ModelOf <- SwappedModel
  FirstProfiles <- SwappedProfiles
  ChosenMaps <- MapChoices
  MaxSwapSteps = 3
  keypad = keypad
  lamp1 = lamp1
  lamp2 = lamp2
  coordinator = coordinator
  shared = shared
  owned = owned
  keyUp = keyUp
  lampKey = lampKey
  z1 = z1
  z2 = z2
  z3 = z3
  None = None
  Nodes = {keypad, lamp1, lamp2}
  Coordinator = coordinator
  Managed = {shared}
  Foreign = {owned}
  Controls = {keyUp, lampKey}
  ControlNode <- ZigbeeControlNode
  ZLinks = {z1, z2, z3}
  LinkControl <- ZigbeeControl
  LinkTarget <- ZigbeeTarget
  LinkGroup <- ZigbeeGroup
  Unserved = {}
  Asleep = {lamp1}
  UserSetups <- ZigbeeSetups
  MaxTrouble = 3
  server = server
  switch1 = switch1
  switch2 = switch2
  lamp = lamp
  e1 = e1
  e2 = e2
  e3 = e3
  t1 = t1
  t2 = t2
  m1 = m1
  m2 = m2
  m3 = m3
  m4 = m4
  Whole = Whole
  Controller = server
  Switches = {switch1, switch2}
  Lamps = {lamp}
  Endpoints = {e1, e2, e3}
  EndpointNode <- MatterEndpointNode
  Targets = {t1, t2}
  TargetNode <- MatterTargetNode
  MLinks = {m1, m2, m3, m4}
  MSource <- MatterSource
  MTarget <- MatterTarget
  Refused = {}
  Incapable = {}
  AclSetups <- MatterSetups
  BindingTableCapacity = 2
  EntriesPerFabric = 2
  SubjectsPerEntry = 2
  MaxMishaps = 4
  Buttons = {b1}
  NoValue = NoValue
  MaxEvents = 5
  Profiles = {p1, p2}
  p1 = p1
  p2 = p2
  lit = lit
  unlit = unlit
  Texts = {lit, unlit}
  Backups <- StoredAtFirst
  NoProfile = NoProfile
  Nothing = Nothing
  TooNew = TooNew
  MaxStarts = 2
  MaxEdits = 2
  remote = remote
  bulb = bulb
  za = za
  zb = zb
  service = service
  runner = runner
  Radios = {remote}
  Battery = {remote}
  Entries = {za, zb}
  EntryNode <- ZWaveNode
  EntryGroup <- ZWaveGroup
  EntryClass <- ZWaveClass
  EntryTarget <- ZWaveTarget
  Lifelines = {}
  Offered = {za, zb}
  CheckAnswers = {0, 1, 5}
  Room = 1
  Callers = {runner, service}
  Services = {service}
  Nobody = Nobody
  MaxCalls = 2
  MaxHands = 2
  rule1 = rule1
  sleeper = sleeper
  Sleepers = {sleeper}
  Wishes = {rule1}
  WishDevice <- AtSleeper
  HistoryLength = 2
  Overdue = 1
  Never = Never
  MaxHours = 2
  MaxHistory = 3
  MaxTurns = 3
SPECIFICATION PartsSpec
CHECK_DEADLOCK FALSE
INVARIANTS
  PartsTypeOK
  NeverOverfull
  Converged
  OthersUntouched
  NothingDroppedInSilence
  LoopsExact
  PromisesKept
  AnswersAreTheirOwn
  KeptLinksAllowed
  ButtonFollows
  ButtonPutBack
  EditsKept
  MirrorKnows
  AnswersHold
  NothingUnsaid
PROPERTIES
  NoLossUnsaid
  OldLetGo
  VerifiedShowsWrite
  BindingFollowsGrant
