CONSTANTS
  server = server
  switch1 = switch1
  lamp = lamp
  e1 = e1
  e2 = e2
  t1 = t1
  m1 = m1
  m2 = m2
  Whole = Whole
  Controller = server
  Switches = {switch1}
  Lamps = {lamp}
  Endpoints = {e1, e2}
  EndpointNode <- OneSwitch
  Targets = {t1}
  TargetNode <- OneLamp
  MLinks = {m1, m2}
  MSource <- BothControls
  MTarget <- TheLamp
  Refused = {}
  Incapable = {}
  AclSetups <- AdministeredOnly
  BindingTableCapacity = 2
  EntriesPerFabric = 2
  SubjectsPerEntry = 2
  MaxMishaps = 3
SPECIFICATION MatterSpec
CHECK_DEADLOCK FALSE
PROPERTIES
  OtherControlsKeepGrant
