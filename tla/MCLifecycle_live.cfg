SPECIFICATION LiveSpec
CONSTANTS
  t1 = t1
  t2 = t2
  t3 = t3
  i1 = i1
  i2 = i2
  i3 = i3
  i4 = i4
  s1 = s1
  s2 = s2
  chat = chat
  worker = worker
  NoId = NoId
  NoTurn = NoTurn
  NoStore = NoStore
  Turns = {t1, t2, t3}
  Identity <- ChatAndSubordinate
  Ids = {i1, i2, i3}
  Stores = {s1, s2}
  Bindings <- TwoStores
  Candidates = {1}
  MaxConcurrentPreflights = 1
  Killable = {t1}
  NoExtras = {t2}
  MidTurnSwitch = FALSE
  MaxBuilds = 1
  MaxSwitches = 1
  Names <- MCNames
CHECK_DEADLOCK FALSE
ACTION_CONSTRAINT
  InOrder
INVARIANT
  CheckpointBoundToProject
PROPERTIES
  InjectReturns
  CheckpointRetires
