SPECIFICATION Spec
CONSTANTS
  t1 = t1
  t2 = t2
  t3 = t3
  i1 = i1
  i2 = i2
  i3 = i3
  i4 = i4
  s1 = s1
  s2 = s2
  chat = chat
  worker = worker
  NoId = NoId
  NoTurn = NoTurn
  NoStore = NoStore
  Turns = {t1, t3}
  Identity <- ChatAndWorker
  Ids = {i1, i2}
  Stores = {s1, s2}
  Bindings <- TwoStores
  Candidates = {1}
  MaxConcurrentPreflights = 1
  Killable = {}
  NoExtras = {}
  MidTurnSwitch = TRUE
  MaxBuilds = 2
  MaxSwitches = 1
  Names <- MCNames
SYMMETRY IdSymmetry
CHECK_DEADLOCK FALSE
INVARIANTS
  CheckpointBoundToProject
