SPECIFICATION Spec
CONSTANTS
  r1 = r1
  r2 = r2
  r3 = r3
  r4 = r4
  Requests = {r1, r2, r3, r4}
  NoRequest = NoRequest
  NoContent = NoContent
  NoMarker = NoMarker
  Empty = Empty
  Garbage = Garbage
  Offline = TRUE
  MaxClock = 1
  MaxGen = 1
  MaxCrashes = 1
  MaxRestores = 1
SYMMETRY RequestSymmetry
CHECK_DEADLOCK FALSE
INVARIANTS
  TypeOK
  LockHeldOnlyToCopy
  BackupsAreOld
  RollbackPossible
  UpgradeInv
  CompletedMeansUpgraded
PROPERTIES
  ImplementsGate
