\* Two threads, a Python-v1 store beside the plugin's own, one change from outside.
SPECIFICATION HooksSpec
CONSTANTS
  Threads = {t1, t2}
  NoThread = NoThread
  Configs <- EveryWay
  LegacyRoots = {"own"}
  MaxChanges = 1
SYMMETRY ThreadSymmetry
INVARIANTS
  TypeOK
  BootstrapsOnce
  CallsKept
  MigrationMarked
PROPERTIES
  OnlySelectedStore
  GateHeldWhenLooked
