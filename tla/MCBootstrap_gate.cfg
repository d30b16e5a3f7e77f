\* One thread is enough for the counterexample.
SPECIFICATION HooksSpec
CONSTANTS
  Threads = {t1}
  NoThread = NoThread
  Configs <- ProjectConfigs
  LegacyRoots = {}
  MaxChanges = 1
PROPERTY
  NeverAutoOpened
