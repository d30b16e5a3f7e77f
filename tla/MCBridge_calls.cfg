SPECIFICATION Spec
CONSTANTS
  boss = boss
  worker = worker
  c1 = c1
  c2 = c2
  p1 = p1
  p2 = p2
  r0 = r0
  r1 = r1
  r2 = r2
  f1 = f1
  f2 = f2
  k1 = k1
  repo = repo
  none = none
  bad = bad
  t1 = t1
  t2 = t2
  Roots = {r0, r1, r2}
  DefaultRoot = r0
  Folders = {f1, f2}
  RepoRoot = repo
  Profiles = {boss, worker}
  Nothing = none
  NotAPath = bad
  MaxLimit = 2
  ScanFactor = 2
  ScanLimit = 1
  ScanCap = 4
  Chats = {c1, c2}
  ProfileOf <- MCProfileOf
  ParentOf <- MCParentOf
  Projects = {p1, p2}
  Rings = {"cambium", "heartwood"}
  Scopes = {"agent", "shared"}
  Keys = {k1}
  Requests <- MCRequests
  Callers = {t1, t2}
  Worlds <- MCWorlds
  Edits <- MCEdits
  Given <- MCGiven
  Started <- MCStarted
  Layouts <- MCLayouts
  Seeded <- MCSeeded
  HostToken = TRUE
  MaxCalls = 2
  MaxChanges = 1
SYMMETRY BridgeSymmetry
CHECK_DEADLOCK FALSE
INVARIANTS
  TypeOK
  WriterIsCaller
  OneProjectPerWrite
  OncePerOperation
  CapabilityIsLeast
  CoordinatorNotDenied
  SourceSelected
PROPERTIES
  StoresKept
  RecallComplete
