\* Two runners and an editor in two launchers, the first of which may die outside
\* the lock; and a runner whose launcher may die anywhere.
SPECIFICATION StoreSpec
CONSTANTS
  e1 = e1  e2 = e2  r1 = r1  r2 = r2  poll = poll
  first = first  second = second
  Editor = {e2}
  Runner = {r1, r2}
  Poller = {}
  Instance = {first, second}
  InstanceOf <- MCInstanceOf
  Crashable = {first}
  MayCrashInLock = FALSE
  MayStall = FALSE
  NoLock = NoLock  NoOwner = NoOwner  MigratedOwner = MigratedOwner
  Deaths = {"unlocked", "anywhere"}
INVARIANTS OneOwner RevisionIdentifiesState
PROPERTIES JobSpec NoLostUpdate LiveOwnerKeepsStage CrashIsOvercome
CHECK_DEADLOCK FALSE
