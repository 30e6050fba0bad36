\* A launcher dies holding the lock file; two commands then find it stale.
SPECIFICATION Spec
CONSTANTS
  e1 = e1  e2 = e2  r1 = r1  r2 = r2  poll = poll
  first = first  second = second
  Editor = {e1, e2}
  Runner = {r2}
  Poller = {}
  Instance = {first, second}
  InstanceOf <- MCInstanceOf
  Crashable = {first}
  MayCrashInLock = TRUE
  MayStall = FALSE
  NoLock = NoLock  NoOwner = NoOwner  MigratedOwner = MigratedOwner

PROPERTY NoLostUpdate
CHECK_DEADLOCK FALSE
