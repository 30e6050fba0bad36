SPECIFICATION Spec
CONSTANTS
  Engine = {g1}
  Units = 1
  Length = 2
  Setting = {plain, reflecting}
  Reflects = {reflecting}
  Concurrency = 2
  RunBound = 3
  Faults = {"error"}
  MayDie = TRUE
  MayEdit = FALSE
  None = None
INVARIANTS RevisionOfItsDraft
CHECK_DEADLOCK FALSE
