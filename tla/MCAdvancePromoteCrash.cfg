SPECIFICATION Spec
CONSTANTS
  NoOwner = NoOwner
  AgentOwner = AgentOwner
  Command = {a1}
  Config = {c1}
  Pack = {k1}
  Policy = policy2
  OldPolicy = policy1
  Modes = {"fast"}
  DigestMode = FALSE
  AutoApprove = FALSE
  HasSibling = FALSE
  Failing = {}
  MayAbort = TRUE
  Editable = {}
  MaxAttempts = 2
  AttemptBound = 3
  EditBound = 0
INVARIANTS
  DriftRollbackIsSaved
CHECK_DEADLOCK FALSE
