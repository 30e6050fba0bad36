\* A book with a provider, two advances and a sibling, or one with an agent.
SPECIFICATION PipelineSpec
CONSTANTS
  NoOwner = NoOwner
  AgentOwner = AgentOwner
  Modes = {"fast", "expert"}
  Command = {a1, a2}
  Config = {c1, c2}
  Pack = {k1, k2}
  Policy = policy2
  OldPolicy = policy1
  DigestMode = FALSE
  AutoApprove = FALSE
  HasSibling = TRUE
  Failing = {"translate", "expert_qa", "promote"}
  MayAbort = TRUE
  Editable = {"source", "maps", "text"}
  MaxAttempts = 2
  AttemptBound = 2
  EditBound = 1
  r1 = r1
  r2 = r2
  Runner = {r1}
  Children = 2
  Tokens = {"auto", "keep", "mineru"}
  Queued = {"auto"}
  Missing = {"mineru"}
  Live = {"held", "reused"}
  Edits = {"override", "text"}
  FailureBound = 0
  ChangeBound = 2
  Halves = {"advance", "collection", "commands"}
INVARIANTS
  Approved
  StagesAreOwned
  ApprovalStandsWhileTranslating
  
  CollectionInOrder
PROPERTIES
  FinishedStands
  AgentWorkStands
CHECK_DEADLOCK FALSE
