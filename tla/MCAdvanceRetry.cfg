SPECIFICATION PipelineFairSpec
CONSTANTS
  NoOwner = NoOwner
  AgentOwner = AgentOwner
  Command = {a1}
  Config = {c1}
  Pack = {k1}
  Policy = policy2
  OldPolicy = policy1
  Modes = {"fast"}
  DigestMode = TRUE
  AutoApprove = TRUE
  HasSibling = FALSE
  Failing <- MCFailing
  MayAbort = FALSE
  Editable = {}
  MaxAttempts = 2
  AttemptBound = 3
  EditBound = 0
  r1 = r1
  r2 = r2
  Runner = {r1}
  Children = 2
  Tokens = {"auto", "direct", "mineru"}
  Queued = {"auto"}
  Missing = {"mineru"}
  Live = {"ocr", "held"}
  Edits = {"drop", "override", "pdf", "text"}
  FailureBound = 1
  ChangeBound = 2
  Halves = {"advance", "collection"}
INVARIANTS
  NoRefusal
PROPERTIES
  
  AdvancesEnd
  CollectionEnds
CHECK_DEADLOCK FALSE
