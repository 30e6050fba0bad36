SPECIFICATION BatchFairSpec
CONSTANTS
  Batches = {"sources", "replace", "law"}
  Scripts = {"over100", "fifty", "ten", "under_10", "nonlaw", "giant"}
  Order <- MCOrder
  Policies <- MCPolicies
  HasText <- MCHasText
  FaultBound = 1
  EditBound = 1
  None = None
  Old <- MCOld
  Source <- MCSource
  Mismatched = {"o"}
  Dirty = {"q"}
  Worker = {w1, w2}
  ReplaceFaults = 1
  ReplaceEdits = 1
  NoPdf = NoPdf
  ByPriority <- MCOld
  Parent <- MCParent
  LawFaults = 2
  LawRuns = 3
  Absent = Absent
INVARIANTS SourcesAreRight  LawIsRight
 
CHECK_DEADLOCK FALSE
