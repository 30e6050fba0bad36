\* Each converter on a small library of its own.
SPECIFICATION OcrFairSpec
CONSTANTS
  PageCount <- MCPageCount
  Selection <- MCSelection
  TooLarge <- MCTooLarge
  JobPages = 2
  RunPages = 3
  Model = {vl, text}
  FaultBound = 2
  Sources <- MCSources
  Weight <- MCWeight
  Jobs <- MCJobs
  MaxPages = 3
  MaxBytes = 5
  BatchSize = 2
  MineruFaults = 2
  RunBound = 3
  Converters = {"paddle", "mineru", "folder"}
  Early = {"Deep A", "Other"}
  Late = {"Deep_A"}
  FolderFaults = 1
  EditBound = 1
  Workers = 2
  Order <- MCOrder
  Base <- MCBase
  Chunks <- MCChunks
  None = None
INVARIANTS PaddleIsRight MineruIsRight 
PROPERTIES ConvertersFinish
CHECK_DEADLOCK FALSE
